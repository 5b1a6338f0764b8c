-------------------------- MODULE RebuildLaneProofs --------------------------
(* Proofs about RebuildLane, for any time stamps upstream and any number of  *)
(* faults.                                                                   *)
EXTENDS RebuildLane, TLAPS

Asking == {"unlink", "request", "write", "reset"}
Pending == {"boundary", "check", "await", "save"} \cup Asking

(* What the worker knows at each of its steps. *)
Shape ==
  /\ worker.pc \in Pending => worker.next # None
  /\ worker.pc \in {"loop"} \cup Asking => checkpoint # None
  /\ worker.pc = "boundary" => checkpoint = None
  /\ worker.pc \in {"latest", "search"} \cup Asking /\ checkpoint # None =>
       checkpoint.cadence # "minute"
  /\ worker.pc \in Asking =>
       worker.next.cadence = Finer[checkpoint.cadence] /\ worker.next.time = checkpoint.time

Files ==
  /\ \A s \in staged : s.cadence # None => s.sequence \in 1 .. Latest(s.cadence)
  /\ worker.pc \in {"check", "await"} /\ checkpoint # None =>
       /\ worker.next.cadence = checkpoint.cadence
       /\ worker.next.sequence = checkpoint.sequence + 1
       /\ worker.next.sequence <= Latest(checkpoint.cadence)
       /\ worker.next.time = Stamp(checkpoint.cadence, worker.next.sequence)

(* The search stands in a window of published files, past which no file     *)
(* ends before the boundary.                                                *)
SearchInv ==
  /\ SearchBracket
  /\ worker.pc = "search" => worker.upper <= published[Target]

LaneType == TypeOK /\ Shape /\ Files /\ SearchInv

LEMMA LatestType == ASSUME NEW c \in Cadence PROVE Latest(c) \in Nat
  BY StampsAssumption DEF Latest

LEMMA StampType ==
  ASSUME NEW c \in Cadence, NEW n \in 0 .. Latest(c) PROVE Stamp(c, n) \in Nat
  BY StampsAssumption DEF Stamp, Latest

LEMMA StampMonotone ==
  ASSUME NEW c \in Cadence, NEW m \in 0 .. Latest(c), NEW n \in 0 .. Latest(c), m <= n
  PROVE  Stamp(c, m) <= Stamp(c, n)
<1>1. CASE m = 0
  BY <1>1, StampType DEF Stamp
<1>2. CASE m # 0
  <2>1. m \in DOMAIN Stamps[c] /\ n \in DOMAIN Stamps[c]
    BY <1>2, StampsAssumption DEF Latest
  <2> QED
    BY <1>2, <2>1, StampsAssumption DEF Stamp
<1> QED
  BY <1>1, <1>2

(***************************************************************************)
(* Types                                                                   *)
(***************************************************************************)
LEMMA TargetType ==
  ASSUME TypeOK, Shape, worker.pc \in {"latest", "search"}
  PROVE  Target \in Cadence
<1>1. CASE checkpoint = None
  BY <1>1 DEF Target, Cadence
<1>2. CASE checkpoint # None
  <2>1. checkpoint \in Checkpoint /\ checkpoint.cadence \in {"day", "hour"}
    BY <1>2 DEF TypeOK, Shape, Checkpoint, Cadence
  <2> QED
    BY <1>2, <2>1 DEF Target, Finer, Cadence
<1> QED
  BY <1>1, <1>2

LEMMA BoundaryType == ASSUME TypeOK PROVE Boundary \in Nat
  BY LaneAssumption DEF TypeOK, Boundary, Checkpoint

(* The file that the worker takes next exists. *)
LEMMA NextFile ==
  ASSUME TypeOK, checkpoint # None, ~CaughtUp
  PROVE  /\ checkpoint.cadence \in Cadence
         /\ checkpoint.sequence + 1 \in 1 .. published[checkpoint.cadence]
         /\ checkpoint.sequence + 1 \in 0 .. Latest(checkpoint.cadence)
         /\ Stamp(checkpoint.cadence, checkpoint.sequence + 1) \in Nat
<1>1. checkpoint \in Checkpoint
  BY DEF TypeOK
<1>2. /\ checkpoint.cadence \in Cadence
      /\ checkpoint.sequence + 1 \in 1 .. published[checkpoint.cadence]
  BY <1>1 DEF TypeOK, Checkpoint, CaughtUp
<1>3. checkpoint.sequence + 1 \in 0 .. Latest(checkpoint.cadence)
  BY <1>2, LatestType DEF TypeOK
<1> QED
  BY <1>2, <1>3, StampType

LEMMA FoundType ==
  ASSUME LaneType, SearchEnds
  PROVE  [cadence |-> Target, sequence |-> worker.lo - 1, time |-> Boundary]
         \in Checkpoint \ {None}
<1>1. worker.lo - 1 \in Nat
  BY DEF SearchEnds, LaneType, SearchInv, SearchBracket, TypeOK, Worker
<1>2. Target \in Cadence /\ Boundary \in Nat
  BY TargetType, BoundaryType DEF LaneType, SearchEnds
<1> QED
  BY <1>1, <1>2, LaneAssumption DEF Checkpoint

LEMMA TakenType ==
  ASSUME LaneType, TakeFile
  PROVE  [cadence |-> checkpoint.cadence, sequence |-> checkpoint.sequence + 1,
          time |-> Stamp(checkpoint.cadence, checkpoint.sequence + 1)] \in Checkpoint \ {None}
<1>1. TypeOK /\ checkpoint # None /\ ~CaughtUp
  BY DEF LaneType, TakeFile, Shape
<1> QED
  BY <1>1, NextFile, LaneAssumption DEF Checkpoint

LEMMA TypeStep == ASSUME LaneType, [Next]_vars PROVE TypeOK'
<1> USE LaneAssumption DEF LaneType, TypeOK, Go, Watch, Worker, Watcher, Fresh, files, trouble, Empty
<1>1. CASE Load
  BY <1>1 DEF Load
<1>2. CASE SearchStarts
  <2>1. published[Target] \in Nat
    BY <1>2, TargetType DEF SearchStarts
  <2>2. worker' \in Worker
    <3>1. worker' = [worker EXCEPT !.pc = "search", !.lo = 1, !.hi = published[Target] + 1,
                                   !.upper = published[Target]]
      BY <1>2 DEF SearchStarts
    <3>2. worker'.pc = "search" /\ worker'.lo = 1 /\ worker'.hi \in Nat
          /\ worker'.upper \in Nat /\ worker'.next = worker.next
      BY <2>1, <3>1
    <3> QED
      BY <3>1, <3>2
  <2> QED
    BY <1>2, <2>2 DEF SearchStarts
<1>3. CASE SearchHalves
  BY <1>3 DEF SearchHalves
<1>4. CASE SearchEnds
  <2>1. worker' \in Worker
    BY <1>4, FoundType DEF SearchEnds
  <2> QED
    BY <1>4, <2>1 DEF SearchEnds
<1>5. CASE BoundaryReached
  BY <1>5 DEF BoundaryReached
<1>6. CASE BoundaryAhead
  BY <1>6 DEF BoundaryAhead
<1>7. CASE Save
  BY <1>7 DEF Save
<1>8. CASE TakeFile
  <2>1. worker' \in Worker
    BY <1>8, TakenType DEF TakeFile
  <2> QED
    BY <1>8, <2>1 DEF TakeFile
<1>9. CASE Acknowledge
  BY <1>9 DEF Acknowledge
<1>10. CASE Publish
  <2>1. worker.next \in Checkpoint
    BY <1>10 DEF Publish, Shape, Pending
  <2>2. [sequence |-> worker.next.sequence,
         cadence |-> IF checkpoint = None THEN None ELSE worker.next.cadence]
        \in [sequence : Nat, cadence : Cadence \cup {None}]
    BY <2>1 DEF Checkpoint
  <2>3. staged' \subseteq [sequence : Nat, cadence : Cadence \cup {None}]
    BY <1>10, <2>2 DEF Publish
  <2> QED
    BY <1>10, <2>3 DEF Publish
<1>11. CASE Refused
  BY <1>11 DEF Refused
<1>12. CASE LeaveCadence
  BY <1>12 DEF LeaveCadence
<1>13. CASE UnlinkDone
  BY <1>13 DEF UnlinkDone
<1>14. CASE CreateRequest
  BY <1>14 DEF CreateRequest
<1>15. CASE WriteRequest
  <2>1. worker.next.sequence \in Nat
    BY <1>15 DEF WriteRequest, Shape, Pending, Asking, Checkpoint
  <2> QED
    BY <1>15, <2>1 DEF WriteRequest
<1>16. CASE AwaitReset
  BY <1>16 DEF AwaitReset
<1>17. CASE RequestCutover
  BY <1>17 DEF RequestCutover
<1>18. CASE ApplyTimesOut
  <2>1. faults' \in 0 .. MaxFaults
    BY <1>18 DEF ApplyTimesOut, Blames
  <2> QED
    BY <1>18, <2>1 DEF ApplyTimesOut
<1>19. CASE ResetTimesOut
  <2>1. faults' \in 0 .. MaxFaults
    BY <1>19 DEF ResetTimesOut, Blames
  <2> QED
    BY <1>19, <2>1 DEF ResetTimesOut
<1>20. CASE WatchReset
  BY <1>20 DEF WatchReset
<1>21. CASE WatchEmptyRequest
  BY <1>21 DEF WatchEmptyRequest
<1>22. CASE WipeReplica
  BY <1>22 DEF WipeReplica
<1>23. CASE StartHelper
  BY <1>23 DEF StartHelper
<1>24. CASE ClearReset
  BY <1>24 DEF ClearReset
<1>25. CASE TouchDone
  BY <1>25 DEF TouchDone
<1>26. CASE WatchCutover
  BY <1>26 DEF WatchCutover
<1>27. CASE ClearRequested
  BY <1>27, ZenonT(40) DEF ClearRequested
<1>28. CASE WriteReady
  BY <1>28 DEF WriteReady
<1>29. CASE HelperApplies
  <2>1. PICK s \in staged : /\ s.sequence = cursor + 1
                           /\ db' = IF s.cadence = None THEN db
                                    ELSE Shows(s.cadence, s.sequence)
    BY <1>29 DEF HelperApplies
  <2>2. ASSUME s.cadence # None PROVE Shows(s.cadence, s.sequence) \subseteq Nat
    <3>1. s.cadence \in Cadence /\ s.sequence \in 1 .. Latest(s.cadence)
      BY <2>2 DEF Files
    <3>2. Stamp(s.cadence, s.sequence) \in Nat /\ Stamp(s.cadence, s.sequence - 1) \in Nat
      BY <3>1, LatestType, StampType
    <3>3. Stamp(s.cadence, s.sequence - 1) + 1 .. Stamp(s.cadence, s.sequence) \subseteq Nat
      BY <3>2
    <3> QED
      BY <3>3 DEF Shows
  <2>3. db' \subseteq Nat
    BY <2>1, <2>2
  <2> QED
    BY <1>29, <2>3 DEF HelperApplies
<1>30. CASE HelperCommits
  BY <1>30 DEF HelperCommits
<1>31. CASE Restart
  BY <1>31 DEF Restart
<1>32. ASSUME NEW c \in Cadence, FileAppears(c) PROVE TypeOK'
  BY <1>32, LatestType DEF FileAppears
<1>33. CASE UNCHANGED vars
  BY <1>33 DEF vars
<1> QED
  BY <1>1, <1>2, <1>3, <1>4, <1>5, <1>6, <1>7, <1>8, <1>9, <1>10, <1>11, <1>12, <1>13, <1>14, <1>15, <1>16, <1>17, <1>18, <1>19, <1>20, <1>21, <1>22, <1>23, <1>24, <1>25, <1>26, <1>27, <1>28, <1>29, <1>30, <1>31, <1>32, <1>33
     DEF Next, WorkerStep, WatcherStep, HelperStep

(* Everybody but the worker leaves it and its checkpoint alone. *)
Bystander == WatcherStep \/ HelperStep \/ RequestCutover \/ \E c \in Cadence : FileAppears(c)

LEMMA BystanderStep ==
  ASSUME TypeOK, Bystander
  PROVE  /\ UNCHANGED <<worker, checkpoint>>
         /\ staged' \in {staged, {}}
         /\ \A c \in Cadence : published'[c] >= published[c]
<1> USE DEF files, trouble, Watch, TypeOK
<1>1. CASE WatcherStep
  BY <1>1 DEF WatcherStep, WatchReset, WatchEmptyRequest, WipeReplica, StartHelper, ClearReset,
     TouchDone, WatchCutover, ClearRequested, WriteReady
<1>2. CASE HelperStep
  BY <1>2 DEF HelperStep, HelperApplies, HelperCommits
<1>3. CASE RequestCutover
  BY <1>3 DEF RequestCutover
<1>4. CASE \E c \in Cadence : FileAppears(c)
  BY <1>4 DEF FileAppears
<1> QED
  BY <1>1, <1>2, <1>3, <1>4 DEF Bystander

LEMMA ShapeStep == ASSUME LaneType, [Next]_vars PROVE Shape'
<1> USE DEF LaneType, TypeOK, Go, Worker, Fresh, Shape, Pending, Asking
<1>1. CASE Load
  BY <1>1 DEF Load
<1>2. CASE SearchStarts
  BY <1>2 DEF SearchStarts
<1>3. CASE SearchHalves
  BY <1>3 DEF SearchHalves
<1>4. CASE SearchEnds
  <2>1. /\ worker'.pc = IF checkpoint = None THEN "boundary" ELSE "unlink"
        /\ worker'.next = [cadence |-> Target, sequence |-> worker.lo - 1, time |-> Boundary]
    BY <1>4 DEF SearchEnds
  <2>2. worker'.next # None /\ UNCHANGED checkpoint
    BY <1>4, <2>1, FoundType DEF SearchEnds
  <2> QED
    BY <1>4, <2>1, <2>2 DEF SearchEnds, Target, Boundary
<1>5. CASE BoundaryReached
  BY <1>5 DEF BoundaryReached
<1>6. CASE BoundaryAhead
  BY <1>6 DEF BoundaryAhead
<1>7. CASE Save
  BY <1>7 DEF Save
<1>8. CASE TakeFile
  BY <1>8, TakenType DEF TakeFile
<1>9. CASE Acknowledge
  BY <1>9 DEF Acknowledge
<1>10. CASE Publish
  BY <1>10 DEF Publish
<1>11. CASE Refused
  BY <1>11 DEF Refused
<1>12. CASE LeaveCadence
  BY <1>12 DEF LeaveCadence
<1>13. CASE UnlinkDone
  BY <1>13 DEF UnlinkDone
<1>14. CASE CreateRequest
  BY <1>14 DEF CreateRequest
<1>15. CASE WriteRequest
  BY <1>15 DEF WriteRequest
<1>16. CASE AwaitReset
  BY <1>16 DEF AwaitReset
<1>17. CASE ApplyTimesOut
  BY <1>17 DEF ApplyTimesOut
<1>18. CASE ResetTimesOut
  BY <1>18 DEF ResetTimesOut
<1>19. CASE Restart
  BY <1>19 DEF Restart
<1>20. CASE Bystander
  BY <1>20, BystanderStep
<1>21. CASE UNCHANGED vars
  BY <1>21 DEF vars
<1> QED
  BY <1>1, <1>2, <1>3, <1>4, <1>5, <1>6, <1>7, <1>8, <1>9, <1>10, <1>11, <1>12, <1>13, <1>14, <1>15, <1>16, <1>17, <1>18, <1>19, <1>20, <1>21
     DEF Next, WorkerStep, Bystander

LEMMA FilesStep == ASSUME LaneType, [Next]_vars PROVE Files'
<1> USE DEF LaneType, TypeOK, Go, Worker, Fresh, Files
<1>1. CASE Load
  BY <1>1 DEF Load
<1>2. CASE SearchStarts
  BY <1>2 DEF SearchStarts
<1>3. CASE SearchHalves
  BY <1>3 DEF SearchHalves
<1>4. CASE SearchEnds
  BY <1>4 DEF SearchEnds
<1>5. CASE BoundaryReached
  BY <1>5 DEF BoundaryReached
<1>6. CASE BoundaryAhead
  BY <1>6 DEF BoundaryAhead, Shape
<1>7. CASE Save
  BY <1>7 DEF Save
<1>8. CASE TakeFile
  <2>1. TypeOK /\ checkpoint # None /\ ~CaughtUp
    BY <1>8 DEF TakeFile, Shape
  <2>2. checkpoint.sequence + 1 <= Latest(checkpoint.cadence)
    BY <2>1, NextFile, LatestType
  <2>3. worker'.next = [cadence |-> checkpoint.cadence, sequence |-> checkpoint.sequence + 1,
                        time |-> Stamp(checkpoint.cadence, checkpoint.sequence + 1)]
    BY <1>8 DEF TakeFile
  <2> QED
    BY <1>8, <2>2, <2>3 DEF TakeFile
<1>9. CASE Acknowledge
  BY <1>9 DEF Acknowledge
<1>10. CASE Publish
  <2>1. ASSUME checkpoint # None
        PROVE  worker.next.cadence = checkpoint.cadence
               /\ worker.next.sequence \in 1 .. Latest(checkpoint.cadence)
    BY <1>10, <2>1, LatestType DEF Publish, Checkpoint
  <2>2. \A s \in staged' : s.cadence # None => s.sequence \in 1 .. Latest(s.cadence)
    BY <1>10, <2>1 DEF Publish
  <2>3. worker'.next = worker.next /\ worker.pc = "check" /\ UNCHANGED checkpoint
    BY <1>10 DEF Publish
  <2> QED
    BY <2>2, <2>3
<1>11. CASE Refused
  BY <1>11 DEF Refused
<1>12. CASE LeaveCadence
  BY <1>12 DEF LeaveCadence
<1>13. CASE UnlinkDone
  BY <1>13 DEF UnlinkDone
<1>14. CASE CreateRequest
  BY <1>14 DEF CreateRequest
<1>15. CASE WriteRequest
  BY <1>15 DEF WriteRequest
<1>16. CASE AwaitReset
  BY <1>16 DEF AwaitReset
<1>17. CASE ApplyTimesOut
  BY <1>17 DEF ApplyTimesOut
<1>18. CASE ResetTimesOut
  BY <1>18 DEF ResetTimesOut
<1>19. CASE Restart
  BY <1>19 DEF Restart
<1>20. CASE Bystander
  BY <1>20, BystanderStep
<1>21. CASE UNCHANGED vars
  BY <1>21 DEF vars
<1> QED
  BY <1>1, <1>2, <1>3, <1>4, <1>5, <1>6, <1>7, <1>8, <1>9, <1>10, <1>11, <1>12, <1>13, <1>14, <1>15, <1>16, <1>17, <1>18, <1>19, <1>20, <1>21
     DEF Next, WorkerStep, Bystander

Searchless ==
  \/ Load \/ SearchEnds \/ BoundaryReached \/ BoundaryAhead \/ Save \/ TakeFile
  \/ Acknowledge \/ Publish \/ Refused \/ LeaveCadence \/ UnlinkDone \/ CreateRequest
  \/ WriteRequest \/ AwaitReset \/ ApplyTimesOut \/ ResetTimesOut \/ Restart

(* Halving keeps the bracket because time stamps do not decrease. *)
LEMMA SearchStep == ASSUME LaneType, [Next]_vars PROVE SearchInv'
<1>1. CASE Bystander
  <2>1. Target' = Target /\ Boundary' = Boundary
    BY <1>1, BystanderStep DEF LaneType, Target, Boundary
  <2>2. worker.pc = "search" => published'[Target] >= published[Target]
    BY <1>1, BystanderStep, TargetType DEF LaneType
  <2>3. worker.pc = "search" => /\ published'[Target] \in Nat /\ published[Target] \in Nat
                                /\ worker.upper \in Nat
    BY TypeStep, TargetType DEF LaneType, TypeOK, Worker
  <2> QED
    BY <1>1, <2>1, <2>2, <2>3, BystanderStep DEF LaneType, SearchInv, SearchBracket
<1>2. CASE SearchStarts
  <2>1. published[Target] \in Nat
    BY <1>2, TargetType DEF LaneType, TypeOK, SearchStarts
  <2>2. /\ worker'.lo = 1 /\ worker'.hi = published[Target] + 1
        /\ worker'.upper = published[Target]
        /\ Target' = Target /\ published' = published
    BY <1>2 DEF SearchStarts, LaneType, TypeOK, Worker, Target
  <2> QED
    BY <2>1, <2>2 DEF SearchInv, SearchBracket
<1>3. CASE SearchHalves
  <2> DEFINE mid == (worker.lo + worker.hi) \div 2
  <2>1. /\ worker.pc = "search" /\ worker.lo < worker.hi
        /\ Target' = Target /\ Boundary' = Boundary /\ published' = published
        /\ worker'.upper = worker.upper
    BY <1>3 DEF SearchHalves, LaneType, TypeOK, Worker, Target, Boundary
  <2>2. Target \in Cadence /\ Boundary \in Nat
    BY <2>1, TargetType, BoundaryType DEF LaneType
  <2>3. /\ worker.lo \in Nat /\ worker.hi \in Nat /\ worker.upper \in Nat
        /\ worker.upper <= Latest(Target) /\ Latest(Target) \in Nat
    BY <2>1, <2>2, LatestType DEF LaneType, TypeOK, Worker, SearchInv
  <2>4. 1 <= worker.lo /\ worker.hi <= worker.upper + 1
    BY <2>1 DEF LaneType, SearchInv, SearchBracket
  <2>5. mid \in worker.lo .. worker.hi - 1
    BY <2>1, <2>3
  <2>6. \A n \in 1 .. worker.upper : n \in 0 .. Latest(Target) /\ Stamp(Target, n) \in Nat
    BY <2>2, <2>3, StampType
  <2>7. mid \in 1 .. worker.upper
    BY <2>3, <2>4, <2>5
  <2> HIDE DEF mid
  <2>8. CASE Stamp(Target, mid) <= Boundary
    <3>1. worker'.lo = mid + 1 /\ worker'.hi = worker.hi
      BY <1>3, <2>8 DEF SearchHalves, LaneType, TypeOK, Worker, mid
    <3>2. ASSUME NEW n \in 1 .. worker.upper, n < mid + 1 PROVE Stamp(Target, n) <= Boundary
      <4>1. Stamp(Target, n) <= Stamp(Target, mid)
        BY <2>2, <2>6, <2>7, <3>2, StampMonotone
      <4> QED
        BY <2>2, <2>6, <2>7, <2>8, <4>1
    <3> QED
      BY <2>1, <2>3, <2>4, <2>5, <3>1, <3>2 DEF LaneType, SearchInv, SearchBracket
  <2>9. CASE ~(Stamp(Target, mid) <= Boundary)
    <3>1. worker'.lo = worker.lo /\ worker'.hi = mid
      BY <1>3, <2>9 DEF SearchHalves, LaneType, TypeOK, Worker, mid
    <3>2. ASSUME NEW n \in 1 .. worker.upper, n >= mid PROVE Boundary < Stamp(Target, n)
      <4>1. Stamp(Target, mid) <= Stamp(Target, n)
        BY <2>2, <2>6, <2>7, <3>2, StampMonotone
      <4> QED
        BY <2>2, <2>6, <2>7, <2>9, <4>1
    <3> QED
      BY <2>1, <2>3, <2>4, <2>5, <3>1, <3>2 DEF LaneType, SearchInv, SearchBracket
  <2> QED
    BY <2>8, <2>9
<1>4. CASE Searchless
  <2>1. worker'.pc # "search"
    <3> USE DEF Go, Fresh, Worker
    <3>1. worker \in Worker
      BY DEF LaneType, TypeOK
    <3>2. CASE Load \/ SearchEnds \/ BoundaryReached \/ BoundaryAhead \/ Save \/ TakeFile
      BY <3>1, <3>2 DEF Load, SearchEnds, BoundaryReached, BoundaryAhead, Save, TakeFile
    <3>3. CASE Acknowledge \/ Publish \/ Refused \/ LeaveCadence \/ UnlinkDone \/ CreateRequest
      BY <3>1, <3>3 DEF Acknowledge, Publish, Refused, LeaveCadence, UnlinkDone, CreateRequest
    <3>4. CASE WriteRequest \/ AwaitReset \/ ApplyTimesOut \/ ResetTimesOut \/ Restart
      BY <3>1, <3>4 DEF WriteRequest, AwaitReset, ApplyTimesOut, ResetTimesOut, Restart
    <3> QED
      BY <1>4, <3>2, <3>3, <3>4 DEF Searchless
  <2> QED
    BY <2>1 DEF SearchInv, SearchBracket
<1>5. CASE UNCHANGED vars
  BY <1>5 DEF vars, LaneType, SearchInv, SearchBracket, Target, Boundary
<1> QED
  BY <1>1, <1>2, <1>3, <1>4, <1>5 DEF Next, WorkerStep, Bystander, Searchless

LEMMA LaneTypeInit == Init => LaneType
<1> SUFFICES ASSUME Init PROVE LaneType
  OBVIOUS
<1>1. TypeOK
  <2>1. published \in [Cadence -> Nat]
    BY LatestType DEF Init, Cadence
  <2>2. db \subseteq Nat /\ cursor \in Nat
    BY LaneAssumption DEF Init
  <2>3. worker \in Worker /\ watcher \in Watcher /\ faults \in 0 .. MaxFaults
    BY LaneAssumption DEF Init, Worker, Watcher, Fresh
  <2> QED
    BY <2>1, <2>2, <2>3 DEF Init, TypeOK
<1>2. Shape /\ Files /\ SearchInv
  BY DEF Init, Fresh, Shape, Files, SearchInv, SearchBracket, Pending, Asking
<1> QED
  BY <1>1, <1>2 DEF LaneType

(* Every reachable state is well typed, for any time stamps and faults. *)
THEOREM LaneTypeCorrect == Spec => []TypeOK
<1>1. LaneType /\ [Next]_vars => LaneType'
  BY TypeStep, ShapeStep, FilesStep, SearchStep DEF LaneType
<1>2. LaneType => TypeOK
  BY DEF LaneType
<1> QED
  BY LaneTypeInit, <1>1, <1>2, PTL DEF Spec

(* The binary search for a boundary brackets it at every step, whatever the *)
(* time stamps upstream are, as long as they do not decrease.               *)
THEOREM SearchCorrect == Spec => []SearchBracket
<1>1. LaneType /\ [Next]_vars => LaneType'
  BY TypeStep, ShapeStep, FilesStep, SearchStep DEF LaneType
<1>2. LaneType => SearchBracket
  BY DEF LaneType, SearchInv
<1> QED
  BY LaneTypeInit, <1>1, <1>2, PTL DEF Spec

(***************************************************************************)
(* Cursor and database                                                     *)
(***************************************************************************)
SnapshotFile == CHOOSE n \in 0 .. Latest("day") : EndsAt("day", n, SnapshotTime)
Base == IF checkpoint = None THEN SnapshotFile - 1 ELSE checkpoint.sequence

Beyond(f, time) == published[f] < Latest(f) => time <= Stamp(f, published[f] + 1)

(* A coarser file appears after the finer ones. *)
Upstream ==
  /\ SnapshotFile \in 0 .. Latest("day") /\ EndsAt("day", SnapshotFile, SnapshotTime)
  /\ SnapshotFile <= published["day"]
  /\ \A f \in Cadence : Beyond(f, SnapshotTime)
  /\ \A f \in Cadence : \A c \in Coarser(f) : Beyond(f, Stamp(c, published[c]))
  /\ checkpoint # None =>
       \A f \in Cadence : checkpoint.cadence \in Coarser(f) => Beyond(f, checkpoint.time)

(* A checkpoint's time lies between its own file and the next one. *)
Edge(p) ==
  /\ p.sequence <= Latest(p.cadence)
  /\ Stamp(p.cadence, p.sequence) <= p.time
  /\ p.sequence < Latest(p.cadence) => p.time <= Stamp(p.cadence, p.sequence + 1)

Edges ==
  /\ checkpoint # None => Edge(checkpoint)
  /\ worker.pc \in Pending =>
       /\ Edge(worker.next)
       /\ checkpoint = None => worker.next.sequence = SnapshotFile
       /\ \A f \in Cadence : worker.next.cadence \in Coarser(f) => Beyond(f, worker.next.time)
  /\ worker.pc = "search" =>
       /\ worker.upper < Latest(Target) => Boundary <= Stamp(Target, worker.upper + 1)
       /\ checkpoint = None => SnapshotFile <= worker.upper

LaneInv == Upstream /\ Edges

(* Upstream files and the checkpoint change in two kinds of steps only. *)
LEMMA OtherSteps ==
  ASSUME [Next]_vars
  PROVE  \/ Save
         \/ \E c \in Cadence : FileAppears(c)
         \/ UNCHANGED <<published, checkpoint>>
<1>1. CASE WorkerStep
  BY <1>1 DEF WorkerStep, Load, SearchStarts, SearchHalves, SearchEnds, BoundaryReached,
     BoundaryAhead, TakeFile, Acknowledge, Publish, Refused, LeaveCadence, UnlinkDone,
     CreateRequest, WriteRequest, AwaitReset, RequestCutover
<1>2. CASE WatcherStep
  BY <1>2 DEF WatcherStep, WatchReset, WatchEmptyRequest, WipeReplica, StartHelper, ClearReset,
     TouchDone, WatchCutover, ClearRequested, WriteReady
<1>3. CASE HelperStep
  BY <1>3 DEF HelperStep, HelperApplies, HelperCommits
<1>4. CASE ApplyTimesOut \/ ResetTimesOut \/ Restart \/ UNCHANGED vars
  BY <1>4 DEF ApplyTimesOut, ResetTimesOut, Restart, vars
<1> QED
  BY <1>1, <1>2, <1>3, <1>4 DEF Next

LEMMA LaneTypeStep == ASSUME LaneType, [Next]_vars PROVE LaneType'
  BY TypeStep, ShapeStep, FilesStep, SearchStep DEF LaneType

LEMMA SnapshotFileUnique ==
  ASSUME NEW m \in 0 .. Latest("day"), EndsAt("day", m, SnapshotTime),
         NEW n \in 0 .. Latest("day"), EndsAt("day", n, SnapshotTime)
  PROVE  m = n
<1>1. ASSUME NEW i \in 0 .. Latest("day"), EndsAt("day", i, SnapshotTime),
             NEW j \in 0 .. Latest("day"), EndsAt("day", j, SnapshotTime), i < j
      PROVE  FALSE
  <2>0. "day" \in Cadence /\ Latest("day") \in Nat
    BY LatestType DEF Cadence
  <2>1. i + 1 \in 0 .. Latest("day") /\ i + 1 <= j
    BY <1>1, <2>0
  <2>2. Stamp("day", i + 1) <= Stamp("day", j)
    BY <2>0, <2>1, StampMonotone
  <2>3. SnapshotTime < Stamp("day", i + 1) /\ Stamp("day", j) <= SnapshotTime
    BY <1>1, <2>0, <2>1 DEF EndsAt
  <2>4. Stamp("day", i + 1) \in Nat /\ Stamp("day", j) \in Nat /\ SnapshotTime \in Nat
    BY <2>0, <2>1, StampType, LaneAssumption
  <2> QED
    BY <2>2, <2>3, <2>4
<1> QED
  BY <1>1, LatestType DEF Cadence

LEMMA BeyondGrows ==
  ASSUME TypeOK, TypeOK', NEW f \in Cadence, NEW time \in Nat, Beyond(f, time),
         published'[f] >= published[f]
  PROVE  published'[f] < Latest(f) => time <= Stamp(f, published'[f] + 1)
<1> SUFFICES ASSUME published'[f] < Latest(f)
             PROVE  time <= Stamp(f, published'[f] + 1)
  OBVIOUS
<1>1. published[f] \in Nat /\ published'[f] \in Nat /\ Latest(f) \in Nat
  BY LatestType DEF TypeOK
<1>2. published[f] + 1 \in 0 .. Latest(f) /\ published'[f] + 1 \in 0 .. Latest(f)
  BY <1>1
<1>3. Stamp(f, published[f] + 1) <= Stamp(f, published'[f] + 1)
  BY <1>1, <1>2, StampMonotone
<1>4. Stamp(f, published[f] + 1) \in Nat /\ Stamp(f, published'[f] + 1) \in Nat
  BY <1>2, StampType
<1> QED
  BY <1>1, <1>3, <1>4 DEF Beyond

LEMMA BeyondEarlier ==
  ASSUME TypeOK, NEW f \in Cadence, NEW late \in Nat, NEW early \in Nat, early <= late,
         Beyond(f, late)
  PROVE  Beyond(f, early)
<1>1. published[f] < Latest(f) => published[f] + 1 \in 0 .. Latest(f)
  BY LatestType DEF TypeOK
<1> QED
  BY <1>1, StampType DEF Beyond

LEMMA LaneInvInit == Init => LaneInv
<1> SUFFICES ASSUME Init PROVE LaneInv
  OBVIOUS
<1>1. TypeOK
  BY LaneTypeInit DEF LaneType
<1>2. published["day"] \in 0 .. Latest("day") /\ EndsAt("day", published["day"], SnapshotTime)
  BY <1>1 DEF Init, TypeOK, Cadence
<1>3. SnapshotFile \in 0 .. Latest("day") /\ EndsAt("day", SnapshotFile, SnapshotTime)
  BY <1>2 DEF SnapshotFile
<1>4. SnapshotFile = published["day"]
  BY <1>2, <1>3, SnapshotFileUnique
<1>5. ASSUME NEW f \in Cadence PROVE Beyond(f, SnapshotTime)
  <2>1. published[f] < Latest(f) => /\ SnapshotTime < Stamp(f, published[f] + 1)
                                    /\ published[f] + 1 \in 0 .. Latest(f)
    BY <1>1, LatestType DEF Init, EndsAt, TypeOK
  <2> QED
    BY <2>1, StampType, LaneAssumption DEF Beyond
<1>6. ASSUME NEW f \in Cadence, NEW c \in Coarser(f) PROVE Beyond(f, Stamp(c, published[c]))
  <2>1. c \in Cadence
    BY DEF Coarser, Cadence
  <2>2. published[c] \in 0 .. Latest(c) /\ Stamp(c, published[c]) <= SnapshotTime
    BY <1>1, <2>1, LatestType DEF Init, EndsAt, TypeOK
  <2> QED
    BY <1>1, <1>5, <2>1, <2>2, StampType, BeyondEarlier, LaneAssumption
<1>7. Upstream
  BY <1>2, <1>3, <1>4, <1>5, <1>6 DEF Upstream, Init
<1>8. Edges
  BY DEF Edges, Init, Fresh, Pending, Asking
<1> QED
  BY <1>7, <1>8 DEF LaneInv

(* What a step does to files upstream and to the worker's knowledge of them. *)
LEMMA UpstreamStep == ASSUME LaneType, LaneInv, [Next]_vars PROVE Upstream'
<1>0. TypeOK /\ TypeOK' /\ LaneType'
  BY LaneTypeStep DEF LaneType
<1>1. /\ SnapshotFile' = SnapshotFile /\ Latest("day")' = Latest("day")
      /\ EndsAt("day", SnapshotFile, SnapshotTime)' = EndsAt("day", SnapshotFile, SnapshotTime)
  BY DEF SnapshotFile, Latest, EndsAt, Stamp
<1>2. ASSUME NEW c \in Cadence, FileAppears(c) PROVE Upstream'
  <2>1. UNCHANGED checkpoint /\ \A f \in Cadence : published'[f] >= published[f]
    BY <1>0, <1>2 DEF FileAppears, TypeOK
  <2>2. ASSUME NEW f \in Cadence, NEW time \in Nat, Beyond(f, time) PROVE Beyond(f, time)'
    BY <1>0, <2>1, <2>2, BeyondGrows DEF Beyond, Latest, Stamp
  <2>3. ASSUME NEW f \in Cadence, NEW d \in Coarser(f)
        PROVE  Beyond(f, Stamp(d, published[d]))'
    <3>1. d \in Cadence /\ f # d
      BY DEF Coarser, Cadence
    <3>2. CASE d # c
      BY <1>0, <1>2, <2>2, <3>1, <3>2, StampType, LatestType
         DEF FileAppears, TypeOK, LaneInv, Upstream, Stamp
    <3>3. CASE d = c
      <4>1. published'[c] = published[c] + 1 /\ published'[f] = published[f]
        BY <1>0, <1>2, <3>1, <3>3 DEF FileAppears, TypeOK
      <4>2. SUFFICES ASSUME published[f] < Latest(f)
                     PROVE  Stamp(c, published[c] + 1) <= Stamp(f, published[f] + 1)
        BY <3>3, <4>1 DEF Beyond, Latest, Stamp
      <4>3. Stamp(c, published[c] + 1) <= Stamp(f, published[f])
        BY <1>2, <3>3, <4>2, LatestType, <1>0 DEF FileAppears, TypeOK
      <4>4. published[f] \in 0 .. Latest(f) /\ published[f] + 1 \in 0 .. Latest(f)
            /\ published[c] + 1 \in 0 .. Latest(c)
        BY <1>0, <1>2, <4>2, LatestType DEF FileAppears, TypeOK
      <4>5. Stamp(f, published[f]) <= Stamp(f, published[f] + 1)
        BY <1>0, <4>4, StampMonotone DEF TypeOK
      <4> QED
        BY <4>3, <4>4, <4>5, StampType
    <3> QED
      BY <3>2, <3>3
  <2>4. "day" \in Cadence /\ SnapshotFile <= published'["day"]
    BY <1>0, <2>1, LatestType DEF LaneInv, Upstream, Cadence, TypeOK
  <2>5. checkpoint # None => checkpoint.time \in Nat
    BY <1>0 DEF TypeOK, Checkpoint
  <2> QED
    BY <1>1, <2>1, <2>2, <2>3, <2>4, <2>5, LaneAssumption DEF LaneInv, Upstream
<1>3. CASE Save
  <2>1. UNCHANGED published /\ checkpoint' = worker.next /\ worker.pc \in Pending
    BY <1>3 DEF Save, Pending
  <2> QED
    BY <1>1, <2>1 DEF LaneInv, Upstream, Edges, Beyond, Stamp, Latest
<1>4. CASE UNCHANGED <<published, checkpoint>>
  BY <1>1, <1>4 DEF LaneInv, Upstream, Beyond, Stamp, Latest
<1> QED
  BY <1>2, <1>3, <1>4, OtherSteps

LEMMA CoarserChain ==
  ASSUME NEW f \in Cadence, NEW c \in {"day", "hour"}, Finer[c] \in Coarser(f)
  PROVE  c \in Coarser(f)
  BY DEF Finer, Coarser, Cadence

LEMMA FinerCoarser == ASSUME NEW c \in {"day", "hour"} PROVE c \in Coarser(Finer[c])
  BY DEF Finer, Coarser

(* Every finer file that is still to come ends at the boundary or later. *)
LEMMA BoundaryAheadOf ==
  ASSUME LaneType, Upstream, worker.pc \in {"latest", "search"}
  PROVE  /\ Beyond(Target, Boundary)
         /\ \A f \in Cadence : Target \in Coarser(f) => Beyond(f, Boundary)
<1>1. CASE checkpoint = None
  BY <1>1 DEF Upstream, Target, Boundary, Cadence
<1>2. CASE checkpoint # None
  <2>1. checkpoint.cadence \in {"day", "hour"}
    BY <1>2 DEF LaneType, Shape, TypeOK, Checkpoint, Cadence
  <2>2. Target = Finer[checkpoint.cadence] /\ Boundary = checkpoint.time /\ Target \in Cadence
    BY <1>2, TargetType DEF Target, Boundary, LaneType
  <2> QED
    BY <1>2, <2>1, <2>2, CoarserChain, FinerCoarser DEF Upstream
<1> QED
  BY <1>1, <1>2

(* What the search finds lies between the boundary's own file and the next. *)
LEMMA FoundEdge ==
  ASSUME LaneType, LaneInv, SearchEnds
  PROVE  /\ Edge([cadence |-> Target, sequence |-> worker.lo - 1, time |-> Boundary])
         /\ checkpoint = None => worker.lo - 1 = SnapshotFile
<1> DEFINE n == worker.lo - 1
<1>1. /\ worker.pc = "search" /\ worker.lo = worker.hi /\ worker.upper \in Nat
      /\ n \in 0 .. worker.upper /\ worker.upper <= Latest(Target)
      /\ Target \in Cadence /\ Boundary \in Nat /\ Latest(Target) \in Nat
  <2>1. worker.pc = "search" /\ Target \in Cadence /\ Boundary \in Nat /\ Latest(Target) \in Nat
    BY TargetType, BoundaryType, LatestType DEF SearchEnds, LaneType
  <2>2. /\ worker.lo \in Nat /\ worker.hi \in Nat /\ worker.upper \in Nat
        /\ published[Target] \in Nat /\ published[Target] <= Latest(Target)
    BY <2>1 DEF LaneType, TypeOK, Worker
  <2>3. /\ 1 <= worker.lo /\ worker.lo <= worker.hi /\ worker.hi <= worker.upper + 1
        /\ worker.upper <= published[Target] /\ worker.lo >= worker.hi
    BY <2>1 DEF LaneType, SearchInv, SearchBracket, SearchEnds
  <2> QED
    BY <2>1, <2>2, <2>3
<1>0. \A k \in 1 .. worker.upper : /\ k < worker.lo => Stamp(Target, k) <= Boundary
                                   /\ k >= worker.hi => Boundary < Stamp(Target, k)
  BY <1>1 DEF LaneType, SearchInv, SearchBracket
<1>w. worker.lo \in Nat
  BY DEF LaneType, TypeOK, Worker
<1>2. Stamp(Target, n) <= Boundary
  <2>1. CASE n = 0
    BY <1>1, <2>1 DEF Stamp
  <2>2. CASE n # 0
    <3>1. n \in 1 .. worker.upper /\ n < worker.lo
      BY <1>1, <1>w, <2>2
    <3> QED
      BY <1>0, <3>1
  <2> QED
    BY <2>1, <2>2
<1>3. ASSUME n < worker.upper PROVE Boundary < Stamp(Target, n + 1)
  <2>1. n + 1 \in 1 .. worker.upper /\ n + 1 >= worker.hi
    BY <1>1, <1>w, <1>3
  <2> QED
    BY <1>0, <2>1
<1>4. n = worker.upper /\ n < Latest(Target) => Boundary <= Stamp(Target, n + 1)
  BY <1>1 DEF LaneInv, Edges
<1>5. n < Latest(Target) => n + 1 \in 0 .. Latest(Target) /\ Stamp(Target, n + 1) \in Nat
  BY <1>1, StampType
<1>6. n < Latest(Target) => Boundary <= Stamp(Target, n + 1)
  BY <1>1, <1>3, <1>4, <1>5
<1>7. ASSUME checkpoint = None PROVE n = SnapshotFile
  <2>1. Target = "day" /\ Boundary = SnapshotTime
    BY <1>7 DEF Target, Boundary
  <2>2. SnapshotFile \in 0 .. worker.upper
    BY <1>1, <1>7 DEF LaneInv, Upstream, Edges
  <2>3. ASSUME n = worker.upper, n < Latest("day") PROVE SnapshotTime < Stamp("day", n + 1)
    <3>1. /\ SnapshotFile + 1 \in 0 .. Latest("day") /\ n + 1 \in 0 .. Latest("day")
          /\ SnapshotFile + 1 <= n + 1
      BY <1>1, <2>1, <2>2, <2>3
    <3>2. Stamp("day", SnapshotFile + 1) <= Stamp("day", n + 1)
      BY <1>1, <2>1, <3>1, StampMonotone
    <3>3. SnapshotTime < Stamp("day", SnapshotFile + 1)
      BY <1>1, <2>1, <2>2, <3>1 DEF LaneInv, Upstream, EndsAt
    <3> QED
      BY <1>1, <2>1, <3>1, <3>2, <3>3, StampType, LaneAssumption
  <2>4. EndsAt("day", n, SnapshotTime) /\ n \in 0 .. Latest("day")
    BY <1>1, <1>2, <1>3, <2>1, <2>3 DEF EndsAt
  <2> HIDE DEF n
  <2> QED
    BY <2>4, SnapshotFileUnique DEF LaneInv, Upstream
<1>8. Edge([cadence |-> Target, sequence |-> n, time |-> Boundary])
  BY <1>1, <1>2, <1>6 DEF Edge
<1> QED
  BY <1>7, <1>8

(* So does a file that the worker takes. *)
LEMMA TakenEdge ==
  ASSUME LaneType, Upstream, TakeFile
  PROVE  LET c == checkpoint.cadence
             n == checkpoint.sequence + 1
         IN /\ Edge([cadence |-> c, sequence |-> n, time |-> Stamp(c, n)])
            /\ \A f \in Cadence : c \in Coarser(f) => Beyond(f, Stamp(c, n))
<1> DEFINE c == checkpoint.cadence
           n == checkpoint.sequence + 1
<1>1. /\ TypeOK /\ c \in Cadence /\ n \in 1 .. published[c] /\ n \in 0 .. Latest(c)
      /\ Stamp(c, n) \in Nat /\ Latest(c) \in Nat /\ published[c] \in 0 .. Latest(c)
  <2>1. TypeOK /\ checkpoint # None /\ ~CaughtUp
    BY DEF LaneType, TakeFile, Shape
  <2>2. c \in Cadence /\ n \in 1 .. published[c] /\ n \in 0 .. Latest(c) /\ Stamp(c, n) \in Nat
    BY <2>1, NextFile
  <2> QED
    BY <2>1, <2>2, LatestType DEF TypeOK
<1> HIDE DEF c, n
<1>2. n < Latest(c) => Stamp(c, n) <= Stamp(c, n + 1)
  BY <1>1, StampMonotone
<1>3. Edge([cadence |-> c, sequence |-> n, time |-> Stamp(c, n)])
  BY <1>1, <1>2 DEF Edge
<1>4. Stamp(c, n) <= Stamp(c, published[c]) /\ Stamp(c, published[c]) \in Nat
  BY <1>1, StampMonotone, StampType
<1>5. ASSUME NEW f \in Cadence, c \in Coarser(f) PROVE Beyond(f, Stamp(c, n))
  BY <1>1, <1>4, <1>5, BeyondEarlier DEF Upstream
<1> QED
  BY <1>3, <1>5 DEF c, n

Carries ==
  \/ BoundaryReached \/ BoundaryAhead \/ Acknowledge \/ Publish
  \/ UnlinkDone \/ CreateRequest \/ WriteRequest \/ AwaitReset

GivesUp == Load \/ Refused \/ LeaveCadence \/ ApplyTimesOut \/ ResetTimesOut \/ Restart

LEMMA CarriesStep ==
  ASSUME LaneType, Carries
  PROVE  /\ worker.pc \in Pending /\ worker'.pc \in Pending
         /\ worker'.next = worker.next /\ UNCHANGED <<published, checkpoint>>
<1> USE DEF Go, Worker, Pending, Asking
<1>0. worker \in Worker
  BY DEF LaneType, TypeOK
<1>1. CASE BoundaryReached \/ BoundaryAhead \/ Acknowledge \/ Publish
  BY <1>0, <1>1 DEF BoundaryReached, BoundaryAhead, Acknowledge, Publish
<1>2. CASE UnlinkDone \/ CreateRequest \/ WriteRequest \/ AwaitReset
  BY <1>0, <1>2 DEF UnlinkDone, CreateRequest, WriteRequest, AwaitReset
<1> QED
  BY <1>1, <1>2 DEF Carries

LEMMA GivesUpStep ==
  ASSUME LaneType, GivesUp
  PROVE  worker'.pc \in {"load", "loop", "latest"} /\ UNCHANGED <<published, checkpoint>>
<1> USE DEF Go, Worker, Fresh
<1>0. worker \in Worker
  BY DEF LaneType, TypeOK
<1> QED
  BY <1>0 DEF GivesUp, Load, Refused, LeaveCadence, ApplyTimesOut, ResetTimesOut, Restart

LEMMA EdgesStep == ASSUME LaneType, LaneInv, [Next]_vars PROVE Edges'
<1> USE DEF Pending, Asking
<1>0. /\ TypeOK /\ TypeOK' /\ LaneType'
      /\ worker \in Worker
  BY LaneTypeStep DEF LaneType, TypeOK
<1>2. CASE Save
  <2>1. worker'.pc = "loop" /\ checkpoint' = worker.next /\ worker.pc \in Pending
    BY <1>2 DEF Save, Fresh
  <2> QED
    BY <2>1 DEF LaneInv, Edges, Edge, Stamp, Latest
<1>3. CASE SearchEnds
  <2> DEFINE found == [cadence |-> Target, sequence |-> worker.lo - 1, time |-> Boundary]
  <2>1. /\ worker'.next = found /\ worker'.pc \in {"boundary", "unlink"}
        /\ UNCHANGED <<published, checkpoint>>
    BY <1>0, <1>3 DEF SearchEnds, Worker
  <2>2. Edge(found) /\ (checkpoint = None => found.sequence = SnapshotFile)
    BY <1>3, FoundEdge
  <2>3. \A f \in Cadence : found.cadence \in Coarser(f) => Beyond(f, found.time)
    BY <1>3, BoundaryAheadOf DEF LaneInv, SearchEnds
  <2>4. Edge(worker'.next) /\ (checkpoint' = None => worker'.next.sequence = SnapshotFile)
        /\ \A f \in Cadence : worker'.next.cadence \in Coarser(f) => Beyond(f, worker'.next.time)
    BY <2>1, <2>2, <2>3
  <2> QED
    BY <2>1, <2>4 DEF LaneInv, Edges, Edge, Beyond, Stamp, Latest, SnapshotFile, EndsAt
<1>4. CASE TakeFile
  <2> DEFINE c == checkpoint.cadence
             n == checkpoint.sequence + 1
  <2>1. /\ worker'.next = [cadence |-> c, sequence |-> n, time |-> Stamp(c, n)]
        /\ worker'.pc = "check" /\ checkpoint # None
        /\ UNCHANGED <<published, checkpoint>>
    BY <1>0, <1>4 DEF TakeFile, Worker, LaneType, Shape
  <2>2. Edge(worker'.next)
        /\ \A f \in Cadence : worker'.next.cadence \in Coarser(f) => Beyond(f, worker'.next.time)
    BY <1>4, <2>1, TakenEdge DEF LaneInv
  <2> HIDE DEF c, n
  <2> QED
    BY <2>1, <2>2 DEF LaneInv, Edges, Edge, Beyond, Stamp, Latest
<1>5. CASE SearchStarts
  <2>1. /\ worker'.pc = "search" /\ worker'.upper = published[Target] /\ worker.pc = "latest"
        /\ UNCHANGED <<published, checkpoint>>
    BY <1>0, <1>5 DEF SearchStarts, Worker
  <2>2. published[Target] < Latest(Target) => Boundary <= Stamp(Target, published[Target] + 1)
    BY <1>0, <2>1, BoundaryAheadOf DEF LaneInv, Beyond
  <2>3. checkpoint = None => SnapshotFile <= published[Target]
    BY DEF LaneInv, Upstream, Target
  <2> QED
    BY <2>1, <2>2, <2>3 DEF LaneInv, Edges, Edge, Stamp, Latest, Target, Boundary, SnapshotFile, EndsAt
<1>6. CASE SearchHalves
  <2>1. /\ worker'.pc = "search" /\ worker'.upper = worker.upper /\ worker.pc = "search"
        /\ UNCHANGED <<published, checkpoint>>
    BY <1>0, <1>6 DEF SearchHalves, Worker
  <2> QED
    BY <2>1 DEF LaneInv, Edges, Edge, Stamp, Latest, Target, Boundary, SnapshotFile, EndsAt
<1>7. CASE Carries
  <2>1. worker'.pc # "search"
    BY <1>7, CarriesStep
  <2> QED
    BY <1>7, <2>1, CarriesStep DEF LaneInv, Edges, Edge, Beyond, Stamp, Latest, SnapshotFile, EndsAt
<1>8. CASE GivesUp
  BY <1>8, GivesUpStep DEF LaneInv, Edges, Edge, Stamp, Latest
<1>9. CASE Bystander
  <2>1. UNCHANGED <<worker, checkpoint>> /\ \A f \in Cadence : published'[f] >= published[f]
    BY <1>0, <1>9, BystanderStep
  <2>2. ASSUME NEW f \in Cadence, NEW time \in Nat, Beyond(f, time) PROVE Beyond(f, time)'
    BY <1>0, <2>1, <2>2, BeyondGrows DEF Beyond, Latest, Stamp
  <2>3. worker.pc \in Pending => worker.next.time \in Nat
    BY <1>0 DEF LaneType, Shape, Worker, Checkpoint
  <2>4. /\ checkpoint' # None => Edge(checkpoint)'
        /\ worker'.pc = "search" =>
             /\ worker'.upper < Latest(Target)' => Boundary' <= Stamp(Target, worker.upper + 1)'
             /\ checkpoint' = None => SnapshotFile' <= worker'.upper
    BY <2>1 DEF LaneInv, Edges, Edge, Stamp, Latest, Target, Boundary, SnapshotFile, EndsAt
  <2>5. ASSUME worker'.pc \in Pending
        PROVE  /\ Edge(worker.next)'
               /\ checkpoint' = None => worker'.next.sequence = SnapshotFile'
               /\ \A f \in Cadence : worker.next.cadence \in Coarser(f) =>
                                      Beyond(f, worker.next.time)'
    BY <2>1, <2>2, <2>3, <2>5 DEF LaneInv, Edges, Edge, Stamp, Latest, SnapshotFile, EndsAt
  <2> QED
    BY <2>1, <2>4, <2>5 DEF Edges, Coarser
<1>10. CASE UNCHANGED vars
  BY <1>10 DEF vars, LaneInv, Edges, Edge, Beyond, Stamp, Latest, Target, Boundary, SnapshotFile,
     EndsAt
<1> QED
  BY <1>2, <1>3, <1>4, <1>5, <1>6, <1>7, <1>8, <1>9, <1>10
     DEF Next, WorkerStep, Bystander, Carries, GivesUp

LEMMA LaneInvStep == ASSUME LaneType, LaneInv, [Next]_vars PROVE LaneInv'
  BY UpstreamStep, EdgesStep DEF LaneInv

Wiped == watcher.pc \in {"start", "clear", "touch"}
Done == \/ worker.pc = "reset" /\ (resetDone \/ Wiped)
        \/ worker.pc = "save" /\ Resetting

(* Worker and watcher take turns in a change of cadence. *)
Handshake ==
  /\ worker.pc \in {"request", "write"} => ~resetDone
  /\ worker.pc # "reset" => watcher.pc # "wipe" /\ ~Wiped
  /\ worker.pc \notin {"write", "reset"} => reset = None
  /\ worker.pc = "write" => reset = Empty
  /\ worker.pc = "reset" =>
       /\ watcher.pc = "wipe" \/ Wiped => ~resetDone
       /\ watcher.pc \in {"wipe", "start"} => helper = "stopped"
       /\ watcher.pc = "wipe" => watcher.to = worker.next.sequence
       /\ reset \in {None, worker.next.sequence}
       /\ reset = None <=> resetDone \/ watcher.pc = "touch"

(* Before the reset of the cursor it counts the files of the checkpoint's   *)
(* cadence, afterwards those of the next one.                               *)
Counting ==
  /\ ~Done => /\ cursor \in {Base, Base + 1}
              /\ helper = "applied" => cursor = Base
              /\ \A s \in staged : s.sequence <= Base + 1
              /\ worker.pc = "save" => /\ cursor = Base + 1
                                       /\ worker.next.sequence = Base + 1
  /\ Done => cursor = worker.next.sequence /\ staged = {} /\ helper # "applied"

InStep == ~interrupted => Handshake /\ Counting

LEMMA Interruption ==
  ASSUME [Next]_vars, interrupted \in BOOLEAN, ~interrupted'
  PROVE  ~interrupted /\ ~ResetTimesOut /\ ~WatchEmptyRequest
<1> USE DEF trouble
<1>1. ~ResetTimesOut /\ ~WatchEmptyRequest
  BY DEF ResetTimesOut, WatchEmptyRequest
<1>2. CASE WorkerStep
  BY <1>1, <1>2 DEF WorkerStep, Load, SearchStarts, SearchHalves, SearchEnds, BoundaryReached,
     BoundaryAhead, Save, TakeFile, Acknowledge, Publish, Refused, LeaveCadence, UnlinkDone,
     CreateRequest, WriteRequest, AwaitReset, RequestCutover
<1>3. CASE WatcherStep
  BY <1>1, <1>3 DEF WatcherStep, WatchReset, WipeReplica, StartHelper, ClearReset, TouchDone,
     WatchCutover, ClearRequested, WriteReady
<1>4. CASE HelperStep \/ \E c \in Cadence : FileAppears(c)
  BY <1>1, <1>4 DEF HelperStep, HelperApplies, HelperCommits, FileAppears
<1>5. CASE ApplyTimesOut \/ Restart \/ UNCHANGED vars
  BY <1>1, <1>5 DEF ApplyTimesOut, Restart, vars
<1> QED
  BY <1>1, <1>2, <1>3, <1>4, <1>5 DEF Next

Steady ==
  \/ Load \/ SearchStarts \/ SearchHalves \/ SearchEnds \/ BoundaryReached \/ BoundaryAhead
  \/ Save \/ TakeFile \/ Acknowledge \/ Publish \/ Refused \/ LeaveCadence \/ ApplyTimesOut

LEMMA SteadyStep ==
  ASSUME worker \in Worker, Steady
  PROVE  /\ worker.pc \notin {"request", "write", "reset"}
         /\ worker'.pc \notin {"request", "write", "reset"}
         /\ UNCHANGED <<reset, resetDone, watcher, helper, cursor>>
<1> USE DEF Go, Worker, Fresh, files
<1>1. CASE Load \/ SearchStarts \/ SearchHalves \/ SearchEnds \/ BoundaryReached
  BY <1>1 DEF Load, SearchStarts, SearchHalves, SearchEnds, BoundaryReached
<1>2. CASE BoundaryAhead \/ Save \/ TakeFile \/ Acknowledge
  BY <1>2 DEF BoundaryAhead, Save, TakeFile, Acknowledge
<1>3. CASE Publish \/ Refused \/ LeaveCadence \/ ApplyTimesOut
  BY <1>3 DEF Publish, Refused, LeaveCadence, ApplyTimesOut
<1> QED
  BY <1>1, <1>2, <1>3 DEF Steady

LEMMA HandshakeStep ==
  ASSUME LaneType, Handshake, [Next]_vars, ~interrupted'
  PROVE  Handshake'
<1> USE DEF Handshake, Wiped, files, Go, Watch
<1>0. /\ TypeOK /\ worker \in Worker /\ watcher \in Watcher
      /\ interrupted \in BOOLEAN /\ ~interrupted
  BY Interruption DEF LaneType, TypeOK
<1>1. CASE Steady
  BY <1>0, <1>1, SteadyStep
<1>2. CASE UnlinkDone
  BY <1>0, <1>2 DEF UnlinkDone, Worker
<1>3. CASE CreateRequest
  BY <1>0, <1>3 DEF CreateRequest, Worker
<1>4. CASE WriteRequest
  <2>1. worker.next.sequence # None
    BY <1>0, <1>4, LaneAssumption DEF WriteRequest, LaneType, Shape, Pending, Asking, Worker, Checkpoint
  <2> QED
    BY <1>0, <1>4, <2>1 DEF WriteRequest, Worker
<1>5. CASE AwaitReset
  BY <1>0, <1>5 DEF AwaitReset, Worker
<1>6. CASE RequestCutover
  BY <1>6 DEF RequestCutover
<1>7. CASE WatchReset
  <2>1. worker.pc = "reset" /\ reset = worker.next.sequence /\ reset # None
    BY <1>7, LaneAssumption DEF WatchReset, Empty
  <2> QED
    BY <1>7, <2>1 DEF WatchReset
<1>8. CASE WipeReplica
  BY <1>0, <1>8 DEF WipeReplica, Watcher
<1>9. CASE StartHelper
  BY <1>0, <1>9 DEF StartHelper, Watcher
<1>10. CASE ClearReset
  BY <1>0, <1>10 DEF ClearReset, Watcher
<1>11. CASE TouchDone
  BY <1>0, <1>11 DEF TouchDone, Watcher
<1>12. CASE WatchCutover \/ ClearRequested \/ WriteReady
  BY <1>0, <1>12 DEF WatchCutover, ClearRequested, WriteReady, Watcher
<1>13. CASE HelperStep
  BY <1>13 DEF HelperStep, HelperApplies, HelperCommits
<1>14. CASE \E c \in Cadence : FileAppears(c)
  BY <1>14 DEF FileAppears
<1>15. CASE Restart
  BY <1>0, <1>15 DEF Restart, Resetting, Fresh
<1>16. CASE UNCHANGED vars
  BY <1>16 DEF vars
<1> QED
  BY <1>0, <1>1, <1>2, <1>3, <1>4, <1>5, <1>6, <1>7, <1>8, <1>9, <1>10, <1>11, <1>12, <1>13,
     <1>14, <1>15, <1>16, Interruption DEF Next, WorkerStep, WatcherStep, Steady

LEMMA BaseType == ASSUME LaneType, LaneInv PROVE Base \in Int
  BY LatestType DEF LaneType, LaneInv, Upstream, Base, TypeOK, Checkpoint, Cadence

(* What the worker waits for is the file after the base. *)
LEMMA NextIsBase ==
  ASSUME LaneType, LaneInv, worker.pc \in {"boundary", "check", "await"}
  PROVE  worker.next.sequence = Base + 1
  BY DEF LaneType, Shape, Files, LaneInv, Upstream, Edges, Base, Pending

LEMMA CountingStep ==
  ASSUME LaneType, LaneInv, Handshake, Counting, [Next]_vars, ~interrupted'
  PROVE  Counting'
<1> USE DEF Counting, Done, Wiped, files, Go, Watch
<1>0. /\ TypeOK /\ worker \in Worker /\ watcher \in Watcher
      /\ interrupted \in BOOLEAN /\ ~interrupted /\ Base \in Int /\ cursor \in Nat
      /\ SnapshotFile' = SnapshotFile
  BY Interruption, BaseType DEF LaneType, TypeOK, SnapshotFile, EndsAt, Stamp, Latest
<1>1. CASE Load \/ SearchStarts \/ SearchHalves \/ SearchEnds \/ BoundaryAhead
  BY <1>0, <1>1 DEF Load, SearchStarts, SearchHalves, SearchEnds, BoundaryAhead, Worker, Base
<1>2. CASE TakeFile \/ Refused \/ LeaveCadence \/ ApplyTimesOut
  BY <1>0, <1>2 DEF TakeFile, Refused, LeaveCadence, ApplyTimesOut, Worker, Base, Fresh
<1>3. CASE BoundaryReached \/ Acknowledge
  <2>1. /\ worker.pc \in {"boundary", "check", "await"} /\ worker'.pc = "save"
        /\ worker'.next = worker.next /\ cursor >= worker.next.sequence
        /\ UNCHANGED <<checkpoint, cursor, staged, helper>>
    BY <1>0, <1>3 DEF BoundaryReached, Acknowledge, Worker
  <2>2. worker.next.sequence = Base + 1 /\ cursor = Base + 1
    BY <1>0, <2>1, NextIsBase
  <2>3. ~Resetting'
    BY <1>3, <2>1 DEF BoundaryReached, Acknowledge, Resetting, LaneType, Shape, Files
  <2> QED
    BY <1>0, <2>1, <2>2, <2>3 DEF Base
<1>4. CASE Publish
  <2>1. /\ worker.pc = "check" /\ worker'.pc = "await"
        /\ \A s \in staged' : s \in staged \/ s.sequence = worker.next.sequence
        /\ UNCHANGED <<checkpoint, cursor, helper>>
    BY <1>0, <1>4 DEF Publish, Worker
  <2>2. worker.next.sequence = Base + 1
    BY <2>1, NextIsBase
  <2> QED
    BY <1>0, <2>1, <2>2 DEF Base
<1>5. CASE Save
  <2>1. /\ worker.pc = "save" /\ worker'.pc = "loop" /\ checkpoint' = worker.next
        /\ checkpoint' # None /\ UNCHANGED <<cursor, staged, helper>>
    BY <1>5 DEF Save, Fresh, LaneType, Shape, Pending
  <2>2. Base' = worker.next.sequence
    BY <2>1 DEF Base
  <2>3. cursor = Base'
    BY <2>1, <2>2
  <2>4. \A s \in staged : s.sequence <= Base' + 1
    <3>1. CASE Resetting
      BY <2>1, <3>1
    <3>2. CASE ~Resetting
      <4>1. Base' = Base + 1 /\ \A s \in staged : s.sequence <= Base + 1
        BY <2>1, <2>2, <3>2
      <4>2. \A s \in staged : s.sequence \in Nat
        BY <1>0 DEF TypeOK
      <4> QED
        BY <1>0, <4>1, <4>2
    <3> QED
      BY <3>1, <3>2
  <2> QED
    BY <1>0, <2>1, <2>3, <2>4
<1>6. CASE UnlinkDone \/ CreateRequest \/ WriteRequest
  <2>1. /\ worker.pc \in {"unlink", "request", "write"}
        /\ worker'.pc \in {"request", "write", "reset"}
        /\ worker'.pc = "reset" => worker.pc = "write"
        /\ UNCHANGED <<checkpoint, cursor, staged, helper, watcher>>
        /\ worker.pc = "write" => UNCHANGED resetDone
    BY <1>0, <1>6 DEF UnlinkDone, CreateRequest, WriteRequest, Worker
  <2>2. ~Done'
    BY <2>1 DEF Handshake
  <2> QED
    BY <1>0, <2>1, <2>2 DEF Base
<1>7. CASE AwaitReset
  <2>1. /\ worker.pc = "reset" /\ worker'.pc = "save" /\ resetDone
        /\ worker'.next = worker.next /\ UNCHANGED <<checkpoint, cursor, staged, helper>>
    BY <1>0, <1>7 DEF AwaitReset, Worker
  <2>2. Resetting'
    <3>1. /\ checkpoint # None /\ checkpoint.cadence \in {"day", "hour"}
          /\ worker.next.cadence = Finer[checkpoint.cadence]
      BY <2>1 DEF LaneType, Shape, Asking, TypeOK, Checkpoint, Cadence
    <3> QED
      BY <2>1, <3>1 DEF Resetting, Finer
  <2> QED
    BY <2>1, <2>2
<1>8. CASE RequestCutover \/ WatchCutover \/ ClearRequested \/ WriteReady
  BY <1>0, <1>8 DEF RequestCutover, WatchCutover, ClearRequested, WriteReady, Base, Resetting,
     Watcher
<1>9. CASE WatchReset
  <2>1. worker.pc = "reset" /\ ~Done
    BY <1>9, LaneAssumption DEF WatchReset, Handshake, Empty
  <2> QED
    BY <1>0, <1>9, <2>1 DEF WatchReset, Base, Handshake
<1>10. CASE WipeReplica
  BY <1>0, <1>10 DEF WipeReplica, Handshake, Resetting, Watcher
<1>11. CASE StartHelper \/ ClearReset \/ TouchDone
  BY <1>0, <1>11 DEF StartHelper, ClearReset, TouchDone, Handshake, Resetting, Watcher
<1>12. CASE HelperApplies
  <2>1. PICK s \in staged : s.sequence = cursor + 1
    BY <1>12 DEF HelperApplies
  <2>2. ~Done /\ s.sequence <= Base + 1 /\ s.sequence \in Nat
    BY <1>0, <2>1 DEF TypeOK
  <2>3. cursor = Base
    BY <1>0, <2>1, <2>2
  <2> QED
    BY <1>0, <1>12, <2>2, <2>3 DEF HelperApplies, Base, Resetting
<1>13. CASE HelperCommits
  BY <1>0, <1>13 DEF HelperCommits, Base, Resetting
<1>14. CASE \E c \in Cadence : FileAppears(c)
  BY <1>0, <1>14 DEF FileAppears, Base, Resetting
<1>15. CASE Restart
  BY <1>0, <1>15 DEF Restart, Fresh, Base, Resetting, Handshake
<1>16. CASE UNCHANGED vars
  BY <1>0, <1>16 DEF vars, Base, Resetting
<1> QED
  BY <1>0, <1>1, <1>2, <1>3, <1>4, <1>5, <1>6, <1>7, <1>8, <1>9, <1>10, <1>11, <1>12, <1>13,
     <1>14, <1>15, <1>16, Interruption DEF Next, WorkerStep, WatcherStep, HelperStep

LEMMA InStepInit == Init => InStep
<1> SUFFICES ASSUME Init PROVE InStep
  OBVIOUS
<1>1. published["day"] \in 0 .. Latest("day") /\ EndsAt("day", published["day"], SnapshotTime)
  BY LaneTypeInit DEF Init, LaneType, TypeOK, Cadence
<1>2. SnapshotFile = published["day"]
  BY <1>1, SnapshotFileUnique, LaneInvInit DEF LaneInv, Upstream
<1>3. cursor \in {Base, Base + 1}
  BY <1>1, <1>2 DEF Init, Base
<1> QED
  BY <1>3 DEF Init, InStep, Handshake, Counting, Done, Wiped, Resetting, Fresh

(* Until a change of cadence is cut short, the database's cursor stands at  *)
(* the file the worker publishes or just before it, for any time stamps     *)
(* upstream and any number of restarts and timeouts.                        *)
THEOREM CursorStaysInStep == Spec => []CursorInStep
<1>1. LaneType /\ [Next]_vars => LaneType'
  BY LaneTypeStep
<1>2. LaneType /\ LaneInv /\ [Next]_vars => LaneInv'
  BY LaneInvStep
<1>3. LaneType /\ LaneInv /\ InStep /\ [Next]_vars => InStep'
  BY HandshakeStep, CountingStep, Interruption DEF InStep, LaneType, TypeOK
<1>4. LaneType /\ LaneInv /\ InStep => CursorInStep
  <2> SUFFICES ASSUME LaneType, LaneInv, InStep, ~interrupted, worker.pc \in {"check", "await"}
               PROVE  cursor \in {worker.next.sequence - 1, worker.next.sequence}
    BY DEF CursorInStep
  <2>1. worker.next.sequence = Base + 1 /\ Base \in Int
    BY NextIsBase, BaseType
  <2>2. cursor \in {Base, Base + 1}
    BY DEF InStep, Counting, Done
  <2> QED
    BY <2>1, <2>2
<1> QED
  BY LaneTypeInit, LaneInvInit, InStepInit, <1>1, <1>2, <1>3, <1>4, PTL DEF Spec

(***************************************************************************)
(* The database                                                            *)
(***************************************************************************)
(* The time that a checkpoint under way will have. *)
NextTime ==
  /\ worker.pc \in {"boundary", "check", "await", "save"} /\ checkpoint = None =>
       worker.next.time = SnapshotTime
  /\ worker.pc = "save" /\ Resetting => worker.next.time = checkpoint.time
  /\ worker.pc = "save" /\ ~Resetting /\ checkpoint # None =>
       worker.next.time = Stamp(checkpoint.cadence, worker.next.sequence)

(* The database shows what the checkpoint says, and the next file's minutes *)
(* if that is applied.                                                      *)
Tagged ==
  \A s \in staged : s.sequence = Base + 1 =>
    s.cadence = IF checkpoint = None THEN None ELSE checkpoint.cadence
Reached ==
  checkpoint # None /\ ~Done /\ (helper = "applied" \/ cursor = Base + 1) =>
    1 .. Stamp(checkpoint.cadence, Base + 1) \subseteq db
Shown == ~interrupted => 1 .. Boundary \subseteq db /\ Tagged /\ Reached

LEMMA NextTimeStep == ASSUME LaneType, NextTime, [Next]_vars PROVE NextTime'
<1> USE DEF NextTime, Resetting, Go, Worker, Fresh
<1>0. TypeOK /\ worker \in Worker
  BY DEF LaneType, TypeOK
<1>1. CASE Bystander
  BY <1>0, <1>1, BystanderStep DEF Stamp
<1>2. CASE SearchStarts \/ SearchHalves
  BY <1>0, <1>2 DEF SearchStarts, SearchHalves
<1>3. CASE SearchEnds
  BY <1>0, <1>3 DEF SearchEnds, Boundary
<1>4. CASE Save
  BY <1>4 DEF Save
<1>5. CASE TakeFile
  BY <1>0, <1>5 DEF TakeFile, LaneType, Shape
<1>6. CASE BoundaryReached \/ BoundaryAhead \/ Publish
  BY <1>0, <1>6 DEF BoundaryReached, BoundaryAhead, Publish, LaneType, Shape
<1>7. CASE Acknowledge
  BY <1>0, <1>7 DEF Acknowledge, LaneType, Files, Stamp
<1>8. CASE UnlinkDone \/ CreateRequest \/ WriteRequest
  BY <1>0, <1>8 DEF UnlinkDone, CreateRequest, WriteRequest
<1>9. CASE AwaitReset
  <2>1. /\ checkpoint # None /\ checkpoint.cadence \in {"day", "hour"}
        /\ worker.next.cadence = Finer[checkpoint.cadence] /\ worker.next.time = checkpoint.time
    BY <1>0, <1>9 DEF AwaitReset, LaneType, Shape, Asking, TypeOK, Checkpoint, Cadence
  <2>2. worker.next.cadence # checkpoint.cadence
    BY <2>1 DEF Finer
  <2> QED
    BY <1>0, <1>9, <2>1, <2>2 DEF AwaitReset
<1>10. CASE GivesUp
  <2>1. worker'.pc \in {"load", "loop", "latest"}
    BY <1>10, GivesUpStep
  <2> QED
    BY <2>1
<1>11. CASE UNCHANGED vars
  BY <1>11 DEF vars, Stamp
<1> QED
  BY <1>1, <1>2, <1>3, <1>4, <1>5, <1>6, <1>7, <1>8, <1>9, <1>10, <1>11
     DEF Next, WorkerStep, Bystander, GivesUp

(* A step that is neither a save nor the end of a reset that is cut short   *)
(* keeps the reset done.                                                    *)
LEMMA DoneStays ==
  ASSUME LaneType, Handshake, [Next]_vars, ~interrupted', Done, ~Save
  PROVE  Done'
<1> USE DEF Done, Wiped, Go, Watch, files
<1>0. /\ worker \in Worker /\ watcher \in Watcher /\ interrupted \in BOOLEAN
      /\ ~ResetTimesOut /\ ~WatchEmptyRequest
  BY Interruption DEF LaneType, TypeOK
<1>1. CASE WorkerStep
  <2>1. CASE AwaitReset
    <3>1. /\ checkpoint # None /\ checkpoint.cadence \in {"day", "hour"}
          /\ worker.next.cadence = Finer[checkpoint.cadence]
      BY <1>0, <2>1 DEF AwaitReset, LaneType, Shape, Asking, TypeOK, Checkpoint, Cadence
    <3> QED
      BY <1>0, <2>1, <3>1 DEF AwaitReset, Resetting, Finer, Worker
  <2>2. CASE RequestCutover
    BY <2>2 DEF RequestCutover, Resetting
  <2>3. CASE ~AwaitReset /\ ~RequestCutover
    BY <1>1, <2>3 DEF WorkerStep, Load, SearchStarts, SearchHalves, SearchEnds, BoundaryReached,
       BoundaryAhead, TakeFile, Acknowledge, Publish, Refused, LeaveCadence, UnlinkDone,
       CreateRequest, WriteRequest
  <2> QED
    BY <2>1, <2>2, <2>3
<1>2. CASE WatcherStep
  <2>1. UNCHANGED <<worker, checkpoint>>
    BY <1>2, BystanderStep DEF Bystander, LaneType
  <2>2. CASE worker.pc = "reset"
    <3>1. CASE WatchReset \/ WatchCutover \/ WipeReplica
      BY <1>0, <2>1, <2>2, <3>1, LaneAssumption
         DEF Handshake, WatchReset, WatchCutover, WipeReplica, Watcher
    <3>2. CASE StartHelper \/ ClearReset \/ TouchDone
      BY <1>0, <2>1, <2>2, <3>2 DEF StartHelper, ClearReset, TouchDone, Watcher
    <3>3. CASE ClearRequested \/ WriteReady
      BY <1>0, <2>1, <2>2, <3>3 DEF ClearRequested, WriteReady, Watcher
    <3> QED
      BY <1>0, <1>2, <3>1, <3>2, <3>3 DEF WatcherStep
  <2>3. CASE worker.pc # "reset"
    BY <2>1, <2>3 DEF Resetting
  <2> QED
    BY <2>2, <2>3
<1>3. CASE HelperStep
  BY <1>3 DEF HelperStep, HelperApplies, HelperCommits, Resetting
<1>4. CASE \E c \in Cadence : FileAppears(c)
  BY <1>4 DEF FileAppears, Resetting
<1>5. CASE ApplyTimesOut \/ Restart
  BY <1>5 DEF ApplyTimesOut, Restart, Resetting
<1>6. CASE UNCHANGED vars
  BY <1>6 DEF vars, Resetting
<1> QED
  BY <1>0, <1>1, <1>2, <1>3, <1>4, <1>5, <1>6 DEF Next

Moves == Save \/ HelperApplies \/ HelperCommits \/ Publish \/ WipeReplica

LEMMA Unmoved ==
  ASSUME [Next]_vars, ~Moves
  PROVE  /\ UNCHANGED <<checkpoint, db, cursor, staged>>
         /\ helper' = "applied" => helper = "applied"
<1> USE DEF Moves, files
<1>1. CASE WorkerStep
  BY <1>1 DEF WorkerStep, Load, SearchStarts, SearchHalves, SearchEnds, BoundaryReached,
     BoundaryAhead, TakeFile, Acknowledge, Refused, LeaveCadence, UnlinkDone, CreateRequest,
     WriteRequest, AwaitReset, RequestCutover
<1>2. CASE WatcherStep
  BY <1>2 DEF WatcherStep, WatchReset, WatchEmptyRequest, StartHelper, ClearReset, TouchDone,
     WatchCutover, ClearRequested, WriteReady
<1>3. CASE \E c \in Cadence : FileAppears(c)
  BY <1>3 DEF FileAppears
<1>4. CASE ApplyTimesOut \/ ResetTimesOut \/ Restart \/ UNCHANGED vars
  BY <1>4 DEF ApplyTimesOut, ResetTimesOut, Restart, vars
<1> QED
  BY <1>1, <1>2, <1>3, <1>4 DEF Next, HelperStep

(* Applying the file after the checkpoint's keeps every minute up to the    *)
(* checkpoint and adds those up to its own end.                             *)
LEMMA AppliedShows ==
  ASSUME NEW c \in Cadence, NEW n \in 1 .. Latest(c), NEW time \in Nat,
         Stamp(c, n - 1) <= time, time <= Stamp(c, n), 1 .. time \subseteq db
  PROVE  1 .. time \subseteq Shows(c, n) /\ 1 .. Stamp(c, n) \subseteq Shows(c, n)
<1>1. Stamp(c, n - 1) \in Nat /\ Stamp(c, n) \in Nat
  BY StampType, LatestType
<1>2. ASSUME NEW m \in 1 .. Stamp(c, n) PROVE m \in Shows(c, n)
  <2>1. CASE m <= time
    BY <1>1, <2>1 DEF Shows
  <2>2. CASE ~(m <= time)
    BY <1>1, <2>2 DEF Shows
  <2> QED
    BY <2>1, <2>2
<1> QED
  BY <1>1, <1>2

LEMMA ShownStep ==
  ASSUME LaneType, LaneInv, NextTime, Handshake, Counting, 1 .. Boundary \subseteq db, Tagged,
         Reached, [Next]_vars, ~interrupted'
  PROVE  /\ 1 .. Boundary' \subseteq db'
         /\ Tagged' /\ Reached'
<1>0. /\ TypeOK /\ worker \in Worker /\ Base \in Int /\ cursor \in Nat
      /\ SnapshotFile' = SnapshotFile
      /\ \A s \in staged : s.sequence \in Nat
  BY BaseType DEF LaneType, TypeOK, SnapshotFile, EndsAt, Stamp, Latest
<1>1. CASE Save
  <2>1. /\ worker.pc = "save" /\ worker'.pc = "loop" /\ checkpoint' = worker.next
        /\ checkpoint' # None /\ UNCHANGED <<cursor, staged, helper, db>>
    BY <1>1 DEF Save, Fresh, LaneType, Shape, Pending
  <2>2. Base' = worker.next.sequence /\ Boundary' = worker.next.time
    BY <2>1 DEF Base, Boundary
  <2>3. CASE Resetting
    <3>1. Boundary' = Boundary
      BY <2>1, <2>2, <2>3 DEF NextTime, Boundary, Resetting
    <3>2. staged' = {} /\ cursor' = Base' /\ helper' # "applied"
      BY <2>1, <2>2, <2>3 DEF Counting, Done
    <3> QED
      BY <1>0, <2>1, <2>2, <3>1, <3>2, BaseType DEF Tagged, Reached
  <2>4. CASE ~Resetting
    <3>1. cursor = Base + 1 /\ worker.next.sequence = Base + 1 /\ helper # "applied"
          /\ \A s \in staged : s.sequence <= Base + 1
      BY <1>0, <2>1, <2>4 DEF Counting, Done
    <3>2. 1 .. Boundary' \subseteq db
      <4>1. CASE checkpoint = None
        BY <2>1, <2>2, <4>1 DEF NextTime, Boundary
      <4>2. CASE checkpoint # None
        BY <2>1, <2>2, <2>4, <3>1, <4>2 DEF NextTime, Reached, Done
      <4> QED
        BY <4>1, <4>2
    <3>3. Tagged'
      BY <1>0, <2>1, <2>2, <3>1 DEF Tagged
    <3>4. Reached'
      BY <1>0, <2>1, <2>2, <3>1 DEF Reached
    <3> QED
      BY <2>1, <3>2, <3>3, <3>4
  <2> QED
    BY <2>3, <2>4
<1>2. CASE HelperApplies
  <2>1. PICK s \in staged : /\ s.sequence = cursor + 1
                           /\ db' = IF s.cadence = None THEN db
                                    ELSE Shows(s.cadence, s.sequence)
    BY <1>2 DEF HelperApplies
  <2>2. UNCHANGED <<checkpoint, cursor, staged, worker, watcher, resetDone>>
    BY <1>2 DEF HelperApplies, files
  <2>3. ~Done /\ cursor = Base /\ s.sequence = Base + 1
    BY <1>0, <2>1 DEF Counting
  <2>4. s.cadence = IF checkpoint = None THEN None ELSE checkpoint.cadence
    BY <2>1, <2>3 DEF Tagged
  <2>5. Boundary' = Boundary /\ Tagged'
    BY <1>0, <2>2 DEF Boundary, Tagged, Base
  <2>6. CASE checkpoint = None
    BY <2>1, <2>2, <2>4, <2>5, <2>6 DEF Reached
  <2>7. CASE checkpoint # None
    <3> DEFINE c == checkpoint.cadence
               n == s.sequence
    <3>1. checkpoint \in Checkpoint /\ c \in Cadence /\ Base = checkpoint.sequence
          /\ s.cadence = c /\ c # None
      BY <1>0, <2>4, <2>7, LaneAssumption DEF TypeOK, Checkpoint, Base
    <3>2. n \in 1 .. Latest(c) /\ Latest(c) \in Nat /\ n - 1 = checkpoint.sequence
      BY <1>0, <2>3, <3>1, LatestType DEF LaneType, Files
    <3>3. Stamp(c, n - 1) <= checkpoint.time /\ checkpoint.time <= Stamp(c, n)
      BY <2>3, <2>7, <3>1, <3>2 DEF LaneInv, Edges, Edge, Checkpoint
    <3>4. checkpoint.time \in Nat /\ Boundary = checkpoint.time
      BY <2>7, <3>1 DEF Checkpoint, Boundary
    <3>5. 1 .. checkpoint.time \subseteq Shows(c, n) /\ 1 .. Stamp(c, n) \subseteq Shows(c, n)
      BY <3>1, <3>2, <3>3, <3>4, AppliedShows
    <3>6. db' = Shows(c, n)
      BY <2>1, <3>1
    <3>7. Reached'
      BY <2>2, <2>3, <3>1, <3>5, <3>6 DEF Reached, Base, Stamp
    <3> QED
      BY <2>5, <3>4, <3>5, <3>6, <3>7
  <2> QED
    BY <2>6, <2>7
<1>3. CASE HelperCommits
  <2>1. UNCHANGED <<checkpoint, db, staged, worker, watcher, resetDone>> /\ helper = "applied"
    BY <1>3 DEF HelperCommits, files
  <2>2. Done' <=> Done
    BY <2>1 DEF Done, Wiped, Resetting
  <2> QED
    BY <1>0, <2>1, <2>2 DEF Boundary, Tagged, Base, Reached, Stamp
<1>4. CASE Publish
  <2>1. /\ UNCHANGED <<checkpoint, db, cursor, helper>> /\ worker.pc = "check"
        /\ \A s \in staged' :
             \/ s \in staged
             \/ s.cadence = IF checkpoint = None THEN None ELSE worker.next.cadence
    BY <1>4 DEF Publish
  <2>2. checkpoint # None => worker.next.cadence = checkpoint.cadence
    BY <2>1 DEF LaneType, Files
  <2>3. ~Done
    BY <2>1 DEF Done
  <2>4. Tagged'
    BY <1>0, <2>1, <2>2 DEF Tagged, Base
  <2> QED
    BY <1>0, <2>1, <2>3, <2>4 DEF Boundary, Base, Reached, Stamp
<1>5. CASE WipeReplica
  <2>1. UNCHANGED <<checkpoint, db, worker>> /\ staged' = {} /\ watcher'.pc = "start"
        /\ watcher.pc = "wipe"
    BY <1>5 DEF WipeReplica, Watch, LaneType, TypeOK, Watcher
  <2>2. Done'
    BY <2>1 DEF Handshake, Done, Wiped
  <2> QED
    BY <2>1, <2>2 DEF Boundary, Tagged, Reached
<1>6. CASE ~Moves
  <2>1. /\ UNCHANGED <<checkpoint, db, cursor, staged>>
        /\ helper' = "applied" => helper = "applied"
    BY <1>6, Unmoved
  <2>2. ~Done' => ~Done
    BY <1>6, DoneStays DEF Moves
  <2> QED
    BY <1>0, <2>1, <2>2 DEF Boundary, Tagged, Base, Reached, Stamp
<1> QED
  BY <1>1, <1>2, <1>3, <1>4, <1>5, <1>6 DEF Moves

(* Until a change of cadence is cut short the database shows every minute   *)
(* up to the checkpoint, for any time stamps upstream and any number of     *)
(* restarts and timeouts: no file is skipped or applied over a later one.   *)
THEOREM NothingIsSkipped == Spec => []NothingSkipped
<1>1. LaneType /\ [Next]_vars => LaneType'
  BY LaneTypeStep
<1>2. LaneType /\ LaneInv /\ [Next]_vars => LaneInv'
  BY LaneInvStep
<1>3. LaneType /\ LaneInv /\ InStep /\ [Next]_vars => InStep'
  BY HandshakeStep, CountingStep, Interruption DEF InStep, LaneType, TypeOK
<1>4. LaneType /\ NextTime /\ [Next]_vars => NextTime'
  BY NextTimeStep
<1>5. LaneType /\ LaneInv /\ NextTime /\ InStep /\ Shown /\ [Next]_vars => Shown'
  BY ShownStep, Interruption DEF InStep, Shown, LaneType, TypeOK
<1>6. Init => NextTime /\ Shown
  BY DEF Init, NextTime, Shown, Boundary, Tagged, Reached, Fresh
<1>7. Shown => NothingSkipped
  BY DEF Shown, NothingSkipped, Boundary
<1> QED
  BY LaneTypeInit, LaneInvInit, InStepInit, <1>1, <1>2, <1>3, <1>4, <1>5, <1>6, <1>7, PTL DEF Spec
=============================================================================
