-------------------------- MODULE BlueGreenProofs --------------------------
(* Proofs about BlueGreen.  Nothing here depends on the bounds.            *)
EXTENDS BlueGreen, TLAPS

LEMMA TypeInit == Init => TypeOK
  BY BlueGreenAssumption
     DEF Init, TypeOK, Slots, Dirs, BootDir, HasMap, Complete, Absent,
         JobSteps, PodSteps

LEMMA TypeStep == ASSUME TypeOK, [Next]_vars PROVE TypeOK'
<1> USE DEF TypeOK, markers, jobVars, podVars
<1>1. CASE JobStart
  BY <1>1 DEF JobStart, JobGoto, JobSteps
<1>2. CASE JobSelect
  BY <1>2 DEF JobSelect, Other, Slots, JobSteps
<1>3. CASE JobMark
  BY <1>3 DEF JobMark, JobGoto, JobSteps
<1>4. CASE JobWipe
  BY <1>4 DEF JobWipe, JobGoto, JobSteps, Absent, Slots, Dirs
<1>5. CASE JobFill
  BY <1>5 DEF JobFill, JobGoto, JobSteps, Partial, Slots, Dirs
<1>6. CASE JobFinish
  BY <1>6 DEF JobFinish, JobGoto, JobSteps, Complete, Slots, Dirs
<1>7. CASE JobFinishUndermined
  BY <1>7 DEF JobFinishUndermined, JobSteps, Partial, Slots, Dirs
<1>8. CASE JobClear
  BY <1>8 DEF JobClear, JobSteps
<1>9. CASE JobPublish
  BY <1>9 DEF JobPublish, JobGoto, JobSteps
<1>10. CASE JobSeesCutover
  BY <1>10 DEF JobSeesCutover, JobGoto, JobSteps
<1>11. CASE JobTimesOut
  BY <1>11 DEF JobTimesOut, JobGoto, JobSteps
<1>12. CASE JobFails
  BY <1>12 DEF JobFails, Fault, JobSteps
<1>13. CASE JobKilled
  BY <1>13 DEF JobKilled, Fault, JobSteps
<1>14. ASSUME NEW s \in Slots, Boot(s) PROVE TypeOK'
  BY <1>14 DEF Boot, Goto, Branch, PodSteps, BootDir, Slots, Dirs
<1>15. ASSUME NEW s \in Slots, StopReadsBuilding(s) PROVE TypeOK'
  BY <1>15 DEF StopReadsBuilding, Goto, Branch, PodSteps
<1>16. ASSUME NEW s \in Slots, StopStandby(s) PROVE TypeOK'
  BY <1>16 DEF StopStandby, Goto, Branch, PodSteps
<1>17. ASSUME NEW s \in Slots, RetireReadsActive(s) PROVE TypeOK'
  BY <1>17 DEF RetireReadsActive, Goto, Branch, PodSteps
<1>18. ASSUME NEW s \in Slots, RetireReadsBuilding(s) PROVE TypeOK'
  BY <1>18 DEF RetireReadsBuilding, Goto, Branch, PodSteps
<1>19. ASSUME NEW s \in Slots, RetireReadsReady(s) PROVE TypeOK'
  BY <1>19 DEF RetireReadsReady, Goto, Branch, PodSteps
<1>20. ASSUME NEW s \in Slots, RetireStops(s) PROVE TypeOK'
  BY <1>20 DEF RetireStops, Goto, Branch, PodSteps
<1>21. ASSUME NEW s \in Slots, RetireRemoves(s) PROVE TypeOK'
  BY <1>21 DEF RetireRemoves, Goto, Branch, PodSteps, Absent
<1>22. ASSUME NEW s \in Slots, StartTries(s) PROVE TypeOK'
  BY <1>22 DEF StartTries, Goto, Branch, PodSteps, AfterStart
<1>23. ASSUME NEW s \in Slots, ServableBuilding(s) PROVE TypeOK'
  BY <1>23 DEF ServableBuilding, Goto, Branch, PodSteps, AfterStart
<1>24. ASSUME NEW s \in Slots, ServableActive(s) PROVE TypeOK'
  BY <1>24 DEF ServableActive, Goto, Branch, PodSteps
<1>25. ASSUME NEW s \in Slots, ServableReady(s) PROVE TypeOK'
  BY <1>25 DEF ServableReady, Goto, Branch, PodSteps, AfterStart
<1>26. ASSUME NEW s \in Slots, Launch(s) PROVE TypeOK'
  BY <1>26 DEF Launch, Goto, Branch, PodSteps, AfterStart
<1>27. ASSUME NEW s \in Slots, ActivateReadsReady(s) PROVE TypeOK'
  BY <1>27 DEF ActivateReadsReady, Goto, Branch, PodSteps
<1>28. ASSUME NEW s \in Slots, ApiAnswers(s) PROVE TypeOK'
  BY <1>28 DEF ApiAnswers, Goto, Branch, PodSteps
<1>29. ASSUME NEW s \in Slots, ApiSilent(s) PROVE TypeOK'
  BY <1>29 DEF ApiSilent, Goto, Branch, PodSteps
<1>30. ASSUME NEW s \in Slots, ActivateMoves(s) PROVE TypeOK'
  BY <1>30 DEF ActivateMoves, Goto, Branch, PodSteps
<1>31. ASSUME NEW s \in Slots, ActivateClears(s) PROVE TypeOK'
  BY <1>31 DEF ActivateClears, Goto, Branch, PodSteps
<1>32. ASSUME NEW s \in Slots, CheckLives(s) PROVE TypeOK'
  BY <1>32 DEF CheckLives, Goto, Branch, PodSteps
<1>33. ASSUME NEW s \in Slots, CheckExits(s) PROVE TypeOK'
  BY <1>33 DEF CheckExits, Goto, Branch, PodSteps, Restart
<1>34. ASSUME NEW s \in Slots, ApiDies(s) PROVE TypeOK'
  BY <1>34 DEF ApiDies, Goto, Branch, PodSteps, Fault
<1>35. ASSUME NEW s \in Slots, PodCrashes(s) PROVE TypeOK'
  BY <1>35 DEF PodCrashes, Goto, Branch, PodSteps, Fault, Restart
<1>36. ASSUME NEW s \in Slots, RemovalCutShort(s) PROVE TypeOK'
  BY <1>36 DEF RemovalCutShort, Goto, Branch, PodSteps, Fault, Restart, Partial
<1>37. CASE UNCHANGED vars
  BY <1>37 DEF vars
<1> QED
  BY <1>1, <1>2, <1>3, <1>4, <1>5, <1>6, <1>7, <1>8, <1>9, <1>10, <1>11, <1>12, <1>13, <1>14, <1>15, <1>16, <1>17, <1>18, <1>19, <1>20, <1>21, <1>22, <1>23, <1>24, <1>25, <1>26, <1>27, <1>28, <1>29, <1>30, <1>31, <1>32, <1>33, <1>34, <1>35, <1>36, <1>37
       DEF Next, JobStep, PodStep, FaultStep

(* Every variable keeps its type through all steps of job, pods, faults.   *)
THEOREM TypeCorrect == Spec => []TypeOK
  BY TypeInit, TypeStep, PTL DEF Spec

LEMMA CalmStep == ASSUME Calm, CalmInv, [Next]_vars PROVE CalmInv'
<1> TypeOK'
  BY TypeStep DEF CalmInv
<1> USE DEF CalmInv, Calm, ActiveComplete, RetireSparesActive, Fenced,
            Importing, Starting, Retiring, IsComplete, HasMap, Slots, Dirs, Other,
            TypeOK, markers, jobVars, podVars
<1>1. CASE JobStart
  BY <1>1, BlueGreenAssumption DEF JobStart, JobGoto, JobSteps
<1>2. CASE JobSelect
  (* Both pods are settled.  The pod of the inactive slot has no API: the  *)
  (* slot is owned by a killed import, or unpublished and already retired, *)
  (* or published without a database, and APIs run on complete ones only.  *)
  <2>1. CASE active = None
    BY <1>2, <2>1 DEF JobSelect
  <2>2. CASE active # None
    <3>1. /\ target' = Other(active) /\ target' \in Slots
          /\ job' = "mark"
          /\ \A s \in Slots : Settled(s)
          /\ UNCHANGED <<markers, db, planet, podVars, faults>>
      BY <1>2, <2>2 DEF JobSelect
    <3>2. pc[target'] \notin Committed
      BY <3>1 DEF Settled
    <3>3. building \in {None, target'}
      BY <3>1, <2>2
    <3>4. building = target' \/ ~HasMap(target')
      BY <3>1, <2>2 DEF Settled, NeedsRetire, CanActivate
    <3>5. api[target'] = "off"
      BY <3>1, <3>4, <2>2 DEF Settled, NeedsRetire, CanActivate
    <3>6. active \in Slots /\ active = Other(target')
      BY <3>1, <2>2
    <3>7. Fenced(target')
      BY <3>2, <3>5, <3>6 DEF Committed
    <3> QED
      BY <3>1, <3>2, <3>3, <3>4, <3>7 DEF Committed
  <2> QED
    BY <2>1, <2>2
<1>3. CASE JobMark
  BY <1>3, BlueGreenAssumption DEF JobMark, JobGoto, JobSteps
<1>4. CASE JobWipe
  BY <1>4, BlueGreenAssumption DEF JobWipe, JobGoto, JobSteps, Absent, Slots, Dirs
<1>5. CASE JobFill
  BY <1>5, BlueGreenAssumption DEF JobFill, JobGoto, JobSteps, Partial, Slots, Dirs
<1>6. CASE JobFinish
  BY <1>6, BlueGreenAssumption DEF JobFinish, JobGoto, JobSteps, Complete, Slots, Dirs
<1>7. CASE JobFinishUndermined
  BY <1>7, BlueGreenAssumption DEF JobFinishUndermined, JobSteps, Partial, Slots, Dirs
<1>8. CASE JobClear
  BY <1>8, BlueGreenAssumption DEF JobClear, JobSteps
<1>9. CASE JobPublish
  BY <1>9, BlueGreenAssumption DEF JobPublish, JobGoto, JobSteps
<1>10. CASE JobSeesCutover
  BY <1>10, BlueGreenAssumption DEF JobSeesCutover, JobGoto, JobSteps
<1>11. CASE JobTimesOut
  BY <1>11, BlueGreenAssumption DEF JobTimesOut, JobGoto, JobSteps
<1>12. CASE JobFails
  BY <1>12, BlueGreenAssumption DEF JobFails, Fault, JobSteps
<1>13. CASE JobKilled
  BY <1>13, BlueGreenAssumption DEF JobKilled, Fault, JobSteps
<1>14. ASSUME NEW s \in Slots, Boot(s) PROVE CalmInv'
  <2>1. ~HasMap("live")
    BY DEF Absent
  <2>2. BootDir(s) = s
    BY <2>1 DEF BootDir
  <2>3. dir' = [dir EXCEPT ![s] = s]
    BY <1>14, <2>2 DEF Boot
  <2>4. dir' = dir
    BY <2>3
  <2>5. /\ pc' = [pc EXCEPT ![s] = "start"]
        /\ UNCHANGED <<markers, db, jobVars, api>>
    BY <1>14 DEF Boot, Goto
  <2> QED
    BY <2>4, <2>5
<1>15. ASSUME NEW s \in Slots, StopReadsBuilding(s) PROVE CalmInv'
  BY <1>15, BlueGreenAssumption DEF StopReadsBuilding, Goto, Branch, PodSteps
<1>16. ASSUME NEW s \in Slots, StopStandby(s) PROVE CalmInv'
  BY <1>16, BlueGreenAssumption DEF StopStandby, Goto, Branch, PodSteps
<1>17. ASSUME NEW s \in Slots, RetireReadsActive(s) PROVE CalmInv'
  BY <1>17, BlueGreenAssumption DEF RetireReadsActive, Goto, Branch, PodSteps
<1>18. ASSUME NEW s \in Slots, RetireReadsBuilding(s) PROVE CalmInv'
  BY <1>18, BlueGreenAssumption DEF RetireReadsBuilding, Goto, Branch, PodSteps
<1>19. ASSUME NEW s \in Slots, RetireReadsReady(s) PROVE CalmInv'
  BY <1>19, BlueGreenAssumption DEF RetireReadsReady, Goto, Branch, PodSteps
<1>20. ASSUME NEW s \in Slots, RetireStops(s) PROVE CalmInv'
  BY <1>20, BlueGreenAssumption DEF RetireStops, Goto, Branch, PodSteps
<1>21. ASSUME NEW s \in Slots, RetireRemoves(s) PROVE CalmInv'
  BY <1>21, BlueGreenAssumption DEF RetireRemoves, Goto, Branch, PodSteps, Absent
<1>22. ASSUME NEW s \in Slots, StartTries(s) PROVE CalmInv'
  BY <1>22, BlueGreenAssumption DEF StartTries, Goto, Branch, PodSteps, AfterStart
<1>23. ASSUME NEW s \in Slots, ServableBuilding(s) PROVE CalmInv'
  BY <1>23, BlueGreenAssumption DEF ServableBuilding, Goto, Branch, PodSteps, AfterStart
<1>24. ASSUME NEW s \in Slots, ServableActive(s) PROVE CalmInv'
  BY <1>24, BlueGreenAssumption DEF ServableActive, Goto, Branch, PodSteps
<1>25. ASSUME NEW s \in Slots, ServableReady(s) PROVE CalmInv'
  BY <1>25, BlueGreenAssumption DEF ServableReady, Goto, Branch, PodSteps, AfterStart
<1>26. ASSUME NEW s \in Slots, Launch(s) PROVE CalmInv'
  BY <1>26, BlueGreenAssumption DEF Launch, Goto, Branch, PodSteps, AfterStart
<1>27. ASSUME NEW s \in Slots, ActivateReadsReady(s) PROVE CalmInv'
  BY <1>27, BlueGreenAssumption DEF ActivateReadsReady, Goto, Branch, PodSteps
<1>28. ASSUME NEW s \in Slots, ApiAnswers(s) PROVE CalmInv'
  BY <1>28, BlueGreenAssumption DEF ApiAnswers, Goto, Branch, PodSteps
<1>29. ASSUME NEW s \in Slots, ApiSilent(s) PROVE CalmInv'
  BY <1>29, BlueGreenAssumption DEF ApiSilent, Goto, Branch, PodSteps
<1>30. ASSUME NEW s \in Slots, ActivateMoves(s) PROVE CalmInv'
  BY <1>30, BlueGreenAssumption DEF ActivateMoves, Goto, Branch, PodSteps
<1>31. ASSUME NEW s \in Slots, ActivateClears(s) PROVE CalmInv'
  BY <1>31, BlueGreenAssumption DEF ActivateClears, Goto, Branch, PodSteps
<1>32. ASSUME NEW s \in Slots, CheckLives(s) PROVE CalmInv'
  BY <1>32, BlueGreenAssumption DEF CheckLives, Goto, Branch, PodSteps
<1>33. ASSUME NEW s \in Slots, CheckExits(s) PROVE CalmInv'
  BY <1>33, BlueGreenAssumption DEF CheckExits, Goto, Branch, PodSteps, Restart
<1>34. ASSUME NEW s \in Slots, ApiDies(s) PROVE CalmInv'
  BY <1>34, BlueGreenAssumption DEF ApiDies, Goto, Branch, PodSteps, Fault
<1>35. ASSUME NEW s \in Slots, PodCrashes(s) PROVE CalmInv'
  BY <1>35, BlueGreenAssumption DEF PodCrashes, Goto, Branch, PodSteps, Fault, Restart
<1>36. ASSUME NEW s \in Slots, RemovalCutShort(s) PROVE CalmInv'
  BY <1>36, BlueGreenAssumption DEF RemovalCutShort, Goto, Branch, PodSteps, Fault, Restart, Partial
<1>37. CASE UNCHANGED vars
  BY <1>37 DEF vars
<1> QED
  BY <1>1, <1>2, <1>3, <1>4, <1>5, <1>6, <1>7, <1>8, <1>9, <1>10, <1>11, <1>12, <1>13, <1>14, <1>15, <1>16, <1>17, <1>18, <1>19, <1>20, <1>21, <1>22, <1>23, <1>24, <1>25, <1>26, <1>27, <1>28, <1>29, <1>30, <1>31, <1>32, <1>33, <1>34, <1>35, <1>36, <1>37
     DEF Next, JobStep, PodStep, FaultStep

LEMMA CalmInit == ASSUME Calm PROVE Init => CalmInv
<1> SUFFICES ASSUME Init PROVE CalmInv
  OBVIOUS
<1>1. TypeOK
  BY TypeInit
<1>2. ~HasMap("live")
  BY DEF Init, Calm, HasMap, Absent, Dirs, Slots
<1>3. dir = [s \in Slots |-> s]
  BY <1>2 DEF Init, BootDir
<1> QED
  BY <1>1, <1>2, <1>3, BlueGreenAssumption
     DEF Init, Calm, CalmInv, ActiveComplete, RetireSparesActive, Fenced,
         Importing, Starting, Retiring, IsComplete, HasMap, Slots, Dirs,
         Other, Complete, Absent

LEMMA CalmAlways == ASSUME Calm PROVE Spec => []CalmInv
  BY CalmInit, CalmStep, PTL DEF Spec

(* On a calm cluster the Service always routes to a complete database: no  *)
(* kill of a job, no crash of a pod, no death of an API and no             *)
(* interleaving of the marker reads breaks it.                             *)
THEOREM ServiceComplete == ASSUME Calm PROVE Spec => []ActiveComplete
<1>1. CalmInv => ActiveComplete
  BY DEF CalmInv
<1> QED
  BY <1>1, CalmAlways, PTL

LEMMA CalmImports == ASSUME CalmInv PROVE ImportSparesActive
  BY DEF CalmInv, ImportSparesActive, Fenced, Importing, TypeOK, Slots, Other

(* On a calm cluster an import owns the inactive slot from marking it to   *)
(* giving it back: activation never overtakes it.                          *)
THEOREM ImportOwnsInactive == ASSUME Calm PROVE Spec => []ImportSparesActive
<1>1. CalmInv => ImportSparesActive
  BY CalmImports
<1> QED
  BY <1>1, CalmAlways, PTL

(* On a calm cluster a pod starts its API on a complete database only.     *)
THEOREM CalmStartsComplete == ASSUME Calm PROVE Spec => StartsComplete
<1> DEFINE Start(s) == api[s] = "off" /\ api'[s] = "up" => IsComplete(dir[s])
<1>1. ASSUME CalmInv, [Next]_vars PROVE \A s \in Slots : Start(s)
  <2> SUFFICES ASSUME NEW s \in Slots, api[s] = "off", api'[s] = "up"
               PROVE  IsComplete(dir[s])
    OBVIOUS
  <2>1. /\ api \in [Slots -> {"off", "up", "dead"}]
        /\ pc \in [Slots -> PodSteps]
        /\ pc[s] = "launch" => IsComplete(dir[s])
    BY <1>1 DEF CalmInv, TypeOK, Starting
  <2>2. ASSUME JobStep PROVE FALSE
    BY <2>2 DEF JobStep, JobStart, JobSelect, JobMark, JobWipe, JobFill,
         JobFinish, JobFinishUndermined, JobClear, JobPublish,
         JobSeesCutover, JobTimesOut, podVars
  <2>3. ASSUME FaultStep PROVE FALSE
    BY <2>1, <2>3 DEF FaultStep, JobFails, JobKilled, ApiDies, PodCrashes,
         RemovalCutShort, Restart, podVars
  <2>4. ASSUME NEW p \in Slots, PodStep(p) PROVE p = s /\ pc[s] = "launch"
    <3>1. CASE Launch(p)
      BY <2>1, <3>1 DEF Launch, Goto
    <3>2. CASE StopStandby(p) \/ RetireStops(p) \/ CheckExits(p)
      BY <2>1, <3>2 DEF StopStandby, RetireStops, CheckExits, Restart
    <3>3. CASE UNCHANGED api
      BY <3>3
    <3> QED
      BY <2>4, <3>1, <3>2, <3>3 DEF PodStep, Boot, StopReadsBuilding,
         RetireReadsActive, RetireReadsBuilding, RetireReadsReady,
         RetireRemoves, StartTries, ServableBuilding, ServableActive,
         ServableReady, ActivateReadsReady, ApiAnswers, ApiSilent,
         ActivateMoves, ActivateClears, CheckLives
  <2>5. ASSUME UNCHANGED vars PROVE FALSE
    BY <2>5 DEF vars, podVars
  <2> QED
    BY <1>1, <2>1, <2>2, <2>3, <2>4, <2>5 DEF Next
<1>2. ASSUME CalmInv, [Next]_vars
      PROVE  [\A s \in Slots : api[s] = "off" /\ api'[s] = "up" =>
                IsComplete(dir[s])]_vars
  BY <1>1, <1>2
<1> QED
  BY <1>2, CalmAlways, PTL DEF Spec, StartsComplete

LEMMA RetireStep ==
  ASSUME TypeOK, RetireSparesActive, [Next]_vars PROVE RetireSparesActive'
<1> USE DEF TypeOK, RetireSparesActive, Retiring
<1>1. CASE JobStep
  BY <1>1 DEF JobStep, JobStart, JobSelect, JobMark, JobWipe, JobFill,
       JobFinish, JobFinishUndermined, JobClear, JobPublish, JobSeesCutover,
       JobTimesOut, markers, podVars
<1>2. CASE FaultStep
  BY <1>2 DEF FaultStep, JobFails, JobKilled, ApiDies, PodCrashes,
       RemovalCutShort, Restart, markers, podVars
(* Only the pod itself makes its slot active, and not while it retires it. *)
<1>3. ASSUME NEW s \in Slots, ActivateMoves(s) PROVE RetireSparesActive'
  BY <1>3 DEF ActivateMoves, Goto
<1>4. ASSUME NEW s \in Slots, RetireReadsActive(s) PROVE RetireSparesActive'
  BY <1>4 DEF RetireReadsActive, Branch, Goto, markers
<1>5. ASSUME NEW s \in Slots, PodStep(s),
             ~ActivateMoves(s), ~RetireReadsActive(s)
      PROVE  RetireSparesActive'
  BY <1>5 DEF PodStep, Boot, StopReadsBuilding, StopStandby, RetireReadsBuilding,
       RetireReadsReady, RetireStops, RetireRemoves, StartTries,
       ServableBuilding, ServableActive, ServableReady, Launch,
       ActivateReadsReady, ApiAnswers, ApiSilent, ActivateClears, CheckLives,
       CheckExits, Restart, Branch, Goto, AfterStart, markers
<1>6. CASE UNCHANGED vars
  BY <1>6 DEF vars, markers, podVars
<1> QED
  BY <1>1, <1>2, <1>3, <1>4, <1>5, <1>6 DEF Next

(* In every environment, whatever stalls, fails or is killed: the pod that *)
(* removes a database is not the pod of the active slot.                   *)
THEOREM RetirementSparesActive == Spec => []RetireSparesActive
<1>1. Init => RetireSparesActive
  BY DEF Init, RetireSparesActive, Retiring
<1> QED
  BY <1>1, RetireStep, TypeCorrect, PTL DEF Spec

(***************************************************************************)
(* A calm cluster implements Service.                                      *)
(***************************************************************************)

(* The slot that may become the active one, or is about to be imported     *)
(* into: there is one at most.                                             *)
Rising(s) ==
  \/ ready = s \/ building = s
  \/ pc[s] \in {"probe", "move"}
  \/ job \in {"mark", "wipe", "fill", "finish", "clear", "publish"} /\ target = s

PromiseInv ==
  /\ CalmInv
  /\ active # None
  /\ planet <= MaxGen
  /\ \A d \in Dirs : db[d].gen <= planet
  /\ \E s \in Slots : ~Rising(s)
  /\ \A s \in Slots :
       s # active /\ Rising(s) /\ IsComplete(s) => db[s].gen >= db[active].gen
  /\ job = "fill" => ~IsComplete(target)
  /\ job = "finish" => db[target].stage = "partial"

LEMMA SelectsOther ==
  ASSUME JobSelect, active # None, active \in Slots, Calm
  PROVE  /\ job = "select" /\ job' = "mark" /\ target' = Other(active)
         /\ UNCHANGED <<markers, db, planet, podVars, faults>>
         /\ Settled(active) /\ Settled(Other(active))
  BY DEF JobSelect, Calm, Slots, Other

LEMMA PromiseStep == ASSUME Calm, PromiseInv, [Next]_vars PROVE PromiseInv'
<1> CalmInv'
  BY CalmStep DEF PromiseInv
<1> USE BlueGreenAssumption
    DEF PromiseInv, Rising, CalmInv, ActiveComplete, RetireSparesActive, Fenced, Importing,
        Starting, Retiring, IsComplete, HasMap, Slots, Dirs, Other, TypeOK,
        markers, jobVars, podVars
<1>1. CASE JobStart
  BY <1>1 DEF JobStart, JobGoto
<1>2. CASE JobSelect
  (* A settled active pod has nothing to activate: its slot is not rising. *)
  <2> active \in Slots
    OBVIOUS
  <2>0. active # None
    OBVIOUS
  <2>1. /\ job = "select" /\ job' = "mark" /\ target' = Other(active)
        /\ UNCHANGED <<markers, db, planet, podVars, faults>>
    BY <1>2, <2>0, SelectsOther
  <2>2. Settled(active) /\ Settled(target')
    BY <1>2, <2>0, <2>1, SelectsOther
  <2>3. ready # active /\ pc[active] \notin {"probe", "move"}
    BY <2>2 DEF Settled, Committed, CanActivate
  <2>4. building # active
    OBVIOUS
  <2>5. ~Rising(active)'
    BY <2>1, <2>3, <2>4
  <2>6. building # target' => ~IsComplete(target')
    BY <2>2, <2>1 DEF Settled, Committed, NeedsRetire, CanActivate
  <2> QED
    BY <2>1, <2>5, <2>6
<1>3. CASE JobMark
  BY <1>3 DEF JobMark, JobGoto
<1>4. CASE JobWipe
  BY <1>4 DEF JobWipe, JobGoto, Absent
<1>5. CASE JobFill
  BY <1>5 DEF JobFill, JobGoto, Partial
<1>6. CASE JobFinish
  BY <1>6 DEF JobFinish, JobGoto, Complete
<1>7. CASE JobFinishUndermined
  BY <1>7 DEF JobFinishUndermined, Partial
<1>8. CASE JobClear
  BY <1>8 DEF JobClear
<1>9. CASE JobPublish
  BY <1>9 DEF JobPublish, JobGoto
<1>10. CASE JobSeesCutover
  BY <1>10 DEF JobSeesCutover, JobGoto
<1>11. CASE JobTimesOut
  BY <1>11 DEF JobTimesOut, JobGoto
<1>12. CASE JobFails
  BY <1>12 DEF JobFails, Fault
<1>13. CASE JobKilled
  BY <1>13 DEF JobKilled, Fault
<1>14. ASSUME NEW s \in Slots, Boot(s) PROVE PromiseInv'
  BY <1>14 DEF Boot, Goto, Branch
<1>15. ASSUME NEW s \in Slots, StopReadsBuilding(s) PROVE PromiseInv'
  BY <1>15 DEF StopReadsBuilding, Goto, Branch
<1>16. ASSUME NEW s \in Slots, StopStandby(s) PROVE PromiseInv'
  BY <1>16 DEF StopStandby, Goto, Branch
<1>17. ASSUME NEW s \in Slots, RetireReadsActive(s) PROVE PromiseInv'
  BY <1>17 DEF RetireReadsActive, Goto, Branch
<1>18. ASSUME NEW s \in Slots, RetireReadsBuilding(s) PROVE PromiseInv'
  BY <1>18 DEF RetireReadsBuilding, Goto, Branch
<1>19. ASSUME NEW s \in Slots, RetireReadsReady(s) PROVE PromiseInv'
  BY <1>19 DEF RetireReadsReady, Goto, Branch
<1>20. ASSUME NEW s \in Slots, RetireStops(s) PROVE PromiseInv'
  BY <1>20 DEF RetireStops, Goto, Branch
<1>21. ASSUME NEW s \in Slots, RetireRemoves(s) PROVE PromiseInv'
  BY <1>21 DEF RetireRemoves, Goto, Branch, Absent
<1>22. ASSUME NEW s \in Slots, StartTries(s) PROVE PromiseInv'
  BY <1>22 DEF StartTries, Goto, Branch, AfterStart
<1>23. ASSUME NEW s \in Slots, ServableBuilding(s) PROVE PromiseInv'
  BY <1>23 DEF ServableBuilding, Goto, Branch, AfterStart
<1>24. ASSUME NEW s \in Slots, ServableActive(s) PROVE PromiseInv'
  BY <1>24 DEF ServableActive, Goto, Branch
<1>25. ASSUME NEW s \in Slots, ServableReady(s) PROVE PromiseInv'
  BY <1>25 DEF ServableReady, Goto, Branch, AfterStart
<1>26. ASSUME NEW s \in Slots, Launch(s) PROVE PromiseInv'
  BY <1>26 DEF Launch, Goto, Branch, AfterStart
<1>27. ASSUME NEW s \in Slots, ActivateReadsReady(s) PROVE PromiseInv'
  BY <1>27 DEF ActivateReadsReady, Goto, Branch
<1>28. ASSUME NEW s \in Slots, ApiAnswers(s) PROVE PromiseInv'
  BY <1>28 DEF ApiAnswers, Goto, Branch
<1>29. ASSUME NEW s \in Slots, ApiSilent(s) PROVE PromiseInv'
  BY <1>29 DEF ApiSilent, Goto, Branch
<1>30. ASSUME NEW s \in Slots, ActivateMoves(s) PROVE PromiseInv'
  BY <1>30 DEF ActivateMoves, Goto, Branch
<1>31. ASSUME NEW s \in Slots, ActivateClears(s) PROVE PromiseInv'
  BY <1>31 DEF ActivateClears, Goto, Branch
<1>32. ASSUME NEW s \in Slots, CheckLives(s) PROVE PromiseInv'
  BY <1>32 DEF CheckLives, Goto, Branch
<1>33. ASSUME NEW s \in Slots, CheckExits(s) PROVE PromiseInv'
  BY <1>33 DEF CheckExits, Goto, Branch, Restart
<1>34. ASSUME NEW s \in Slots, ApiDies(s) PROVE PromiseInv'
  BY <1>34 DEF ApiDies, Goto, Branch, Fault
<1>35. ASSUME NEW s \in Slots, PodCrashes(s) PROVE PromiseInv'
  BY <1>35 DEF PodCrashes, Goto, Branch, Fault, Restart
<1>36. ASSUME NEW s \in Slots, RemovalCutShort(s) PROVE PromiseInv'
  BY <1>36 DEF RemovalCutShort, Goto, Branch, Fault, Restart, Partial
<1>37. CASE UNCHANGED vars
  BY <1>37 DEF vars
<1> HIDE DEF PromiseInv, Rising, CalmInv, ActiveComplete, RetireSparesActive,
             Fenced, Importing, Starting, Retiring, IsComplete, HasMap, Slots,
             Dirs, Other, TypeOK, markers, jobVars, podVars
<1>38. CASE JobStep
  BY <1>1, <1>2, <1>3, <1>4, <1>5, <1>6, <1>7, <1>8, <1>9, <1>10, <1>11, <1>38
     DEF JobStep
<1>39. ASSUME NEW s \in Slots, PodStep(s) PROVE PromiseInv'
  BY <1>14, <1>15, <1>16, <1>17, <1>18, <1>19, <1>20, <1>21, <1>22, <1>23, <1>24,
     <1>25, <1>26, <1>27, <1>28, <1>29, <1>30, <1>31, <1>32, <1>33, <1>39
     DEF PodStep
<1>40. CASE FaultStep
  BY <1>12, <1>13, <1>34, <1>35, <1>36, <1>40 DEF FaultStep
<1> QED
  BY <1>37, <1>38, <1>39, <1>40 DEF Next

(* What the refinement mapping makes of a state.                           *)
StockAndOffer ==
  /\ Offered = db[active].gen /\ IsComplete(active) /\ active \in Slots
  /\ Stock = {db[active].gen} \union
       {db[s].gen : s \in {t \in {Other(active)} : IsComplete(t)}}
  /\ \A s \in Slots : db[s].gen \in 0..MaxGen
  /\ planet \in 0..MaxGen

LEMMA Mapped == PromiseInv => StockAndOffer
<1> SUFFICES ASSUME PromiseInv PROVE StockAndOffer
  OBVIOUS
<1>1. active \in Slots /\ dir[active] = active /\ IsComplete(active)
  BY DEF PromiseInv, CalmInv, ActiveComplete, TypeOK
<1>2. ~IsComplete("live")
  BY DEF PromiseInv, CalmInv, IsComplete, Absent
<1>3. {e \in Dirs : IsComplete(e)} = {active} \union {t \in {Other(active)} : IsComplete(t)}
  BY <1>1, <1>2 DEF Dirs, Slots, Other
<1>4. /\ \A s \in Slots : db[s].gen \in 0..MaxGen
      /\ planet \in 0..MaxGen
  BY BlueGreenAssumption DEF PromiseInv, CalmInv, TypeOK, Dirs
<1> QED
  BY <1>1, <1>3, <1>4 DEF Stock, Offered, StockAndOffer

(* Every step on a calm cluster is one that Service allows: imports are    *)
(* built, removals discarded, and activations offered.                     *)
LEMMA PromiseMaps ==
  ASSUME Calm, PromiseInv, PromiseInv', [Next]_vars
  PROVE  [Promise!Next]_(Promise!vars)
<1> USE DEF Promise!vars
<1>0. StockAndOffer /\ StockAndOffer'
  BY Mapped, PTL
<1>1. /\ dir = [s \in Slots |-> s] /\ dir' = dir
      /\ db \in [Dirs -> [stage : {"absent", "partial", "complete"}, gen : Nat]]
      /\ active \in Slots /\ target \in Slots
      /\ \A s \in Slots : s # active => s = Other(active)
  BY DEF PromiseInv, CalmInv, TypeOK, Slots, Other
<1>2. ASSUME UNCHANGED <<active, db>> PROVE UNCHANGED Promise!vars
  BY <1>1, <1>2 DEF Stock, Offered, IsComplete
(* A slot other than the active one that is cleared, or filled and not     *)
(* yet complete.                                                           *)
<1>3. ASSUME NEW s \in Slots, s # active, UNCHANGED active,
             db' = [db EXCEPT ![s] = Absent]
      PROVE  [Promise!Next]_(Promise!vars)
  <2>1. ~IsComplete(s)'
    BY <1>1, <1>3 DEF IsComplete, Absent, Dirs
  <2>2. db'[active] = db[active]
    BY <1>1, <1>3 DEF Dirs
  <2>3. s = Other(active)
    BY <1>1, <1>3
  <2>4. Stock' = {db[active].gen} /\ Offered' = Offered
    BY <1>3, <2>1, <2>2, <2>3, <1>0 DEF StockAndOffer
  <2>5. CASE IsComplete(s) /\ db[s].gen # db[active].gen
    <3>1. Stock = {db[active].gen, db[s].gen}
      BY <2>3, <2>5, <1>0 DEF StockAndOffer
    <3>2. Stock' = Stock \ {db[s].gen}
      BY <2>4, <2>5, <3>1
    <3>3. Promise!Discard(db[s].gen)
      BY <2>4, <2>5, <3>2, <1>0 DEF StockAndOffer, Promise!Discard
    <3> QED
      BY <3>3, <1>0 DEF StockAndOffer, Promise!Next
  <2>6. CASE ~(IsComplete(s) /\ db[s].gen # db[active].gen)
    <3>1. Stock = {db[active].gen}
      BY <2>3, <2>6, <1>0 DEF StockAndOffer
    <3> QED
      BY <2>4, <3>1
  <2> QED
    BY <2>5, <2>6
<1>4. CASE JobWipe
  <2>1. target # active
    BY <1>4, CalmImports DEF JobWipe, JobGoto, PromiseInv, ImportSparesActive
  <2> QED
    BY <1>1, <1>3, <1>4, <2>1 DEF JobWipe, markers
<1>5. CASE JobFill
  <2>1. target # active /\ ~IsComplete(target)
    BY <1>5, CalmImports DEF JobFill, JobGoto, PromiseInv, ImportSparesActive
  <2>2. db' = [db EXCEPT ![target] = Partial(planet)] /\ active' = active
    BY <1>5 DEF JobFill, markers
  <2>3. db'[active] = db[active] /\ ~IsComplete(target)'
    BY <1>1, <1>5, <2>1, <2>2 DEF JobFill, IsComplete, Partial, Dirs
  <2>4. target = Other(active)
    BY <1>1, <2>1
  <2>5. Stock = {db[active].gen}
    BY <2>1, <2>4, <1>0 DEF StockAndOffer
  <2>6. ~IsComplete(Other(active))'
    BY <1>5, <2>2, <2>3, <2>4 DEF JobFill
  <2>7. Stock' = {db[active].gen} /\ Offered' = Offered
    BY <2>2, <2>3, <2>6, <1>0 DEF StockAndOffer
  <2> QED
    BY <2>5, <2>7
<1>6. CASE JobFinish
  <2>1. target # active /\ ~IsComplete(target)
    BY <1>6, CalmImports DEF JobFinish, JobGoto, PromiseInv, ImportSparesActive, IsComplete
  <2>2. /\ db' = [db EXCEPT ![target] = Complete(planet)]
        /\ UNCHANGED <<active, target>>
    BY <1>6 DEF JobFinish, markers
  <2>3. /\ db'[active] = db[active]
        /\ db'[target] = Complete(planet)
    BY <1>1, <2>1, <2>2 DEF Dirs
  <2>4. target = Other(active)
    BY <1>1, <2>1
  <2>5. Stock = {db[active].gen}
    BY <2>1, <2>4, <1>0 DEF StockAndOffer
  <2>6. IsComplete(target)' /\ db'[target].gen = planet
    BY <2>2, <2>3 DEF IsComplete, Complete
  <2>7. Stock' = {db[active].gen, planet} /\ Offered' = Offered
    BY <2>2, <2>3, <2>4, <2>6, <1>0 DEF StockAndOffer
  <2>8. planet >= Offered
    BY <1>1, <1>0 DEF StockAndOffer, PromiseInv, Dirs
  <2>9. Promise!Build(planet)
    BY <2>5, <2>7, <2>8 DEF Promise!Build
  <2> QED
    BY <2>9, <1>0 DEF StockAndOffer, Promise!Next
<1>7. ASSUME NEW s \in Slots, RetireRemoves(s) PROVE [Promise!Next]_(Promise!vars)
  <2>1. s # active
    BY <1>7 DEF RetireRemoves, Goto, PromiseInv, CalmInv, RetireSparesActive, Retiring
  <2> QED
    BY <1>1, <1>3, <1>7, <2>1 DEF RetireRemoves, markers
<1>8. ASSUME NEW s \in Slots, ActivateMoves(s) PROVE [Promise!Next]_(Promise!vars)
  <2>1. active' = s /\ UNCHANGED <<db, dir>> /\ pc[s] = "move"
    BY <1>8 DEF ActivateMoves, Goto
  <2>2. Rising(s) /\ IsComplete(s)
    BY <2>1 DEF Rising, PromiseInv, CalmInv
  <2>3. s # active => db[s].gen >= db[active].gen
    BY <2>2 DEF PromiseInv
  <2>4. Stock' = Stock /\ Offered' = db[s].gen /\ db[s].gen \in Stock
    <3>1. Stock' = Stock
      BY <2>1 DEF Stock, IsComplete
    <3>2. Offered' = db[s].gen
      BY <1>1, <2>1 DEF Offered
    <3>3. db[s].gen \in Stock
      BY <2>2 DEF Stock, Dirs
    <3> QED
      BY <3>1, <3>2, <3>3
  <2>5. CASE db[s].gen = db[active].gen
    BY <2>4, <2>5, <1>0 DEF StockAndOffer
  <2>6. CASE db[s].gen # db[active].gen
    <3>1. db[s].gen > Offered
      BY <2>3, <2>6, <1>0 DEF StockAndOffer
    <3>2. Promise!Offer(db[s].gen)
      BY <2>4, <3>1 DEF Promise!Offer
    <3> QED
      BY <3>2, <1>0 DEF StockAndOffer, Promise!Next
  <2> QED
    BY <2>5, <2>6
<1>9. CASE JobFinishUndermined
  BY <1>9 DEF JobFinishUndermined, PromiseInv, HasMap
<1>10. ASSUME NEW s \in Slots, RemovalCutShort(s) PROVE FALSE
  BY <1>10 DEF RemovalCutShort, Fault, Calm
<1>11. CASE UNCHANGED <<active, db>>
  BY <1>2, <1>11
<1>12. ASSUME JobStep \/ FaultStep \/ UNCHANGED vars,
              ~JobWipe, ~JobFill, ~JobFinish, ~JobFinishUndermined
       PROVE  UNCHANGED <<active, db>>
  BY <1>10, <1>12 DEF JobStep, FaultStep, JobStart, JobSelect, JobMark, JobClear, JobPublish,
     JobSeesCutover, JobTimesOut, JobFails, JobKilled, ApiDies, PodCrashes, Restart, markers, vars
<1>13. ASSUME NEW s \in Slots, PodStep(s), ~RetireRemoves(s), ~ActivateMoves(s)
       PROVE  UNCHANGED <<active, db>>
  BY <1>13 DEF PodStep, Boot, StopReadsBuilding, StopStandby, RetireReadsActive,
     RetireReadsBuilding, RetireReadsReady, RetireStops, StartTries, ServableBuilding,
     ServableActive, ServableReady, Launch, ActivateReadsReady, ApiAnswers, ApiSilent,
     ActivateClears, CheckLives, CheckExits, Restart, markers
<1> QED
  BY <1>4, <1>5, <1>6, <1>7, <1>8, <1>9, <1>11, <1>12, <1>13 DEF Next

(* On a calm cluster that has been installed, job and pods together keep   *)
(* what Service promises: one complete generation is offered at any time,  *)
(* stays on disk while it is, and is replaced by newer ones only.          *)
THEOREM CalmImplementsService ==
  ASSUME Calm, Installed PROVE Spec => ImplementsService
<1>1. ASSUME Init PROVE PromiseInv /\ Promise!Init
  <2>1. CalmInv
    BY <1>1, CalmInit
  <2>2. /\ active = "blue" /\ planet = 0 /\ ready = None /\ building = None
        /\ job = "idle" /\ pc = [s \in Slots |-> "boot"]
        /\ db = [d \in Dirs |-> IF d = "blue" THEN Complete(0) ELSE Absent]
    BY <1>1 DEF Init, Calm
  <2>3. PromiseInv
    BY <2>1, <2>2, BlueGreenAssumption
       DEF PromiseInv, Rising, Slots, Dirs, Complete, Absent, IsComplete
  <2>4. Offered = 0 /\ Stock = {0}
    <3>1. Offered = 0
      BY <2>2, <2>3, Mapped DEF StockAndOffer, Complete, Dirs, Slots
    <3>2. ~IsComplete(Other(active))
      BY <2>2 DEF IsComplete, Other, Absent, Dirs, Slots
    <3> QED
      BY <2>3, <3>1, <3>2, Mapped DEF StockAndOffer
  <2> QED
    BY <2>3, <2>4, BlueGreenAssumption DEF Promise!Init
<1>2. PromiseInv /\ [Next]_vars => PromiseInv'
  BY PromiseStep
<1>3. PromiseInv /\ PromiseInv' /\ [Next]_vars => [Promise!Next]_(Promise!vars)
  BY PromiseMaps
<1> QED
  BY <1>1, <1>2, <1>3, PTL DEF Spec, ImplementsService, Promise!Spec
=============================================================================
