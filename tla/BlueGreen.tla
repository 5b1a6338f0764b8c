----------------------------- MODULE BlueGreen -----------------------------
(***************************************************************************)
(* The blue/green rebuild: the scheduled job that imports a new database   *)
(* into the inactive slot (scheduled_rebuild.run, import_filtered_pbf)     *)
(* and the two Overpass pods that stop, retire, start and activate their   *)
(* slot (docker/overpass/entrypoint.sh).  Job and pods share a database    *)
(* volume and three marker files and take no common lock: every marker is  *)
(* read and written by one atomic rename, and every read is a step here.   *)
(*                                                                         *)
(* Simplifications.  A database is a directory with a stage and the        *)
(* generation of planet data it was built from; planet data is a           *)
(* generation number that stops growing at MaxGen.  Apache and dispatcher  *)
(* start, stop and die together, as the entrypoint handles them.           *)
(***************************************************************************)
EXTENDS Naturals, FiniteSets

CONSTANTS
  None,        \* the marker file does not exist
  MaxGen,      \* the last generation of planet data (bound)
  MaxFaults,   \* how many faults may strike (bound)
  Faults,      \* the kinds of fault that may strike
  Timely,      \* TRUE: nobody stalls for as long as a planet update takes
  Installed,   \* TRUE: an earlier release already activated slot blue
  Legacy       \* TRUE: that release kept its database in db/live

Slots == {"blue", "green"}
Dirs == Slots \union {"live"}
Other(s) == IF s = "blue" THEN "green" ELSE "blue"

ASSUME BlueGreenAssumption ==
  /\ None \notin Slots
  /\ MaxGen \in Nat
  /\ MaxFaults \in Nat
  /\ Faults \subseteq {"pod", "api", "job", "import", "rm"}
  /\ {Timely, Installed, Legacy} \subseteq BOOLEAN

VARIABLES
  active,      \* state/active-slot: the slot the Service routes to
  ready,       \* state/ready-slot: the slot whose import is published
  building,    \* state/building-slot: the slot an import owns
  db,          \* the database directories
  planet,      \* generation of the planet PBF
  job,         \* where the scheduled job stands
  target,      \* the slot the job imports into
  pc,          \* where each pod's entrypoint stands
  api,         \* each pod's Apache and dispatcher
  dir,         \* the directory each pod's db_dir names
  booting,     \* the pod has not entered its loop yet
  faults       \* faults so far

markers == <<active, ready, building>>
jobVars == <<planet, job, target>>
podVars == <<pc, api, dir, booting>>
vars == <<markers, db, jobVars, podVars, faults>>

Absent == [stage |-> "absent", gen |-> 0]
Partial(g) == [stage |-> "partial", gen |-> g]
Complete(g) == [stage |-> "complete", gen |-> g]

HasMap(d) == db[d].stage # "absent"
IsComplete(d) == db[d].stage = "complete"

(* The directory a starting container chooses for slot s.                  *)
BootDir(s) ==
  IF s = "blue" /\ ~HasMap("blue") /\ HasMap("live") THEN "live" ELSE s

JobSteps == {"idle", "select", "mark", "wipe", "fill", "finish", "clear",
             "abort", "publish", "wait"}
PodSteps == {"boot", "loop", "standby", "retire", "retireBuilding",
             "retireReady", "retireStop", "remove", "start", "servable",
             "servableActive", "servableReady", "launch", "activate",
             "probe", "move", "clear", "check"}

Init ==
  /\ active = (IF Installed THEN "blue" ELSE None)
  /\ ready = None
  /\ building = None
  /\ db = [d \in Dirs |->
             IF Installed /\ d = (IF Legacy THEN "live" ELSE "blue")
             THEN Complete(0) ELSE Absent]
  /\ planet = 0
  /\ job = "idle"
  /\ target = "blue"
  /\ pc = [s \in Slots |-> "boot"]
  /\ api = [s \in Slots |-> "off"]
  /\ dir = [s \in Slots |-> BootDir(s)]
  /\ booting = [s \in Slots |-> TRUE]
  /\ faults = 0

Fault(kind) ==
  /\ kind \in Faults
  /\ faults < MaxFaults
  /\ faults' = faults + 1

-----------------------------------------------------------------------------
(* What a pod at the top of its loop would still do.                       *)

NeedsStop(s) == building = s /\ active # s /\ api[s] # "off"
NeedsRetire(s) ==
  /\ active \notin {None, s}
  /\ building # s
  /\ ready # s
  /\ HasMap(dir[s]) \/ api[s] # "off"
CanActivate(s) ==
  /\ ready = s
  /\ HasMap(dir[s])
  /\ building # s \/ api[s] # "off"

(* A pod that is about to act on a marker or a file it has already read.   *)
Retiring == {"retireReady", "retireStop", "remove"}
Committed ==
  Retiring \union {"standby", "servable", "servableActive", "servableReady",
                   "launch", "probe", "move", "clear"}

(* No earlier read is pending, and another iteration of the loop would     *)
(* change no marker and no database.                                       *)
Settled(s) ==
  /\ pc[s] \notin Committed
  /\ ~NeedsStop(s) /\ ~NeedsRetire(s) /\ ~CanActivate(s)

-----------------------------------------------------------------------------
(* The scheduled job.                                                      *)

JobGoto(from, to) == job = from /\ job' = to

(* The flock admits one run; Pyosmium brings the planet file up to date    *)
(* and the filtered extract is replaced.                                   *)
JobStart ==
  /\ JobGoto("idle", "select")
  /\ planet' = IF planet < MaxGen THEN planet + 1 ELSE planet
  /\ UNCHANGED <<markers, db, target, podVars, faults>>

(* Mutant: the import goes to the active slot.                             *)
JobSelectsActive ==
  /\ Timely => \A s \in Slots : Settled(s)
  /\ job = "select" /\ active # None
  /\ job' = "mark" /\ target' = active
  /\ UNCHANGED <<markers, db, planet, podVars, faults>>

(* The update and the extract take minutes to hours: on a timely cluster   *)
(* both pods settle before the active slot is read.                        *)
JobSelect ==
  /\ Timely => \A s \in Slots : Settled(s)
  /\ job = "select"
  /\ IF active = None
     THEN job' = "idle" /\ UNCHANGED target
     ELSE job' = "mark" /\ target' = Other(active)
  /\ UNCHANGED <<markers, db, planet, podVars, faults>>

JobMark ==
  /\ JobGoto("mark", "wipe")
  /\ building' = target
  /\ UNCHANGED <<active, ready, db, planet, target, podVars, faults>>

JobWipe ==
  /\ JobGoto("wipe", "fill")
  /\ db' = [db EXCEPT ![target] = Absent]
  /\ UNCHANGED <<markers, planet, target, podVars, faults>>

(* update_database creates nodes.map long before it is done, but not before *)
(* the extract was converted to XML: on a timely cluster a pod has acted    *)
(* on the markers it read before the slot was marked.                       *)
JobFill ==
  /\ Timely => pc[target] \notin Retiring
  /\ JobGoto("fill", "finish")
  /\ db' = [db EXCEPT ![target] = Partial(planet)]
  /\ UNCHANGED <<markers, planet, target, podVars, faults>>

JobFinish ==
  /\ JobGoto("finish", "clear")
  /\ HasMap(target)
  /\ db' = [db EXCEPT ![target] = Complete(planet)]
  /\ UNCHANGED <<markers, planet, target, podVars, faults>>

(* The directory was removed under update_database: it fails, or goes on   *)
(* with the files it creates from then on.                                 *)
JobFinishUndermined ==
  /\ job = "finish"
  /\ ~HasMap(target)
  /\ \/ job' = "abort" /\ UNCHANGED db
     \/ job' = "clear" /\ db' = [db EXCEPT ![target] = Partial(planet)]
  /\ UNCHANGED <<markers, planet, target, podVars, faults>>

(* Any step between the marker and the end of the import raises.           *)
JobFails ==
  /\ job \in {"wipe", "fill", "finish"}
  /\ Fault("import")
  /\ job' = "abort"
  /\ UNCHANGED <<markers, db, planet, target, podVars>>

(* The finally clause runs on both paths.                                  *)
JobClear ==
  /\ job \in {"clear", "abort"}
  /\ job' = IF job = "clear" THEN "publish" ELSE "idle"
  /\ building' = None
  /\ UNCHANGED <<active, ready, db, planet, target, podVars, faults>>

JobPublish ==
  /\ JobGoto("publish", "wait")
  /\ ready' = target
  /\ UNCHANGED <<active, building, db, planet, target, podVars, faults>>

JobSeesCutover ==
  /\ JobGoto("wait", "idle")
  /\ active = target
  /\ UNCHANGED <<markers, db, planet, target, podVars, faults>>

JobTimesOut ==
  /\ JobGoto("wait", "idle")
  /\ Timely => active # target /\ ~CanActivate(target)
  /\ UNCHANGED <<markers, db, planet, target, podVars, faults>>

(* SIGKILL or eviction: no finally clause runs.                            *)
JobKilled ==
  /\ job # "idle"
  /\ Fault("job")
  /\ job' = "idle"
  /\ UNCHANGED <<markers, db, planet, target, podVars>>

JobStep ==
  \/ JobStart \/ JobSelect \/ JobMark \/ JobWipe \/ JobFill \/ JobFinish
  \/ JobFinishUndermined \/ JobClear \/ JobPublish \/ JobSeesCutover
  \/ JobTimesOut

-----------------------------------------------------------------------------
(* The entrypoint of the pod of slot s.                                    *)

Goto(s, from, to) == pc[s] = from /\ pc' = [pc EXCEPT ![s] = to]
Branch(s, from, test, yes, no) == Goto(s, from, IF test THEN yes ELSE no)

(* The startup attempt is followed by the loop, an attempt of the loop by  *)
(* activate_if_ready.                                                      *)
AfterStart(s) == IF booting[s] THEN "loop" ELSE "activate"

Boot(s) ==
  /\ Goto(s, "boot", "start")
  /\ dir' = [dir EXCEPT ![s] = BootDir(s)]
  /\ UNCHANGED <<markers, db, jobVars, api, booting, faults>>

(* stop_for_rebuild *)
StopReadsBuilding(s) ==
  /\ Branch(s, "loop", building = s, "standby", "retire")
  /\ UNCHANGED <<markers, db, jobVars, api, dir, booting, faults>>

StopStandby(s) ==
  /\ Goto(s, "standby", "retire")
  /\ api' = IF active = s THEN api ELSE [api EXCEPT ![s] = "off"]
  /\ UNCHANGED <<markers, db, jobVars, dir, booting, faults>>

(* Mutant: the comparison with the own slot is missing.                    *)
RetireReadsAnyActive(s) ==
  /\ Branch(s, "retire", active = None, "start", "retireBuilding")
  /\ UNCHANGED <<markers, db, jobVars, api, dir, booting, faults>>

(* retire_if_inactive *)
RetireReadsActive(s) ==
  /\ Branch(s, "retire", active \in {None, s}, "start", "retireBuilding")
  /\ UNCHANGED <<markers, db, jobVars, api, dir, booting, faults>>

RetireReadsBuilding(s) ==
  /\ Branch(s, "retireBuilding", building = s, "start", "retireReady")
  /\ UNCHANGED <<markers, db, jobVars, api, dir, booting, faults>>

RetireReadsReady(s) ==
  /\ Branch(s, "retireReady",
            ready # s /\ (HasMap(dir[s]) \/ api[s] # "off"),
            "retireStop", "start")
  /\ UNCHANGED <<markers, db, jobVars, api, dir, booting, faults>>

RetireStops(s) ==
  /\ Goto(s, "retireStop", "remove")
  /\ api' = [api EXCEPT ![s] = "off"]
  /\ UNCHANGED <<markers, db, jobVars, dir, booting, faults>>

RetireRemoves(s) ==
  /\ Goto(s, "remove", "start")
  /\ db' = [db EXCEPT ![dir[s]] = Absent]
  /\ UNCHANGED <<markers, jobVars, api, dir, booting, faults>>

(* The start attempt: slot_is_servable, start_dispatcher, start_apache.    *)
StartTries(s) ==
  /\ Branch(s, "start", api[s] = "off" /\ HasMap(dir[s]),
            "servable", AfterStart(s))
  /\ booting' = IF api[s] = "off" /\ HasMap(dir[s])
                THEN booting ELSE [booting EXCEPT ![s] = FALSE]
  /\ UNCHANGED <<markers, db, jobVars, api, dir, faults>>

(* Mutant: slot_is_servable does not look at building-slot.                *)
ServableWhileBuilding(s) ==
  /\ Goto(s, "servable", "servableActive")
  /\ UNCHANGED <<markers, db, jobVars, api, dir, booting, faults>>

ServableBuilding(s) ==
  /\ pc[s] = "servable"
  /\ IF building = s
     THEN /\ pc' = [pc EXCEPT ![s] = AfterStart(s)]
          /\ booting' = [booting EXCEPT ![s] = FALSE]
     ELSE /\ pc' = [pc EXCEPT ![s] =
                      IF dir[s] = "live" THEN "launch" ELSE "servableActive"]
          /\ UNCHANGED booting
  /\ UNCHANGED <<markers, db, jobVars, api, dir, faults>>

ServableActive(s) ==
  /\ Branch(s, "servableActive", active = s, "launch", "servableReady")
  /\ UNCHANGED <<markers, db, jobVars, api, dir, booting, faults>>

(* Mutant: only the active slot is servable.                               *)
ServableOnlyActive(s) ==
  /\ Goto(s, "servableReady", AfterStart(s))
  /\ booting' = [booting EXCEPT ![s] = FALSE]
  /\ UNCHANGED <<markers, db, jobVars, api, dir, faults>>

ServableReady(s) ==
  /\ Branch(s, "servableReady", ready = s, "launch", AfterStart(s))
  /\ booting' = IF ready = s THEN booting ELSE [booting EXCEPT ![s] = FALSE]
  /\ UNCHANGED <<markers, db, jobVars, api, dir, faults>>

Launch(s) ==
  /\ Goto(s, "launch", AfterStart(s))
  /\ api' = IF HasMap(dir[s]) THEN [api EXCEPT ![s] = "up"] ELSE api
  /\ booting' = [booting EXCEPT ![s] = FALSE]
  /\ UNCHANGED <<markers, db, jobVars, dir, faults>>

(* Mutant: any healthy API activates its slot.                             *)
ActivateIfHealthy(s) ==
  /\ Goto(s, "activate", "probe")
  /\ UNCHANGED <<markers, db, jobVars, api, dir, booting, faults>>

(* activate_if_ready *)
ActivateReadsReady(s) ==
  /\ Branch(s, "activate", ready = s, "probe", "check")
  /\ UNCHANGED <<markers, db, jobVars, api, dir, booting, faults>>

ApiAnswers(s) ==
  /\ Goto(s, "probe", "move")
  /\ api[s] = "up" /\ HasMap(dir[s])
  /\ UNCHANGED <<markers, db, jobVars, api, dir, booting, faults>>

ApiSilent(s) ==
  /\ Goto(s, "probe", "check")
  /\ UNCHANGED <<markers, db, jobVars, api, dir, booting, faults>>

ActivateMoves(s) ==
  /\ Goto(s, "move", "clear")
  /\ active' = s
  /\ UNCHANGED <<ready, building, db, jobVars, api, dir, booting, faults>>

ActivateClears(s) ==
  /\ Goto(s, "clear", "check")
  /\ ready' = None
  /\ UNCHANGED <<active, building, db, jobVars, api, dir, booting, faults>>

Restart(s) ==
  /\ pc' = [pc EXCEPT ![s] = "boot"]
  /\ api' = [api EXCEPT ![s] = "off"]
  /\ booting' = [booting EXCEPT ![s] = TRUE]
  /\ UNCHANGED <<markers, jobVars, dir>>

(* A dead Apache or dispatcher ends the container, which is restarted.     *)
CheckLives(s) ==
  /\ Goto(s, "check", "loop")
  /\ api[s] # "dead"
  /\ UNCHANGED <<markers, db, jobVars, api, dir, booting, faults>>

(* Mutant: the dead API goes unnoticed.                                    *)
CheckIgnoresDeath(s) ==
  /\ Goto(s, "check", "loop") /\ api[s] = "dead"
  /\ UNCHANGED <<markers, db, jobVars, api, dir, booting, faults>>

CheckExits(s) ==
  /\ pc[s] = "check" /\ api[s] = "dead"
  /\ Restart(s)
  /\ UNCHANGED <<db, faults>>

(* Faults: a process dies; the container is killed; it is killed while     *)
(* rm -rf is under way.                                                    *)
ApiDies(s) ==
  /\ api[s] = "up"
  /\ Fault("api")
  /\ api' = [api EXCEPT ![s] = "dead"]
  /\ UNCHANGED <<markers, db, jobVars, pc, dir, booting>>

PodCrashes(s) ==
  /\ Fault("pod")
  /\ Restart(s)
  /\ UNCHANGED db

RemovalCutShort(s) ==
  /\ pc[s] = "remove" /\ HasMap(dir[s])
  /\ Fault("rm")
  /\ Restart(s)
  /\ db' = [db EXCEPT ![dir[s]] = Partial(@.gen)]

PodStep(s) ==
  \/ Boot(s)
  \/ StopReadsBuilding(s) \/ StopStandby(s)
  \/ RetireReadsActive(s) \/ RetireReadsBuilding(s) \/ RetireReadsReady(s)
  \/ RetireStops(s) \/ RetireRemoves(s)
  \/ StartTries(s) \/ ServableBuilding(s) \/ ServableActive(s)
  \/ ServableReady(s) \/ Launch(s)
  \/ ActivateReadsReady(s) \/ ApiAnswers(s) \/ ApiSilent(s)
  \/ ActivateMoves(s) \/ ActivateClears(s)
  \/ CheckLives(s) \/ CheckExits(s)

FaultStep ==
  \/ JobFails \/ JobKilled
  \/ \E s \in Slots : ApiDies(s) \/ PodCrashes(s) \/ RemovalCutShort(s)

Next == JobStep \/ FaultStep \/ \E s \in Slots : PodStep(s)

(* The kubelet restarts containers and the scheduler runs them; an API     *)
(* that is up on a database answers a probe some time; the CronJob fires   *)
(* every four hours, and a job's steps end.                                *)
Fairness ==
  /\ WF_vars(JobStep) /\ SF_vars(JobSelect)
  /\ \A s \in Slots : WF_vars(PodStep(s)) /\ SF_vars(ApiAnswers(s))

Spec == Init /\ [][Next]_vars /\ Fairness

-----------------------------------------------------------------------------
(* Every variable holds a value the code can give it.                      *)
TypeOK ==
  /\ {active, ready, building} \subseteq Slots \union {None}
  /\ db \in [Dirs -> [stage : {"absent", "partial", "complete"}, gen : Nat]]
  /\ planet \in Nat
  /\ job \in JobSteps
  /\ target \in Slots
  /\ pc \in [Slots -> PodSteps]
  /\ api \in [Slots -> {"off", "up", "dead"}]
  /\ dir \in [Slots -> Dirs]
  /\ booting \in [Slots -> BOOLEAN]
  /\ faults \in Nat

(* Retirement never removes the database the Service routes to: from the   *)
(* moment retire_if_inactive has read active-slot until rm -rf is done,    *)
(* the pod's slot stays inactive, whatever job and other pod do meanwhile. *)
RetireSparesActive == \A s \in Slots :
    pc[s] \in Retiring \union {"retireBuilding"} => active # s

(* The Service routes to a complete database: no crash, kill or late step  *)
(* leaves active-slot naming a slot whose database is missing or partial.  *)
ActiveComplete == active # None => IsComplete(dir[active])

(* An import only ever removes and rebuilds the slot that is inactive,     *)
(* not just when it chose it but until it gives the slot back.             *)
ImportSparesActive ==
  job \in {"mark", "wipe", "fill", "finish", "clear", "abort"} =>
    active # target

(* ready-slot names a slot when its import is complete on disk.            *)
PublishesComplete ==
  [][\A s \in Slots : ready # s /\ ready' = s => IsComplete(s)]_vars

(* An API is started on a complete database only.                          *)
StartsComplete ==
  [][\A s \in Slots : api[s] = "off" /\ api'[s] = "up" =>
       IsComplete(dir[s])]_vars

(* What makes the two previous invariants inductive on a calm cluster: one *)
(* that is timely, of the current layout, and whose imports and removals   *)
(* run to their end once begun (unless the job is killed).                 *)
Calm == Timely /\ ~Legacy /\ "import" \notin Faults /\ "rm" \notin Faults

Importing == {"wipe", "fill", "finish", "clear"}
Starting == {"servableActive", "servableReady", "launch"}

(* The slot an import owns, also one whose job was killed: its pod has no  *)
(* API and cannot get one.                                                 *)
Fenced(s) ==
  /\ active = Other(s)
  /\ api[s] = "off"
  /\ pc[s] \notin Starting \union {"move", "clear"}

CalmInv ==
  /\ TypeOK
  /\ dir = [s \in Slots |-> s]
  /\ db["live"] = Absent
  /\ job # "abort"
  /\ ActiveComplete
  /\ RetireSparesActive
  /\ \A s \in Slots :
       /\ building = s => Fenced(s)
       /\ db[s].stage = "partial" => building = s
       /\ api[s] # "off" => IsComplete(s)
       /\ pc[s] = "remove" => api[s] = "off"
       /\ pc[s] = "servable" => HasMap(s) \/ building = s
       /\ pc[s] \in Starting \union {"move"} => IsComplete(s)
  /\ job = "mark" =>
       /\ Fenced(target)
       /\ building \in {None, target}
       /\ \/ building = target
          \/ ~HasMap(target) /\ pc[target] # "servable"
  /\ job \in Importing => building = target
  /\ job \in {"finish", "clear"} => HasMap(target) /\ pc[target] \notin Retiring
  /\ job = "clear" => IsComplete(target)

(* The active slot's API is up again and again: crashes of pods, APIs and  *)
(* jobs do not keep it down.                                               *)
KeepsServing == active # None ~> active # None /\ api[active] = "up"

(* A published slot whose database is intact is activated.                 *)
CutsOver ==
  \A s \in Slots :
    ready = s /\ IsComplete(s) ~> active = s \/ ~IsComplete(s)

(* The first job on a fresh installation leads to an active slot.          *)
FirstRunInitializes == <>(active # None)

(* Implements Service: the stock is what is complete on disk, and the      *)
(* offer is what the active slot's database holds.                         *)
Stock == {db[d].gen : d \in {e \in Dirs : IsComplete(e)}}
Offered == db[dir[active]].gen
Promise == INSTANCE Service
  WITH Generations <- 0..MaxGen, stock <- Stock, offered <- Offered
ImplementsService == Promise!Spec
=============================================================================
