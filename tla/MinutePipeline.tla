--------------------------- MODULE MinutePipeline ---------------------------
(***************************************************************************)
(* The minute lane: minute_worker filters upstream minute files into a     *)
(* replica directory, Overpass's own apply_osc_to_db.sh applies them to    *)
(* the database, and dependency_worker loads the surroundings of newly     *)
(* tagged objects from a public Overpass.  The two workers share a flock;  *)
(* the applier shares nothing but two cursor files.                        *)
(*                                                                         *)
(* Simplifications.  An object that carries the tag is a root; one file    *)
(* tags some objects and untags or deletes others.  Of the dependencies,   *)
(* only those matter that a file does not name (the nodes of a relation's  *)
(* ways): a root is `merged' once the catalog lists them.  No root is a    *)
(* member of another.  A batch of the dependency worker takes every task.  *)
(***************************************************************************)
EXTENDS Naturals, Sequences, FiniteSets

CONSTANTS
  None,         \* no file, no owner
  Roots,        \* the objects that may carry the tag
  Initial,      \* the roots of the initial import
  Changes,      \* what an upstream minute may hold
  MaxSeq,       \* the last upstream minute (bound)
  Window,       \* minute_prefetch_window
  MaxAhead,     \* minute_max_staged_ahead
  MaxCrashes,   \* how often a worker may stop and restart (bound)
  Interrupts,   \* TRUE: also with a batch half staged
  Lingers       \* TRUE: the public Overpass still shows an untagged object

(* A membership; a filtered file; a pending delta.                         *)
Membership == [roots : SUBSET Roots, merged : SUBSET Roots]
Files == [puts : SUBSET Roots, dels : SUBSET Roots]
Deltas == [adds : SUBSET Roots, state : {None} \union Membership]

ASSUME MinutePipelineAssumption ==
  /\ Initial \subseteq Roots
  /\ None \notin Nat \union {"minute", "dependency"}
                    \union Membership \union Files \union Deltas
  /\ Changes \subseteq [adds : SUBSET Roots, drops : SUBSET Roots]
  /\ {MaxSeq, MaxCrashes} \subseteq Nat
  /\ Window \in Nat \ {0}
  /\ MaxAhead \in Nat /\ MaxAhead >= Window
  /\ {Interrupts, Lingers} \subseteq BOOLEAN

VARIABLES
  upstream,    \* the minute files: changes, objects alive, roots to keep
  osc,         \* the filtered files in the replica directory
  delta,       \* work_dir/pending-deltas
  published,   \* filtered-replica/replicate_id
  db,          \* the database: cursor, roots, roots with all dependencies
  catalog,     \* catalog_file: roots, merged roots
  committed,   \* membership-replicate-id
  working,     \* working-membership.json
  through,     \* working-membership-replicate-id
  queue,       \* dependency-queue: the minute each queued root was seen
  lock,        \* the owner of the writer lock
  filter,      \* the minute worker: step, database cursor read, next, last
  dep,         \* the dependency worker: step, tasks, batch, need, base, found
  crashes      \* restarts so far

replicaVars == <<osc, delta, published>>
catalogVars == <<catalog, committed, queue>>
workingVars == <<working, through>>
vars == <<upstream, replicaVars, db, catalogVars, workingVars, lock, filter,
          dep, crashes>>

Seqs == 1..MaxSeq
Alive == IF upstream = <<>> THEN Initial ELSE upstream[Len(upstream)].alive

(* The roots a replica holds that has applied every file through minute s. *)
Kept(s) == IF s = 0 THEN Initial ELSE upstream[s].kept

Min2(a, b) == IF a < b THEN a ELSE b
Last(S) == CHOOSE s \in S : \A t \in S : t <= s

FilterSteps == {"idle", "queue", "catalog", "cursor", "unlink", "prepare",
                "stage", "advance", "publish", "record"}
DepSteps == {"idle", "read", "discard", "lock", "refresh", "record", "unlink"}

Init ==
  /\ upstream = <<>>
  /\ osc = [s \in Seqs |-> None]
  /\ delta = [s \in Seqs |-> None]
  /\ published = 0
  /\ db = [cursor |-> 0, roots |-> Initial, deep |-> Initial]
  /\ catalog = [roots |-> Initial, merged |-> Initial]
  /\ committed = 0
  /\ working = catalog
  /\ through = None
  /\ queue = [r \in Roots |-> None]
  /\ lock = None
  /\ filter = [pc |-> "idle", seen |-> 0, next |-> 1, last |-> 0]
  /\ dep = [pc |-> "idle", tasks |-> {}, batch |-> {}, need |-> 0,
            base |-> catalog, found |-> {}]
  /\ crashes = 0

-----------------------------------------------------------------------------
(* The pre-filter passes a file only if it tags some object; osc_filter    *)
(* emits what is tagged, and deletions of the roots it knows.              *)

Accepted(ch) == ch.adds # {}
Filtered(m, ch) ==
  IF Accepted(ch)
  THEN [puts |-> ch.adds, dels |-> ch.drops \intersect m.roots]
  ELSE [puts |-> {}, dels |-> {}]
Updated(m, ch) == [m EXCEPT !.roots = (@ \union ch.adds) \ ch.drops]

(* A minute is published upstream.                                         *)
MinuteArrives ==
  /\ Len(upstream) < MaxSeq
  /\ \E ch \in Changes :
       /\ ch.drops \subseteq Alive
       /\ upstream' = Append(upstream,
            [change |-> ch,
             alive |-> (Alive \union ch.adds) \ ch.drops,
             kept |-> IF Accepted(ch)
                      THEN (Kept(Len(upstream)) \union ch.adds) \ ch.drops
                      ELSE Kept(Len(upstream))])
  /\ UNCHANGED <<replicaVars, db, catalogVars, workingVars, lock, filter, dep,
                 crashes>>

(* apply_osc_to_db.sh applies the next published file and moves the        *)
(* database cursor.                                                        *)
Apply ==
  /\ db.cursor < published
  /\ LET file == osc[db.cursor + 1]
     IN db' = [db EXCEPT !.cursor = @ + 1,
                         !.roots = (@ \union file.puts) \ file.dels]
  /\ UNCHANGED <<upstream, replicaVars, catalogVars, workingVars, lock,
                 filter, dep, crashes>>

-----------------------------------------------------------------------------
(* The minute worker.                                                      *)

FilterGoto(from, to) == filter.pc = from /\ filter' = [filter EXCEPT !.pc = to]

FilterLocks ==
  /\ filter.pc = "idle" /\ lock = None
  /\ lock' = "minute"
  /\ filter' = [filter EXCEPT !.pc = "queue", !.seen = db.cursor]
  /\ published' = IF published < db.cursor THEN db.cursor ELSE published
  /\ UNCHANGED <<upstream, osc, delta, db, catalogVars, workingVars, dep,
                 crashes>>

(* commit_applied_state: what minutes first..last changed.                 *)
WithState(first, last) ==
  {s \in first..last : delta[s] # None /\ delta[s].state # None}
StateAfter(m, first, last) ==
  LET S == WithState(first, last)
  IN IF S = {} THEN m ELSE delta[Last(S)].state
SeenIn(r) ==
  {s \in (committed + 1)..filter.seen :
     /\ delta[s] # None /\ r \in delta[s].adds
     /\ r \notin StateAfter(catalog, committed + 1, s - 1).roots}

CommitQueues ==
  /\ FilterGoto("queue", "catalog")
  /\ committed <= filter.seen
  /\ queue' = [r \in Roots |->
                 IF SeenIn(r) # {} THEN Last(SeenIn(r)) ELSE queue[r]]
  /\ UNCHANGED <<upstream, replicaVars, db, catalog, committed, workingVars,
                 lock, dep, crashes>>

(* Mutant: only the last minute's delta is looked at.                      *)
CommitLastState ==
  /\ FilterGoto("catalog", "cursor")
  /\ catalog' = IF filter.seen = 0 THEN catalog
                ELSE StateAfter(catalog, filter.seen, filter.seen)
  /\ UNCHANGED <<upstream, replicaVars, db, committed, queue, workingVars,
                 lock, dep, crashes>>

CommitCatalog ==
  /\ FilterGoto("catalog", "cursor")
  /\ catalog' = StateAfter(catalog, committed + 1, filter.seen)
  /\ UNCHANGED <<upstream, replicaVars, db, committed, queue, workingVars,
                 lock, dep, crashes>>

CommitCursor ==
  /\ FilterGoto("cursor", "unlink")
  /\ committed' = filter.seen
  /\ UNCHANGED <<upstream, replicaVars, db, catalog, queue, workingVars, lock,
                 dep, crashes>>

(* Mutant: the deltas of every published minute go.                        *)
CommitUnlinksPublished ==
  /\ FilterGoto("unlink", "prepare")
  /\ delta' = [s \in Seqs |-> IF s <= published THEN None ELSE delta[s]]
  /\ UNCHANGED <<upstream, osc, published, db, catalogVars, workingVars, lock,
                 dep, crashes>>

CommitUnlinks ==
  /\ FilterGoto("unlink", "prepare")
  /\ delta' = [s \in Seqs |-> IF s <= filter.seen THEN None ELSE delta[s]]
  /\ UNCHANGED <<upstream, osc, published, db, catalogVars, workingVars, lock,
                 dep, crashes>>

(* Mutant: near the tip nothing is staged.                                 *)
NextFullBatchEnd(from, latest) ==
  IF latest - from > Window THEN from + Window ELSE from

(* The last minute the next batch stages, before and after the lead limit. *)
NextBatchEnd(from, latest) ==
  IF latest <= from THEN from
  ELSE Min2(latest, from + IF latest - from > Window THEN Window ELSE 1)

(* Mutant: the lead is not limited.                                        *)
UncappedEnd == NextBatchEnd(published, Len(upstream))

BatchEnd ==
  IF published - filter.seen >= MaxAhead THEN published
  ELSE Min2(NextBatchEnd(published, Len(upstream)), filter.seen + MaxAhead)

(* Mutant: the working membership is the catalog, whatever is published.   *)
PrepareFromCatalog ==
  /\ filter.pc = "prepare"
  /\ IF through = published THEN UNCHANGED workingVars
     ELSE working' = catalog /\ through' = published
  /\ filter' = [filter EXCEPT !.pc = IF published < BatchEnd
                                     THEN "stage" ELSE "idle",
                              !.next = published + 1, !.last = BatchEnd]
  /\ lock' = IF published < BatchEnd THEN lock ELSE None
  /\ UNCHANGED <<upstream, replicaVars, db, catalogVars, dep, crashes>>

(* prepare_working_membership, and the choice of the batch.                *)
PrepareWorking ==
  /\ filter.pc = "prepare"
  /\ IF through = published THEN UNCHANGED workingVars
     ELSE /\ \A s \in (committed + 1)..published : delta[s] # None
          /\ working' = StateAfter(catalog, committed + 1, published)
          /\ through' = published
  /\ filter' = [filter EXCEPT !.pc = IF published < BatchEnd
                                     THEN "stage" ELSE "idle",
                              !.next = published + 1, !.last = BatchEnd]
  /\ lock' = IF published < BatchEnd THEN lock ELSE None
  /\ UNCHANGED <<upstream, replicaVars, db, catalogVars, dep, crashes>>

AfterFile == IF filter.next = filter.last THEN "publish" ELSE "stage"

(* Mutant: deletions are filtered against the committed catalog.           *)
StageAgainstCatalog ==
  /\ filter.pc = "stage"
  /\ LET ch == upstream[filter.next].change
     IN /\ osc' = [osc EXCEPT ![filter.next] = Filtered(catalog, ch)]
        /\ delta' = [delta EXCEPT ![filter.next] =
             [adds |-> ch.adds,
              state |-> IF Accepted(ch) THEN Updated(working, ch) ELSE None]]
        /\ filter' = IF Accepted(ch) THEN [filter EXCEPT !.pc = "advance"]
                     ELSE [filter EXCEPT !.pc = AfterFile, !.next = @ + 1]
  /\ UNCHANGED <<upstream, published, db, catalogVars, workingVars, lock, dep,
                 crashes>>

(* stage_change, until its delta is in place.                              *)
StageFile ==
  /\ filter.pc = "stage"
  /\ LET ch == upstream[filter.next].change
     IN /\ osc' = [osc EXCEPT ![filter.next] = Filtered(working, ch)]
        /\ delta' = [delta EXCEPT ![filter.next] =
             [adds |-> ch.adds,
              state |-> IF Accepted(ch) THEN Updated(working, ch) ELSE None]]
        /\ filter' = IF Accepted(ch) THEN [filter EXCEPT !.pc = "advance"]
                     ELSE [filter EXCEPT !.pc = AfterFile, !.next = @ + 1]
  /\ UNCHANGED <<upstream, published, db, catalogVars, workingVars, lock, dep,
                 crashes>>

(* stage_change replaces the working membership.                           *)
AdvanceWorking ==
  /\ filter.pc = "advance"
  /\ working' = delta[filter.next].state
  /\ filter' = [filter EXCEPT !.pc = AfterFile, !.next = @ + 1]
  /\ UNCHANGED <<upstream, replicaVars, db, catalogVars, through, lock, dep,
                 crashes>>

PublishBatch ==
  /\ FilterGoto("publish", "record")
  /\ published' = filter.last
  /\ UNCHANGED <<upstream, osc, delta, db, catalogVars, workingVars, lock,
                 dep, crashes>>

RecordWorking ==
  /\ FilterGoto("record", "idle")
  /\ through' = filter.last
  /\ lock' = None
  /\ UNCHANGED <<upstream, replicaVars, db, catalogVars, working, dep, crashes>>

FilterStep ==
  \/ CommitQueues \/ CommitCatalog \/ CommitCursor \/ CommitUnlinks
  \/ PrepareWorking \/ StageFile \/ AdvanceWorking \/ PublishBatch
  \/ RecordWorking

(* The working membership is past the published minute.                    *)
HalfStaged ==
  /\ filter.pc \in {"stage", "advance", "publish"}
  /\ \E s \in (published + 1)..(filter.next - 1) : Accepted(upstream[s].change)

(* An exception or a kill ends the process, the lock goes with it, and the *)
(* supervisor starts it again.                                             *)
FilterRestarts ==
  /\ filter.pc # "idle"
  /\ Interrupts \/ ~HalfStaged
  /\ crashes < MaxCrashes
  /\ crashes' = crashes + 1
  /\ filter' = [filter EXCEPT !.pc = "idle"]
  /\ lock' = None
  /\ UNCHANGED <<upstream, replicaVars, db, catalogVars, workingVars, dep>>

-----------------------------------------------------------------------------
(* The dependency worker.                                                  *)

DepGoto(from, to) == dep.pc = from /\ dep' = [dep EXCEPT !.pc = to]

DepLists ==
  /\ dep.pc = "idle"
  /\ \E r \in Roots : queue[r] # None
  /\ dep' = [dep EXCEPT !.pc = "read",
                        !.tasks = {r \in Roots : queue[r] # None}]
  /\ UNCHANGED <<upstream, replicaVars, db, catalogVars, workingVars, lock,
                 filter, crashes>>

(* The catalog is read without the lock.                                   *)
DepReadsCatalog ==
  /\ dep.pc = "read"
  /\ dep' = [dep EXCEPT !.pc = "discard",
                        !.batch = dep.tasks \intersect catalog.roots]
  /\ UNCHANGED <<upstream, replicaVars, db, catalogVars, workingVars, lock,
                 filter, crashes>>

DepDiscards ==
  /\ dep.pc = "discard"
  /\ queue' = [r \in Roots |->
                 IF r \in dep.tasks \ dep.batch THEN None ELSE queue[r]]
  /\ dep' = [dep EXCEPT !.pc = IF dep.batch = {} THEN "idle" ELSE "lock",
                        !.need = IF dep.batch = {} THEN 0
                                 ELSE Last({queue[r] : r \in dep.batch})]
  /\ UNCHANGED <<upstream, replicaVars, db, catalog, committed, workingVars,
                 lock, filter, crashes>>

CaughtUp == db.cursor >= dep.need /\ published = db.cursor
            /\ db.cursor >= Len(upstream)

DepLocks ==
  /\ lock = None
  /\ CaughtUp
  /\ DepGoto("lock", "refresh")
  /\ lock' = "dependency"
  /\ UNCHANGED <<upstream, replicaVars, db, catalogVars, workingVars, filter,
                 crashes>>

DepWaits ==
  /\ ~CaughtUp
  /\ DepGoto("lock", "idle")
  /\ UNCHANGED <<upstream, replicaVars, db, catalogVars, workingVars, lock,
                 filter, crashes>>

(* Mutant: the catalog is written first.                                   *)
DepRefreshesLate(found) ==
  /\ dep.pc = "refresh" /\ found # {}
  /\ found \subseteq (IF Lingers THEN dep.batch ELSE dep.batch \intersect Alive)
  /\ dep' = [dep EXCEPT !.pc = "record", !.base = catalog, !.found = found]
  /\ UNCHANGED <<upstream, replicaVars, db, catalogVars, workingVars, lock,
                 filter, crashes>>

(* refresh_batch: the public Overpass answers for some of the batch, and   *)
(* what it returned is applied to the database.                            *)
DepRefreshes(found) ==
  /\ dep.pc = "refresh" /\ found # {}
  /\ found \subseteq (IF Lingers THEN dep.batch ELSE dep.batch \intersect Alive)
  /\ dep' = [dep EXCEPT !.pc = "record", !.base = catalog, !.found = found]
  /\ db' = [db EXCEPT !.roots = @ \union found, !.deep = @ \union found]
  /\ UNCHANGED <<upstream, replicaVars, catalogVars, workingVars, lock,
                 filter, crashes>>

DepFindsNothing ==
  /\ DepGoto("refresh", "idle")
  /\ lock' = None
  /\ UNCHANGED <<upstream, replicaVars, db, catalogVars, workingVars, filter,
                 crashes>>

DepRecords ==
  /\ DepGoto("record", "unlink")
  /\ catalog' = [roots |-> dep.base.roots \union dep.found,
                 merged |-> dep.base.merged \union dep.found]
  /\ UNCHANGED <<upstream, replicaVars, db, committed, queue, workingVars,
                 lock, filter, crashes>>

(* Mutant: the tasks of roots that were not found go as well.              *)
DepUnlinksBatch ==
  /\ DepGoto("unlink", "idle")
  /\ queue' = [r \in Roots |-> IF r \in dep.batch THEN None ELSE queue[r]]
  /\ lock' = None
  /\ UNCHANGED <<upstream, replicaVars, db, catalog, committed, workingVars,
                 filter, crashes>>

DepUnlinks ==
  /\ DepGoto("unlink", "idle")
  /\ queue' = [r \in Roots |-> IF r \in dep.found THEN None ELSE queue[r]]
  /\ lock' = None
  /\ UNCHANGED <<upstream, replicaVars, db, catalog, committed, workingVars,
                 filter, crashes>>

DepStep ==
  \/ DepLists \/ DepReadsCatalog \/ DepDiscards \/ DepWaits
  \/ \E found \in SUBSET Roots : DepRefreshes(found)
  \/ DepFindsNothing \/ DepRecords \/ DepUnlinks

DepRestarts ==
  /\ dep.pc # "idle"
  /\ crashes < MaxCrashes
  /\ crashes' = crashes + 1
  /\ dep' = [dep EXCEPT !.pc = "idle"]
  /\ lock' = IF dep.pc \in {"refresh", "record", "unlink"} THEN None ELSE lock
  /\ UNCHANGED <<upstream, replicaVars, db, catalogVars, workingVars, filter>>

Next ==
  \/ MinuteArrives \/ Apply
  \/ FilterLocks \/ FilterStep \/ FilterRestarts
  \/ DepLocks \/ DepStep \/ DepRestarts

(* The services run.  Each worker sleeps without the lock between two      *)
(* turns, so the other gets it some time; the public Overpass answers      *)
(* again and again for what it holds.                                      *)
Fairness ==
  /\ WF_vars(Apply)
  /\ WF_vars(FilterStep) /\ SF_vars(FilterLocks)
  /\ WF_vars(DepStep) /\ SF_vars(DepLocks)
  /\ SF_vars(DepRefreshes(dep.batch \intersect Alive))

Spec == Init /\ [][Next]_vars /\ Fairness

-----------------------------------------------------------------------------
(* Every variable holds a value the code can give it.                      *)
TypeOK ==
  /\ upstream \in Seq([change : Changes, alive : SUBSET Roots,
                       kept : SUBSET Roots])
  /\ Len(upstream) <= MaxSeq
  /\ osc \in [Seqs -> {None} \union Files]
  /\ delta \in [Seqs -> {None} \union Deltas]
  /\ published \in 0..MaxSeq
  /\ db \in [cursor : 0..MaxSeq, roots : SUBSET Roots, deep : SUBSET Roots]
  /\ {catalog, working} \subseteq Membership
  /\ committed \in 0..MaxSeq
  /\ through \in {None} \union 0..MaxSeq
  /\ queue \in [Roots -> {None} \union Seqs]
  /\ lock \in {None, "minute", "dependency"}
  /\ filter \in [pc : FilterSteps, seen : 0..MaxSeq, next : 1..(MaxSeq + 1),
                 last : 0..MaxSeq]
  /\ dep \in [pc : DepSteps, tasks : SUBSET Roots, batch : SUBSET Roots,
              need : 0..MaxSeq, base : Membership, found : SUBSET Roots]
  /\ crashes \in 0..MaxCrashes

(* The cursors keep their order, whoever stops when: membership is         *)
(* committed only once the database has applied it, and the published lead *)
(* never exceeds what the replica directory may hold.                      *)
CursorsOrdered ==
  /\ committed <= db.cursor
  /\ db.cursor <= published
  /\ published <= db.cursor + MaxAhead

(* prepare_working_membership never misses a delta: those between the      *)
(* committed and the published minute survive every commit and restart.    *)
DeltasRecoverable ==
  \A s \in (committed + 1)..published : delta[s] # None

(* What makes the two inductive: what the filter holds in its variables    *)
(* while it commits and stages, and the tasks the dependency worker holds. *)
Staging ==
  /\ published <= Len(upstream)
  /\ \A s \in 1..published : osc[s] # None
  /\ filter.seen <= db.cursor
  /\ filter.pc \in {"catalog", "cursor"} => committed <= filter.seen
  /\ filter.pc = "unlink" => committed = filter.seen
  /\ filter.pc \in {"stage", "advance", "publish"} =>
       /\ published < filter.next
       /\ filter.next <= filter.last + 1
       /\ filter.last <= Len(upstream)
       /\ filter.last <= filter.seen + MaxAhead
       /\ \A s \in (published + 1)..(filter.next - 1) :
            osc[s] # None /\ delta[s] # None
  /\ filter.pc \in {"stage", "advance"} => filter.next <= filter.last
  /\ filter.pc = "advance" =>
       /\ osc[filter.next] # None
       /\ delta[filter.next] # None /\ delta[filter.next].state # None
  /\ filter.pc = "publish" => filter.next = filter.last + 1
Listed ==
  /\ dep.pc \in {"read", "discard"} => \A r \in dep.tasks : queue[r] # None
  /\ dep.pc = "discard" => dep.batch \subseteq dep.tasks
PipelineInv ==
  TypeOK /\ CursorsOrdered /\ DeltasRecoverable /\ Staging /\ Listed

(* When a batch is about to be staged, the filter knows every root that    *)
(* the published files leave in the database: it will see it vanish.       *)
FilterKnowsRoots ==
  filter.pc = "stage" /\ filter.next = published + 1 =>
    Kept(published) \subseteq working.roots

(* Once it has applied every minute, the database holds the roots it       *)
(* should: the restarts and the dependency updates lose and leave none.    *)
DatabaseConverges ==
  db.cursor = Len(upstream) => db.roots = Kept(db.cursor)

(* So does the catalog once it is committed that far.                      *)
CatalogConverges ==
  committed = Len(upstream) => catalog.roots = Kept(committed)

(* A set of roots that some minute c left: all that a replica keeps then,  *)
(* and beyond that only what a later minute keeps (a refresh shows it      *)
(* early).                                                                 *)
Soon(c) == UNION {Kept(s) : s \in c..Len(upstream)}
Matches(R, c) == Kept(c) \subseteq R /\ R \subseteq Soon(c)

(* Inductively, without interruptions of a batch and lingering objects:    *)
(* every copy of the membership matches a minute, every filtered file      *)
(* takes the database from one minute to the next.                         *)
History ==
  /\ Alive \subseteq Kept(Len(upstream))
  /\ \A s \in 1..Len(upstream) :
       LET ch == upstream[s].change
       IN Kept(s) = IF Accepted(ch) THEN (Kept(s - 1) \union ch.adds) \ ch.drops
                    ELSE Kept(s - 1)
Locking ==
  /\ lock = "minute" <=> filter.pc # "idle"
  /\ lock = "dependency" <=> dep.pc \in {"refresh", "record", "unlink"}
FileMatches(s) ==
  LET ch == upstream[s].change
  IN /\ s <= Len(upstream)
     /\ osc[s].puts = ch.adds
     /\ osc[s].dels \subseteq ch.drops
     /\ IF Accepted(ch) THEN ch.drops \intersect Kept(s - 1) \subseteq osc[s].dels
        ELSE osc[s].dels = {}
DeltaMatches(s) ==
  /\ s <= Len(upstream)
  /\ delta[s].state # None <=> Accepted(upstream[s].change)
  /\ delta[s].state # None => Matches(delta[s].state.roots, s)
Staged ==
  \A s \in Seqs : /\ osc[s] # None => FileMatches(s)
                  /\ delta[s] # None => DeltaMatches(s)
WorkingMatches ==
  LET known(s) == Matches(working.roots, s)
  IN /\ through # None => through <= published
     /\ filter.pc \in {"stage", "advance", "publish"} =>
          known(filter.next - 1) /\ (HalfStaged \/ known(published))
     /\ filter.pc = "record" => published = filter.last /\ known(published)
     /\ filter.pc \notin {"stage", "advance", "publish"} /\ through = published =>
          known(published)
CatalogMatches ==
  /\ \E q \in committed..filter.seen : Matches(catalog.roots, q)
  /\ filter.pc = "cursor" => Matches(catalog.roots, filter.seen)
  /\ dep.pc = "record" => dep.base = catalog /\ dep.found \subseteq Soon(filter.seen)
ConvergeInv ==
  /\ History /\ Locking /\ Staged /\ WorkingMatches /\ CatalogMatches
  /\ Matches(db.roots, db.cursor)

(* The catalog lists a root's dependencies only when they were loaded.     *)
MergedLoaded == catalog.merged \subseteq db.deep

(* Inductively: no membership kept anywhere lists more.                    *)
LoadedInv ==
  /\ MergedLoaded
  /\ working.merged \subseteq db.deep
  /\ \A s \in Seqs : delta[s] # None /\ delta[s].state # None =>
       delta[s].state.merged \subseteq db.deep
  /\ dep.pc = "record" => dep.base.merged \union dep.found \subseteq db.deep

(* A root the dependency worker has merged stays merged.                   *)
MergesSurvive == [][catalog.merged \subseteq catalog'.merged]_vars

(* A root that is gone is not brought back by a late refresh.              *)
RefreshSparesRemoved ==
  [][\A r \in Roots : r \notin db.roots /\ r \in db'.roots =>
       \E s \in 1..Len(upstream) :
         s >= db.cursor /\ r \in Kept(s)]_vars

(* Every upstream minute is applied and committed in the end.              *)
CatchesUp ==
  \A n \in Seqs : Len(upstream) = n ~> db.cursor >= n /\ committed >= n

(* The root's dependencies are loaded, and the catalog lists them.         *)
Refreshed(r) == dep.pc = "unlink" /\ r \in dep.found

(* The worker has seen the catalog without the root and drops its task.    *)
Discarding(r) == dep.pc = "discard" /\ r \in dep.tasks \ dep.batch

(* A root that is queued and listed in the catalog is refreshed and        *)
(* recorded in the end, whatever fails in between or is answered in part,  *)
(* unless it is gone from upstream or from the catalog.  The condition on  *)
(* the catalog is needed: CommitQueues comes before CommitCatalog, and a   *)
(* task that the dependency worker sees in between is dropped.             *)
QueueDrains ==
  \A r \in Roots :
    queue[r] # None /\ r \in catalog.roots /\ ~Discarding(r)
      ~> Refreshed(r) \/ r \notin Alive \/ r \notin catalog.roots

(* Without that condition: no task of a root that stays is ever lost.      *)
NoTaskLost ==
  \A r \in Roots : queue[r] # None ~> Refreshed(r) \/ r \notin Alive
=============================================================================
