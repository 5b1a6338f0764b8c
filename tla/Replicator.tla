----------------------------- MODULE Replicator -----------------------------
(* The single-process replicator (replicator.py, run): it takes one change   *)
(* file after the other, filters it against the catalog, queries the public  *)
(* Overpass for the roots it finds, and meanwhile lets a pool of threads     *)
(* query the roots of the catalog again and again.  Only the main thread     *)
(* writes the database and the catalog.                                      *)
(*                                                                           *)
(* worlds[1] is what the initial import loaded; file i turns worlds[i] into  *)
(* worlds[i+1], and its changes are the objects in which the two differ.     *)
(* Files that concern no object are not numbered (IdleFile).                 *)
EXTENDS OscFilter

CONSTANTS
  InitialWorlds,   \* what the initial import may find
  Files,           \* change files: what the objects in them become
  MaxFiles,        \* bound: change files
  MaxLag,          \* bound: files the public Overpass is behind upstream
  MaxFaults,       \* bound: kills and failing queries
  Pooled,          \* is the catalog queried in the background?
  Vanishes         \* may an object be deleted while a file that tags it waits?

ASSUME ReplicatorAssumption ==
  /\ InitialWorlds \subseteq World
  /\ \A world \in InitialWorlds :
       \A o \in Exists(world) : world[o].refs \subseteq Exists(world)
  /\ \A f \in Files :
       /\ DOMAIN f \subseteq Object
       /\ \A o \in DOMAIN f : f[o] \in [tagged : BOOLEAN, refs : SUBSET Object] \cup {None}
  /\ MaxFiles \in Nat /\ MaxLag \in Nat /\ MaxFaults \in Nat
  /\ Pooled \in BOOLEAN /\ Vanishes \in BOOLEAN

VARIABLES
  worlds,       \* upstream, from the initial import on
  public,       \* index of the world the public Overpass shows
  db,           \* the filtered database
  catalog,      \* catalog.json
  checkpoint,   \* state_file: the files processed
  pending,      \* membership.json: roots to query at startup
  queue,        \* the futures of the pool, in the order of their submission
  w,            \* the memory of the main thread
  faults        \* kills and failures so far

vars == <<worlds, public, db, catalog, checkpoint, pending, queue, w, faults>>
upstream == <<worlds, public>>

Index == 1 .. MaxFiles + 1

(* w.pc is the next step; once a refresh is recorded w.back comes, once the *)
(* pool is drained w.next.  root and seen are the refresh at hand, left the *)
(* roots of the file still to be refreshed, since the world when they were  *)
(* submitted; include and found are those of the filter.                    *)
Idle == [pc |-> "start", back |-> "start", next |-> "start", root |-> None, seen |-> 1,
         left |-> {}, since |-> 1, include |-> {}, found |-> None]

Worker == [pc : {"start", "top", "latest", "filter", "roots", "filtered", "commit",
                 "apply", "record", "ack", "pool", "drain", "checkpoint"},
           back : {"start", "ack", "roots", "drain"},
           next : {"start", "top", "latest", "checkpoint"},
           root : Object \cup {None}, seen : Index, left : SUBSET Object, since : Index,
           include : SUBSET Object, found : Pass \cup {None}]

Future == [root : Object, since : Index]

(* The elements of a set, sorted. *)
InOrder(S) ==
  CHOOSE q \in [1 .. Cardinality(S) -> S] :
    \A i, j \in 1 .. Cardinality(S) : i < j => q[i] < q[j]

TypeOK ==
  /\ worlds \in Seq(World) /\ Len(worlds) \in Index
  /\ public \in 1 .. Len(worlds)
  /\ db \in World
  /\ catalog \in Membership
  /\ checkpoint \in 0 .. Len(worlds) - 1
  /\ pending \in Seq(Object)
  /\ queue \in Seq(Future)
  /\ \A i, j \in DOMAIN queue : queue[i].root = queue[j].root => i = j
  /\ w \in Worker
  /\ faults \in 0 .. MaxFaults

Init ==
  \E world \in InitialWorlds :
    /\ worlds = <<world>>
    /\ public = 1
    /\ db = [o \in Object |-> IF o \in Needed(world) THEN world[o] ELSE None]
    /\ catalog = BuildCatalog(world)
    /\ checkpoint = 0
    /\ pending \in {<<>>, InOrder(Tagged(world))}
    /\ queue = <<>>
    /\ w = Idle
    /\ faults = 0

Go(pc) == w' = [w EXCEPT !.pc = pc]
GoDrain(next) == w' = [Idle EXCEPT !.pc = "pool", !.next = next]
Newest == worlds[Len(worlds)]

(***************************************************************************)
(* Upstream and the public Overpass                                        *)
(***************************************************************************)
WorldAfter(f) ==
  [o \in Object |->
     IF o \notin DOMAIN f THEN Newest[o]
     ELSE IF f[o] = None THEN None
     ELSE [v |-> Len(worlds), tagged |-> f[o].tagged, refs |-> f[o].refs]]

(* References stay intact, and what is deleted does not come back. *)
Legal(world) ==
  /\ \A o \in Exists(world) : world[o].refs \subseteq Exists(world)
  /\ \A o \in Exists(world) \ Exists(Newest) :
       \A i \in DOMAIN worlds : worlds[i][o] = None

(* An object that a waiting file tags is still there when it is queried. *)
SparesWaiting(world) ==
  \A i \in checkpoint + 2 .. Len(worlds) : Tagged(worlds[i]) \subseteq Exists(world)

FileArrives ==
  /\ Len(worlds) <= MaxFiles
  /\ \E f \in Files :
       /\ \A o \in DOMAIN f : WorldAfter(f)[o] # Newest[o]
       /\ Legal(WorldAfter(f))
       /\ Vanishes \/ SparesWaiting(WorldAfter(f))
       /\ worlds' = Append(worlds, WorldAfter(f))
  /\ public' = IF public + MaxLag > Len(worlds) THEN public ELSE public + 1
  /\ UNCHANGED <<db, catalog, checkpoint, pending, queue, w, faults>>

PublicAdvances ==
  /\ public < Len(worlds)
  /\ public' = public + 1
  /\ UNCHANGED <<worlds, db, catalog, checkpoint, pending, queue, w, faults>>

(***************************************************************************)
(* One refresh: the database first, then the catalog                       *)
(***************************************************************************)
ApplyRefresh ==
  /\ w.pc = "apply"
  /\ db' = Upsert(db, worlds[w.seen], Answer(worlds[w.seen], w.root))
  /\ Go("record")
  /\ UNCHANGED <<upstream, catalog, checkpoint, pending, queue, faults>>

RecordRefresh ==
  /\ w.pc = "record"
  /\ catalog' = MergeAnswer(catalog, w.root, worlds[w.seen])
  /\ w' = [w EXCEPT !.pc = w.back, !.back = "start", !.root = None, !.seen = 1]
  /\ UNCHANGED <<upstream, db, checkpoint, pending, queue, faults>>

(***************************************************************************)
(* Startup                                                                 *)
(***************************************************************************)
\* Mutant: a root that is not found keeps its entry.
QueryPendingAgain ==
  /\ w.pc = "start" /\ pending # <<>>
  /\ w' = IF Head(pending) \in Exists(worlds[public])
          THEN [w EXCEPT !.pc = "apply", !.back = "ack",
                         !.root = Head(pending), !.seen = public]
          ELSE w
  /\ UNCHANGED <<upstream, db, catalog, checkpoint, pending, queue, faults>>

QueryPending ==
  /\ w.pc = "start" /\ pending # <<>>
  /\ IF Head(pending) \in Exists(worlds[public])
     THEN /\ w' = [w EXCEPT !.pc = "apply", !.back = "ack",
                            !.root = Head(pending), !.seen = public]
          /\ UNCHANGED pending
     ELSE /\ pending' = Tail(pending)
          /\ UNCHANGED w
  /\ UNCHANGED <<upstream, db, catalog, checkpoint, queue, faults>>

AcknowledgePending ==
  /\ w.pc = "ack"
  /\ pending' = Tail(pending)
  /\ Go("start")
  /\ UNCHANGED <<upstream, db, catalog, checkpoint, queue, faults>>

\* Mutant: a root is submitted again although its future is queued.
SchedulesAgain(q, roots) ==
  \E due \in SUBSET roots :
    /\ Len(q) <= Cardinality(roots)
    /\ queue' = q \o [i \in 1 .. Cardinality(due) |->
                        [root |-> InOrder(due)[i], since |-> public]]

(* Roots of the catalog that are due and not queued are submitted. *)
Schedule(q, roots) ==
  \E due \in SUBSET (roots \ {q[i].root : i \in DOMAIN q}) :
    queue' = q \o [i \in 1 .. Cardinality(due) |->
                     [root |-> InOrder(due)[i], since |-> public]]

Submit(q) == IF Pooled THEN Schedule(q, catalog.roots) ELSE queue' = q

StartPool ==
  /\ w.pc = "start" /\ pending = <<>>
  /\ Submit(<<>>)
  /\ Go("top")
  /\ UNCHANGED <<upstream, db, catalog, checkpoint, pending, faults>>

(***************************************************************************)
(* drain_ready                                                             *)
(***************************************************************************)
DrainStarts ==
  /\ w.pc = "pool"
  /\ Submit(queue)
  /\ Go("drain")
  /\ UNCHANGED <<upstream, db, catalog, checkpoint, pending, faults>>

(* A future that is done was answered at some time since its submission. *)
DrainApplies ==
  /\ w.pc = "drain" /\ queue # <<>>
  /\ \E i \in Head(queue).since .. public :
       /\ Head(queue).root \in Exists(worlds[i])
       /\ w' = [w EXCEPT !.pc = "apply", !.back = "drain",
                         !.root = Head(queue).root, !.seen = i]
  /\ queue' = Tail(queue)
  /\ UNCHANGED <<upstream, db, catalog, checkpoint, pending, faults>>

DrainFindsNothing ==
  /\ w.pc = "drain" /\ queue # <<>>
  /\ \E i \in Head(queue).since .. public : Head(queue).root \notin Exists(worlds[i])
  /\ catalog' = [catalog EXCEPT !.roots = @ \ {Head(queue).root}]
  /\ queue' = Tail(queue)
  /\ UNCHANGED <<upstream, db, checkpoint, pending, w, faults>>

(* The head is not done, or enough was taken, or nothing is left; a closing *)
(* pool waits for all.                                                      *)
DrainEnds ==
  /\ w.pc = "drain"
  /\ w.next = "start" => queue = <<>>
  /\ IF queue = <<>> /\ w.next # "start" THEN Submit(queue) ELSE UNCHANGED queue
  /\ w' = [Idle EXCEPT !.pc = w.next]
  /\ UNCHANGED <<upstream, db, catalog, checkpoint, pending, faults>>

(***************************************************************************)
(* catch_up                                                                *)
(***************************************************************************)
(* has_ready: results that are there are taken before the next file. *)
TopDrains ==
  /\ w.pc = "top" /\ queue # <<>>
  /\ GoDrain("latest")
  /\ UNCHANGED <<upstream, db, catalog, checkpoint, pending, queue, faults>>

TakeFile ==
  /\ w.pc \in {"top", "latest"} /\ checkpoint + 1 < Len(worlds)
  /\ Go("filter")
  /\ UNCHANGED <<upstream, db, catalog, checkpoint, pending, queue, faults>>

(* A minute file of no interest is discarded by the quick check. *)
IdleFile ==
  /\ w.pc \in {"top", "latest"} /\ checkpoint + 1 = Len(worlds)
  /\ GoDrain("top")
  /\ UNCHANGED <<upstream, db, catalog, checkpoint, pending, queue, faults>>

SaveCheckpoint ==
  /\ w.pc = "checkpoint"
  /\ checkpoint' = checkpoint + 1
  /\ w' = [Idle EXCEPT !.pc = "top"]
  /\ UNCHANGED <<upstream, db, catalog, pending, queue, faults>>

(***************************************************************************)
(* process_one                                                             *)
(***************************************************************************)
After == worlds[checkpoint + 2]
Changed == {o \in Object : worlds[checkpoint + 1][o] # After[o]}

QuickCheck == \/ Changed \cap Tagged(After) # {}
              \/ Changed \cap Retained(catalog) # {}

Discard ==
  /\ w.pc = "filter" /\ w.include = {} /\ ~QuickCheck
  /\ GoDrain("checkpoint")
  /\ UNCHANGED <<upstream, db, catalog, checkpoint, pending, queue, faults>>

NewDependencies(s) == s.m.deps \ (catalog.deps \cup w.include)

\* Mutant: no second pass.
FilterFileOnce ==
  /\ w.pc = "filter" /\ QuickCheck
  /\ \E s \in {FilterPass(catalog, Changed, After, {})} :
       w' = IF s.added # {}
            THEN [Idle EXCEPT !.pc = "roots", !.left = s.added, !.since = public]
            ELSE [Idle EXCEPT !.pc = "filtered", !.found = s]
  /\ UNCHANGED <<upstream, db, catalog, checkpoint, pending, queue, faults>>

\* Mutant: the state of the filter is committed before roots are queried.
FilterFileCommits ==
  /\ w.pc = "filter" /\ QuickCheck
  /\ \E s \in {FilterPass(catalog, Changed, After, {})} :
       /\ w' = IF s.added # {}
               THEN [Idle EXCEPT !.pc = "roots", !.left = s.added, !.since = public]
               ELSE [Idle EXCEPT !.pc = "filtered", !.found = s]
       /\ catalog' = IF NoEvents(s) THEN catalog ELSE s.m
  /\ UNCHANGED <<upstream, db, checkpoint, pending, queue, faults>>

(* A pass over the file.  Another one follows if it discovered dependencies *)
(* that the file itself changes.                                            *)
FilterFile ==
  /\ w.pc = "filter" /\ (w.include # {} \/ QuickCheck)
  /\ \E s \in {FilterPass(catalog, Changed, After, w.include)} :
       LET new == IF NoEvents(s) THEN {} ELSE NewDependencies(s)
           include == w.include \cup new
       IN w' = IF new # {} /\ include \cap Changed # {}
               THEN [w EXCEPT !.include = include]
               ELSE IF s.added # {}
               THEN [Idle EXCEPT !.pc = "roots", !.left = s.added, !.since = public]
               ELSE [Idle EXCEPT !.pc = "filtered", !.found = s]
  /\ UNCHANGED <<upstream, db, catalog, checkpoint, pending, queue, faults>>

(* The queries run concurrently, the answers are used in order. *)
RefreshRoot ==
  /\ w.pc = "roots" /\ w.left # {}
  /\ LET o == Min(w.left)
     IN \E i \in w.since .. public :
          /\ o \in Exists(worlds[i])
          /\ w' = [w EXCEPT !.pc = "apply", !.back = "roots", !.root = o, !.seen = i,
                            !.left = @ \ {o}]
  /\ UNCHANGED <<upstream, db, catalog, checkpoint, pending, queue, faults>>

(* One root is missing: the file fails, and run ends by closing the pool. *)
RootNotFound ==
  /\ w.pc = "roots"
  /\ LET o == Min(w.left)
     IN w.left # {} /\ \E i \in w.since .. public : o \notin Exists(worlds[i])
  /\ w' = [Idle EXCEPT !.pc = "drain"]
  /\ UNCHANGED <<upstream, db, catalog, checkpoint, pending, queue, faults>>

(* A query of the file fails for good: run ends in the same way. *)
RootQueryFails ==
  /\ faults < MaxFaults
  /\ faults' = faults + 1
  /\ w.pc = "roots" /\ w.left # {}
  /\ w' = [Idle EXCEPT !.pc = "drain"]
  /\ UNCHANGED <<upstream, db, catalog, checkpoint, pending, queue>>

(* With a refresh the filtered file is neither applied nor committed. *)
RootsRefreshed ==
  /\ w.pc = "roots" /\ w.left = {}
  /\ GoDrain("checkpoint")
  /\ UNCHANGED <<upstream, db, catalog, checkpoint, pending, queue, faults>>

ApplyFiltered ==
  /\ w.pc = "filtered"
  /\ db' = Delete(Upsert(db, After, w.found.put), w.found.drop)
  /\ Go("commit")
  /\ UNCHANGED <<upstream, catalog, checkpoint, pending, queue, faults>>

CommitDelta ==
  /\ w.pc = "commit"
  /\ catalog' = IF NoEvents(w.found) THEN catalog ELSE w.found.m
  /\ GoDrain("checkpoint")
  /\ UNCHANGED <<upstream, db, checkpoint, pending, queue, faults>>

(***************************************************************************)
(* Faults                                                                  *)
(***************************************************************************)
Killed ==
  /\ faults < MaxFaults /\ w.pc # "start"
  /\ faults' = faults + 1
  /\ w' = Idle /\ queue' = <<>>
  /\ UNCHANGED <<upstream, db, catalog, checkpoint, pending>>

\* Mutant: a root whose query fails is taken for a vanished one.
DrainFailsForgets ==
  /\ faults < MaxFaults
  /\ faults' = faults + 1
  /\ w.pc = "drain" /\ queue # <<>>
  /\ queue' = Tail(queue)
  /\ catalog' = [catalog EXCEPT !.roots = @ \ {Head(queue).root}]
  /\ UNCHANGED <<upstream, db, checkpoint, pending, w>>

(* A background query, or the database update for it, fails. *)
DrainFails ==
  /\ faults < MaxFaults
  /\ faults' = faults + 1
  /\ w.pc = "drain" /\ queue # <<>>
  /\ queue' = Tail(queue)
  /\ UNCHANGED <<upstream, db, catalog, checkpoint, pending, w>>

Work ==
  \/ ApplyRefresh \/ RecordRefresh
  \/ QueryPending \/ AcknowledgePending \/ StartPool
  \/ DrainStarts \/ DrainApplies \/ DrainFindsNothing \/ DrainEnds
  \/ TopDrains \/ TakeFile \/ IdleFile \/ SaveCheckpoint
  \/ Discard \/ FilterFile \/ RefreshRoot \/ RootNotFound \/ RootsRefreshed
  \/ ApplyFiltered \/ CommitDelta

Next == Work \/ FileArrives \/ PublicAdvances \/ Killed \/ DrainFails \/ RootQueryFails

(***************************************************************************)
(* Fairness: the process is restarted when it ends, the public Overpass    *)
(* catches up, background queries come due and are answered.               *)
(***************************************************************************)
SubmitsAll == queue' # queue /\ \A o \in catalog.roots : \E i \in DOMAIN queue' : queue'[i].root = o

Fairness ==
  /\ WF_vars(Work) /\ WF_vars(PublicAdvances)
  /\ SF_vars(TopDrains) /\ SF_vars(DrainApplies \/ DrainFindsNothing) /\ SF_vars(RefreshRoot)
  /\ SF_vars(DrainStarts /\ SubmitsAll)

Spec == Init /\ [][Next]_vars /\ Fairness

(***************************************************************************)
(* Properties                                                              *)
(***************************************************************************)

(* An object that is tagged, and that the next file does not untag, is a    *)
(* root of the catalog and in the database as long as it exists: neither a  *)
(* restart nor an answer that comes late loses it.                          *)
RootsServed ==
  \A o \in Exists(Newest) :
    (\A i \in {checkpoint + 1, checkpoint + 2} \cap DOMAIN worlds : o \in Tagged(worlds[i]))
      => o \in catalog.roots /\ db[o] # None

(* The catalog lists a root only once the database has it; a root that the  *)
(* file at hand removes may have left the database first.                   *)
RootsLoaded ==
  \A o \in catalog.roots :
    \/ db[o] # None
    \/ checkpoint + 1 < Len(worlds) /\ o \in Changed \ Tagged(After)

(* After the last pass every dependency that the file changes is emitted,   *)
(* also one that the file mentions before what refers to it.                *)
DependenciesEmitted ==
  w.pc = "filtered" =>
    w.found.m.deps \cap Changed \cap Exists(After) \subseteq w.found.put

(* The replicator does not get stuck: every file is processed. *)
CatchesUp == []<>(checkpoint + 1 = Len(worlds))

(* Whatever stale answers were applied and whatever references were missed, *)
(* in the end the database has every tagged object, and all that it needs,  *)
(* as they are upstream.                                                    *)
Converges == <>[](\A o \in Needed(Newest) : db[o] = Newest[o])

(***************************************************************************)
(* The inductive invariant behind the properties                           *)
(***************************************************************************)
Waiting == checkpoint + 1 < Len(worlds)
Announced == Changed \cap Tagged(After)
Has(o) == o \in catalog.roots /\ db[o] # None

(* The file at hand is done but for the drain of the pool. *)
Processed == w.pc = "checkpoint" \/ w.next = "checkpoint"
OnRoots == w.pc = "roots" \/ w.back = "roots"

(* What is deleted upstream does not come back. *)
Continuity ==
  \A i, j, k \in DOMAIN worlds : i <= j /\ j <= k =>
    Exists(worlds[i]) \cap Exists(worlds[k]) \subseteq Exists(worlds[j])

(* What the step at hand relies on: a file to process, an object that was   *)
(* found.                                                                   *)
AtHand ==
  /\ w.pc \in {"filter", "filtered", "commit"} \/ OnRoots \/ Processed => Waiting
  /\ w.pc \in {"apply", "record"} => w.seen <= public /\ w.root \in Exists(worlds[w.seen])
  /\ w.pc = "record" => db[w.root] # None
  /\ w.pc = "ack" => pending # <<>>
  /\ w.pc \in {"apply", "record"} /\ w.back = "ack" => pending # <<>>

(* Roots, and what was submitted for them, have been seen by the public     *)
(* Overpass.                                                                *)
Known ==
  /\ \A o \in catalog.roots : \E i \in 1 .. public : o \in Exists(worlds[i])
  /\ \A n \in DOMAIN queue :
       /\ queue[n].since <= public
       /\ \E i \in 1 .. queue[n].since : queue[n].root \in Exists(worlds[i])

(* A filtered file announces no roots, keeps the others and accounts for    *)
(* what it changes.                                                         *)
FoundInv ==
  w.pc \in {"filtered", "commit"} =>
    /\ Announced = {} /\ w.next = "start" /\ w.found \in Pass
    /\ w.found.put \subseteq Exists(After)
    /\ w.found.drop \subseteq Changed
    /\ w.found.m.roots = catalog.roots \ Changed
    /\ catalog.roots \cap Changed \subseteq w.found.put \cup w.found.drop
    /\ w.found.m.deps \cap Changed \cap Exists(After) \subseteq w.found.put

(* RootsServed, ahead of the checkpoint once the file is processed, and one *)
(* by one while its roots are refreshed.                                    *)
ServedInv ==
  /\ RootsServed
  /\ OnRoots => Announced # {} /\ w.left \subseteq Announced
  /\ w.pc = "roots" => \A o \in (Announced \cap Exists(Newest)) \ w.left : Has(o)
  /\ w.back = "roots" =>
       \A o \in (Announced \cap Exists(Newest)) \ (w.left \cup {w.root}) : Has(o)
  /\ Processed => \A o \in Tagged(After) \cap Exists(Newest) : Has(o)

(* A root that is not in the database was removed by the file at hand, which *)
(* announces no roots, and is not committed yet.                            *)
LoadedInv ==
  \A o \in catalog.roots : db[o] = None =>
    Waiting /\ o \in Changed /\ Announced = {} /\ ~Processed

ReplicatorInv == Continuity /\ AtHand /\ Known /\ FoundInv /\ ServedInv /\ LoadedInv

(* What no longer exists upstream is not served once all files are          *)
(* processed.                                                               *)
RemovalsServed ==
  w.pc = "top" /\ checkpoint + 1 = Len(worlds) =>
    \A o \in Object : db[o] # None => o \in Exists(Newest)
=============================================================================
