------------------------------ MODULE OscFilter ------------------------------
(* The algorithms on the membership of a filtered database: the filter of     *)
(* one change file (osc_filter.py), the initial catalog (initial_import.py),  *)
(* the answer of the public Overpass and its merge (replicator.py).           *)
(*                                                                            *)
(* An object is a number; nodes come before ways before relations, in the     *)
(* order in which OSM publishes changes.  A world says what every object is:  *)
(* None, or the file that changed it last, whether it has a radio tag, and    *)
(* what it references.  A membership has the keys of the JSON state, with     *)
(* refs[o] = {} for a key that is not there.                                  *)
EXTENDS Naturals, FiniteSets, FiniteSetsExt, Folds, Sequences

CONSTANTS Object, None

ASSUME OscFilterAssumption ==
  /\ Object \subseteq Nat
  /\ IsFiniteSet(Object)
  /\ None \notin [v : Nat, tagged : BOOLEAN, refs : SUBSET Object]

Data == [v : Nat, tagged : BOOLEAN, refs : SUBSET Object]
World == [Object -> Data \cup {None}]
Graph == [Object -> SUBSET Object]
Membership == [roots : SUBSET Object, deps : SUBSET Object, refs : Graph]

Retained(m) == m.roots \cup m.deps

(* The membership state as it is written: references of retained keys only. *)
Serialized(m) ==
  [m EXCEPT !.refs = [o \in Object |-> IF o \in Retained(m) THEN @[o] ELSE {}]]

(***************************************************************************)
(* Reachability                                                            *)
(***************************************************************************)
ClosedUnder(refs, S) == \A o \in S : refs[o] \subseteq S

(* The least set with S that is closed under refs. *)
Reach == [refs \in Graph |-> [S \in SUBSET Object |->
            {o \in Object : \A T \in SUBSET Object :
                              S \subseteq T /\ ClosedUnder(refs, T) => o \in T}]]

RefsOf(world) ==
  [o \in Object |-> IF world[o] = None THEN {} ELSE world[o].refs]
Dependents(refs) == [o \in Object |-> {p \in Object : o \in refs[p]}]
Exists(world) == {o \in Object : world[o] # None}
Tagged(world) == {o \in Exists(world) : world[o].tagged}

(* What a database needs to show every tagged object of a world. *)
Needed(world) == Reach[RefsOf(world)][Tagged(world)]

(***************************************************************************)
(* osc_filter.py                                                           *)
(***************************************************************************)

(* promote: the whole known subtree below o becomes dependencies. *)
Promote(m, o) ==
  [m EXCEPT !.deps = @ \cup UNION {m.refs[p] : p \in Reach[m.refs][{o}]}]

(* What a pass has seen so far: the membership, the objects it emits as     *)
(* they are in the file, those it emits as deleted, and those it announces  *)
(* as (new or changed) roots.                                               *)
Pass == [m : Membership, put : SUBSET Object, drop : SUBSET Object,
         added : SUBSET Object]

Forget(m, o) ==
  [roots |-> m.roots \ {o}, deps |-> m.deps \ {o},
   refs |-> [m.refs EXCEPT ![o] = {}]]

FilterDeleted(s, o) ==
  [s EXCEPT !.m = Forget(s.m, o),
            !.drop = IF o \in Retained(s.m) THEN @ \cup {o} ELSE @]

FilterRoot(s, o, data) ==
  [s EXCEPT !.put = @ \cup {o}, !.added = @ \cup {o},
            !.m = Promote([s.m EXCEPT !.roots = @ \cup {o},
                                      !.refs[o] = data.refs], o)]

(* A root that lost its tag stays if it is a dependency too. *)
FilterDependency(s, o, data) ==
  [s EXCEPT !.put = @ \cup {o},
            !.m = Promote([s.m EXCEPT !.roots = @ \ {o},
                                      !.refs[o] = data.refs], o)]

FilterUntagged(s, o) ==
  [s EXCEPT !.drop = @ \cup {o}, !.m = Forget(s.m, o)]

FilterElement(s, o, data) ==
  IF data = None THEN FilterDeleted(s, o)
  ELSE IF data.tagged THEN FilterRoot(s, o, data)
  ELSE IF o \in s.m.deps THEN FilterDependency(s, o, data)
  ELSE IF o \in s.m.roots THEN FilterUntagged(s, o)
  ELSE s

(* The elements of a file in the order of their numbers.                    *)
FilterElements(start, changed, after) ==
  MapThenFoldSet(LAMBDA o, s : FilterElement(s, o, after[o]), start,
                 LAMBDA o : o, Max, changed)

(* One run of the filter over the changes of a file, given as the objects   *)
(* changed and the world after it; include are the keys of --include.       *)
FilterPass(m, changed, after, include) ==
  LET start == [m |-> [m EXCEPT !.deps = @ \cup include],
                put |-> {}, drop |-> {}, added |-> {}]
  IN [FilterElements(start, changed, after) EXCEPT !.m = Serialized(@)]

NoEvents(s) == s.put \cup s.drop = {}

(***************************************************************************)
(* The public Overpass, and what is made of its answer                     *)
(***************************************************************************)

\* Mutant: the query asks for the object only.
AnswerAlone(world, o) == {o} \cap Exists(world)

(* The query: the object, all below it, all that contain any of these, and  *)
(* all below those.                                                         *)
Answer(world, o) ==
  LET refs == RefsOf(world)
  IN Reach[refs][Reach[Dependents(refs)][Reach[refs][{o}]]] \cap Exists(world)

(* merge_remote_state *)
MergeAnswer(m, o, world) ==
  LET objects == Answer(world, o)
      roots == m.roots \cup {o}
      deps == m.deps \cup (objects \ {o})
  IN Serialized([roots |-> roots, deps |-> deps \ roots,
                 refs |-> [p \in Object |-> IF p \in objects THEN world[p].refs
                                            ELSE m.refs[p]]])

(* build_catalog, of an extract with all that tagged objects need. *)
BuildCatalog(world) ==
  [roots |-> Tagged(world), deps |-> Needed(world) \ Tagged(world),
   refs |-> [o \in Object |-> IF o \in Needed(world) THEN world[o].refs ELSE {}]]

(* The effect of OSC files on a database: objects as they are in the world, *)
(* and objects deleted.                                                     *)
Upsert(db, world, objects) ==
  [o \in Object |-> IF o \in objects THEN world[o] ELSE db[o]]
Delete(db, objects) == [o \in Object |-> IF o \in objects THEN None ELSE db[o]]
=============================================================================
