--------------------------- MODULE FullPbfProofs ---------------------------
(***************************************************************************)
(* Proofs about FullPbf, for any cadences and spans, any number of kills   *)
(* and of planet snapshots.  The invariants come in layers, each proved    *)
(* from the ones before it: types, the planet file, the batch at hand, the *)
(* slots.                                                                  *)
(***************************************************************************)
EXTENDS FullPbf, FiniteSetTheorems, WellFoundedInduction, TLAPS

-----------------------------------------------------------------------------
(* Stamps and sequences.                                                   *)

LEMMA Bounds ==
  /\ MaxMinute \in Nat /\ MaxKills \in Nat /\ MaxPlanets \in Nat
  /\ PrefetchFiles \in Nat /\ PrefetchFiles > 0
  /\ Len(Cadences) \in Nat /\ Len(Cadences) > 0
  /\ \A i \in 1..Len(Cadences) : Cadences[i] \in Names
BY FullPbfAssumption DEF Names

LEMMA StampFacts ==
  ASSUME NEW c \in Names, NEW n \in Nat
  PROVE  /\ Span[c] \in Nat /\ Span[c] > 0
         /\ Stamp(c, n) \in Nat
<1>1. Span[c] \in Nat /\ Span[c] > 0
  BY FullPbfAssumption
<1> DEFINE s == Span[c]
<1> HIDE DEF s
<1>2. s \in Nat /\ s > 0
  BY <1>1 DEF s
<1>3. n * s \in Nat
  BY <1>2
<1> QED
  BY <1>1, <1>3 DEF Stamp, s

LEMMA StampMonotone ==
  ASSUME NEW c \in Names, NEW m \in Nat, NEW n \in Nat
  PROVE  /\ Stamp(c, m) \in Nat /\ Stamp(c, n) \in Nat
         /\ m <= n <=> Stamp(c, m) <= Stamp(c, n)
<1>1. Span[c] \in Nat /\ Span[c] > 0
  BY FullPbfAssumption
<1> DEFINE s == Span[c]
<1> HIDE DEF s
<1>2. s \in Nat /\ s > 0
  BY <1>1 DEF s
<1>3. m * s \in Nat /\ n * s \in Nat
  BY <1>2
<1>4. m <= n => m * s <= n * s
  BY <1>2
<1>5. n < m => n * s < m * s
  BY <1>2
<1> QED
  BY <1>3, <1>4, <1>5 DEF Stamp, s

(* t lies between the stamp of file t \div Span[c] and the next one.       *)
LEMMA SequenceFacts ==
  ASSUME NEW c \in Names, NEW t \in Nat
  PROVE  /\ SequenceAfter(c, t) \in Nat /\ SequenceAfter(c, t) - 1 \in Nat
         /\ Stamp(c, SequenceAfter(c, t) - 1) <= t
         /\ t < Stamp(c, SequenceAfter(c, t))
<1>1. Span[c] \in Nat /\ Span[c] > 0
  BY FullPbfAssumption
<1> DEFINE s == Span[c]
           q == t \div s
<1> HIDE DEF s
<1>2. s \in Nat /\ s > 0
  BY <1>1 DEF s
<1>3. q \in Nat /\ q * s <= t /\ t < (q + 1) * s
  BY <1>2
<1>4. SequenceAfter(c, t) = q + 1 /\ SequenceAfter(c, t) - 1 = q
  BY <1>3 DEF SequenceAfter, s
<1> QED
  BY <1>3, <1>4 DEF Stamp, s

LEMMA LatestFacts ==
  ASSUME NEW c \in Names, clock \in Nat
  PROVE  /\ Latest(c) \in Nat
         /\ Stamp(c, Latest(c)) <= clock
         /\ clock < Stamp(c, Latest(c) + 1)
<1>1. Latest(c) = SequenceAfter(c, clock) - 1
  <2>1. clock \div Span[c] \in Nat
    BY FullPbfAssumption
  <2> QED
    BY <2>1 DEF Latest, SequenceAfter
<1> QED
  BY <1>1, SequenceFacts

(* The files first..last cover the minutes after the stamp of the one      *)
(* before them.                                                            *)
LEMMA CoveredIs ==
  ASSUME NEW c \in Names, NEW first \in Nat, NEW last \in Nat, first > 0
  PROVE  /\ first - 1 \in Nat
         /\ Covered(c, first, last) = (Stamp(c, first - 1) + 1)..Stamp(c, last)
BY DEF Covered, Stamp

-----------------------------------------------------------------------------
(* Types, and what the worker knows at each of its steps.                  *)

Building == {"journal", "build", "building", "built", "replace", "switch",
             "mark switched"}
Batching == Building \union
            {"apply", "resumed", "drop", "extract", "extracting", "select"}
Importing == {"mark", "wipe", "fill", "complete", "clear", "publish"}

(* The worker has a batch at hand, or the extract of a snapshot.           *)
OnBatch == w.pc \in Batching \union {"save"} \/ (w.pc \in Importing /\ w.batch)
OnImport == w.pc \in Importing /\ ~w.batch
OnReset == w.pc \in {"reset", "note", "refilter", "reimport", "imported",
                     "resnap"} \/ OnImport

(* What a step needs is there: a checkpoint, a batch, a slot, the files.   *)
Shape ==
  /\ w.pc \in Batching \union {"complete"} => w.batch
  /\ OnBatch \/ w.pc \in {"loop", "forget"} => state # None
  /\ OnBatch => w.first > 0
  /\ w.pc \in Importing \union {"refilter", "reimport", "imported"} =>
       w.slot \in Slots
  /\ OnImport \/ w.pc \in {"refilter", "reimport", "imported"} => reset # None
  /\ w.pc \in {"build", "building", "built", "replace", "switch",
               "mark switched"} => journal # None

(* Nothing is taken before upstream has published it.                      *)
Upstream ==
  /\ planet.stamp <= clock
  /\ fullState # None => Stamp(fullState.cadence, fullState.sequence) <= clock
  /\ state # None => state.stamp <= clock
  /\ OnBatch => Stamp(state.cadence, w.last) <= clock

TypeInv == TypeOK /\ Shape /\ Upstream

(* The checkpoint that a planet of minute t starts with.                   *)
LEMMA InitStateTyped ==
  ASSUME NEW t \in 0..MaxMinute
  PROVE  /\ InitState(t) \in State
         /\ InitState(t).stamp = t /\ InitState(t).cadence = Cadences[1]
         /\ InitState(t).sequence = SequenceAfter(Cadences[1], t) - 1
         /\ Cadences[1] \in Names /\ InitState(t).sequence \in Nat
         /\ Stamp(Cadences[1], InitState(t).sequence) <= t
         /\ t < Stamp(Cadences[1], InitState(t).sequence + 1)
<1>1. Cadences[1] \in Names /\ t \in Nat
  BY Bounds
<1>2. SequenceAfter(Cadences[1], t) - 1 \in Nat
  BY <1>1, SequenceFacts
<1>3. (SequenceAfter(Cadences[1], t) - 1) + 1 = SequenceAfter(Cadences[1], t)
  BY <1>1, SequenceFacts
<1> QED
  BY <1>1, <1>2, <1>3, SequenceFacts DEF InitState, State

LEMMA Typed ==
  ASSUME TypeInv
  PROVE  /\ clock \in Nat /\ clock <= MaxMinute
         /\ planet.stamp \in 0..MaxMinute
         /\ w.pc \in Steps /\ w.first \in Nat /\ w.last \in Nat
         /\ state # None => /\ state \in State /\ state.cadence \in Names
                            /\ state.sequence \in Nat
                            /\ state.stamp \in 0..MaxMinute
         /\ fullState # None => /\ fullState \in FullState
                                /\ fullState.cadence \in Names
                                /\ fullState.sequence \in Nat
         /\ OnBatch => Batch \in Batches
<1>1. /\ clock \in Nat /\ clock <= MaxMinute /\ planet.stamp \in 0..MaxMinute
      /\ w.pc \in Steps /\ w.first \in Nat /\ w.last \in Nat
  BY Bounds DEF TypeInv, TypeOK
<1>2. state # None => /\ state \in State /\ state.cadence \in Names
                      /\ state.sequence \in Nat /\ state.stamp \in 0..MaxMinute
  BY DEF TypeInv, TypeOK, State
<1>3. fullState # None => /\ fullState \in FullState
                          /\ fullState.cadence \in Names
                          /\ fullState.sequence \in Nat
  BY DEF TypeInv, TypeOK, FullState
<1>4. OnBatch => state # None
  BY DEF TypeInv, Shape
<1> QED
  BY <1>1, <1>2, <1>3, <1>4 DEF Batch, Batches

LEMMA TypeInvInit == Init => TypeInv
<1> SUFFICES ASSUME Init PROVE TypeInv
  OBVIOUS
<1> USE DEF Init
<1>1. TypeOK
  BY Bounds DEF TypeOK, Steps, Minutes, Database, Slots
<1>2. Shape
  BY DEF Shape, OnBatch, OnImport, Batching, Building, Importing
<1>3. Upstream
  BY Bounds DEF Upstream, OnBatch, Batching, Building, Importing
<1> QED
  BY <1>1, <1>2, <1>3 DEF TypeInv
Worker == [pc : Steps, first : Nat, last : Nat, slot : {None} \union Slots,
           batch : BOOLEAN]
Planets == [source : 0..MaxPlanets, stamp : 0..MaxMinute,
            minutes : SUBSET Minutes]
Builds == [name : [cadence : Names, last : Nat], minutes : SUBSET Minutes]
Extracts == [batch : Batches, minutes : SUBSET Minutes, whole : BOOLEAN]

-----------------------------------------------------------------------------
(* How the steps move the worker.                                          *)

Now(from, to, first, last, slot, batch) ==
  /\ w.pc = from /\ w' \in Worker /\ w'.pc = to
  /\ w'.first = first /\ w'.last = last /\ w'.slot = slot /\ w'.batch = batch
Moved(from, to) == Now(from, to, w.first, w.last, w.slot, w.batch)

LEMMA WorkerTyped == TypeInv => w \in Worker
BY DEF TypeInv, TypeOK, Worker

LEMMA GotoMoves ==
  ASSUME TypeInv, NEW from, NEW to \in Steps, Goto(from, to)
  PROVE  Moved(from, to)
BY WorkerTyped DEF Goto, Worker, Moved, Now

LEMMA LoopControl ==
  ASSUME TypeInv
  PROVE  /\ Starts => Moved("down", IF planet.source = snapshot THEN "loop"
                                    ELSE "reset")
         /\ SaveState => Moved("save", "loop")
<1>1. {"loop", "reset"} \subseteq Steps
  BY DEF Steps
<1> QED
  BY <1>1, GotoMoves DEF Starts, SaveState

LEMMA ApplyControl ==
  ASSUME TypeInv
  PROVE  /\ ResumeApply => Moved("apply", "resumed")
         /\ StartApply => Moved("apply", "journal")
         /\ JournalApplying => Moved("journal", "build")
         /\ BuildStarts => Moved("build", "building")
         /\ BuildEnds => Moved("building", "built")
         /\ JournalBuilt => Moved("built", "replace")
         /\ ReplacePlanet => Moved("replace", "switch")
         /\ SaveFullState => \/ Moved("switch", "mark switched")
                             \/ Moved("resumed", "drop")
         /\ JournalSwitched => Moved("mark switched", "drop")
         /\ DropJournal => Moved("drop", "extract")
<1>1. {"resumed", "journal", "build", "building", "built", "replace", "switch",
       "mark switched", "drop", "extract"} \subseteq Steps
  BY DEF Steps
<1> QED
  BY <1>1, GotoMoves DEF ResumeApply, StartApply, JournalApplying, BuildStarts,
     BuildEnds, JournalBuilt, ReplacePlanet, SaveFullState, JournalSwitched,
     DropJournal

LEMMA ImportControl ==
  ASSUME TypeInv
  PROVE  /\ SkipRebuild => Moved("extract", "save")
         /\ ExtractStarts => Moved("extract", IF Artifact # {} THEN "select"
                                              ELSE "extracting")
         /\ ExtractEnds => Moved("extracting", "select")
         /\ SelectSlot =>
              Now("select", "mark", w.first, w.last, Inactive, w.batch)
         /\ MarkBuilding => Moved("mark", "wipe")
         /\ WipeSlot => Moved("wipe", "fill")
         /\ FillSlot => Moved("fill", IF w.batch THEN "complete" ELSE "clear")
         /\ RecordCompletion => Moved("complete", "clear")
         /\ ClearBuilding => Moved("clear", "publish")
         /\ PublishReady => Moved("publish", IF w.batch THEN "save"
                                             ELSE "imported")
<1>1. {"save", "select", "extracting", "wipe", "fill", "complete", "clear",
       "publish", "imported"} \subseteq Steps
  BY DEF Steps
<1>2. "mark" \in Steps /\ Inactive \in Slots
  BY DEF Steps, Inactive, Slots
<1>3. SelectSlot => Now("select", "mark", w.first, w.last, Inactive, w.batch)
  BY <1>2, WorkerTyped DEF SelectSlot, Now, Worker
<1> QED
  BY <1>1, <1>3, GotoMoves DEF SkipRebuild, ExtractStarts, ExtractEnds,
     MarkBuilding, WipeSlot, FillSlot, RecordCompletion, ClearBuilding,
     PublishReady

LEMMA ResetControl ==
  ASSUME TypeInv
  PROVE  /\ ResetContinues =>
              \E slot \in Slots :
                /\ slot = IF reset.slot # None THEN reset.slot ELSE Inactive
                /\ Now("reset", "refilter", w.first, w.last, slot, w.batch)
         /\ ResetClears => Moved("reset", "note")
         /\ ResetNotes =>
              Now("note", "refilter", w.first, w.last, Inactive, w.batch)
         /\ ResetFilters => Moved("refilter", "reimport")
         /\ ResetImports =>
              Now("reimport", "mark", w.first, w.last, w.slot, FALSE)
         /\ ResetImported => Moved("imported", "resnap")
         /\ ResetSkipsImport => Moved("reimport", "resnap")
         /\ ResetSnapshot => Moved("resnap", "refull")
         /\ ResetFullState => Moved("refull", "restate")
         /\ ResetState => Moved("restate", "forget")
         /\ ResetEnds => Moved("forget", "loop")
<1>1. {"note", "reimport", "resnap", "refull", "restate", "forget", "loop"}
        \subseteq Steps
  BY DEF Steps
<1>2. {"refilter", "mark"} \subseteq Steps /\ Inactive \in Slots
  BY DEF Steps, Inactive, Slots
<1>3. ResetContinues =>
        \E slot \in Slots :
          /\ slot = IF reset.slot # None THEN reset.slot ELSE Inactive
          /\ Now("reset", "refilter", w.first, w.last, slot, w.batch)
  <2> SUFFICES ASSUME ResetContinues
               PROVE  \E slot \in Slots :
                 /\ slot = IF reset.slot # None THEN reset.slot ELSE Inactive
                 /\ Now("reset", "refilter", w.first, w.last, slot, w.batch)
    OBVIOUS
  <2> DEFINE slot == IF reset.slot # None THEN reset.slot ELSE Inactive
  <2>1. reset # None /\ reset \in Reset
    BY DEF ResetContinues, ResetMatches, TypeInv, TypeOK
  <2>2. slot \in Slots
    BY <1>2, <2>1 DEF Reset
  <2>3. w.pc = "reset" /\ w' = [w EXCEPT !.pc = "refilter", !.slot = slot]
    BY DEF ResetContinues
  <2> HIDE DEF slot
  <2>4. Now("reset", "refilter", w.first, w.last, slot, w.batch)
    BY <1>2, <2>2, <2>3, WorkerTyped DEF Now, Worker
  <2> QED
    BY <2>2, <2>4 DEF slot
<1>4. ResetNotes => Now("note", "refilter", w.first, w.last, Inactive, w.batch)
  BY <1>2, WorkerTyped DEF ResetNotes, Now, Worker
<1>5. ResetImports => Now("reimport", "mark", w.first, w.last, w.slot, FALSE)
  BY <1>2, WorkerTyped DEF ResetImports, Now, Worker
<1> QED
  BY <1>1, <1>3, <1>4, <1>5, GotoMoves DEF ResetClears, ResetFilters,
     ResetImported, ResetSkipsImport, ResetSnapshot, ResetFullState, ResetState,
     ResetEnds

LEMMA StopControl ==
  ASSUME TypeInv
  PROVE  /\ Killed => Moved(w.pc, "down")
         /\ ImportFails => Moved("fill", "down")
<1>1. "down" \in Steps
  BY DEF Steps
<1> QED
  BY <1>1, WorkerTyped, GotoMoves DEF Killed, ImportFails, Moved, Now, Worker

(* A pending artifact is of the batch after the checkpoint that ends with  *)
(* the planet file.                                                        *)
LEMMA PendingIs ==
  ASSUME TypeInv, w.pc = "loop", NEW a \in Pending
  PROVE  /\ a \in artifacts /\ a.batch = [cadence |-> state.cadence,
                     first |-> a.batch.first, last |-> a.batch.last]
         /\ a.batch.first = state.sequence + 1 /\ a.batch.first \in Nat
         /\ a.batch.first > 0 /\ a.batch.last \in Nat
         /\ fullState # None /\ fullState.cadence = state.cadence
         /\ a.batch.last = fullState.sequence
         /\ Stamp(state.cadence, a.batch.last) <= clock
<1>1. state # None
  BY DEF TypeInv, Shape
<1> QED
  BY <1>1, Typed DEF Pending, TypeInv, Upstream

(* A batch that is taken up again ends with the planet file.               *)
LEMMA Recovers ==
  ASSUME TypeInv
  PROVE  /\ RecoverPublishes =>
              /\ Now("loop", "save", state.sequence + 1, fullState.sequence,
                     w.slot, w.batch)
              /\ fullState # None /\ fullState.cadence = state.cadence
         /\ RecoverImports =>
              /\ Now("loop", "select", state.sequence + 1, fullState.sequence,
                     w.slot, TRUE)
              /\ fullState # None /\ fullState.cadence = state.cadence
<1>1. "save" \in Steps /\ "select" \in Steps /\ w \in Worker
  BY WorkerTyped DEF Steps
<1>2. ASSUME RecoverPublishes
      PROVE  /\ Now("loop", "save", state.sequence + 1, fullState.sequence,
                    w.slot, w.batch)
             /\ fullState # None /\ fullState.cadence = state.cadence
  <2>1. PICK a \in Pending :
          w' = [w EXCEPT !.pc = "save", !.first = a.batch.first,
                         !.last = a.batch.last]
    BY <1>2 DEF RecoverPublishes
  <2>2. w.pc = "loop"
    BY <1>2 DEF RecoverPublishes
  <2> QED
    BY <1>1, <2>1, <2>2, PendingIs DEF Now, Worker
<1>3. ASSUME RecoverImports
      PROVE  /\ Now("loop", "select", state.sequence + 1, fullState.sequence,
                    w.slot, TRUE)
             /\ fullState # None /\ fullState.cadence = state.cadence
  <2>1. PICK a \in Pending :
          w' = [w EXCEPT !.pc = "select", !.first = a.batch.first,
                         !.last = a.batch.last, !.batch = TRUE]
    BY <1>3 DEF RecoverImports
  <2>2. w.pc = "loop"
    BY <1>3 DEF RecoverImports
  <2> QED
    BY <1>1, <2>1, <2>2, PendingIs DEF Now, Worker
<1> QED
  BY <1>2, <1>3

(* The files that are fetched follow the checkpoint and are all there.     *)
LEMMA Fetches ==
  ASSUME TypeInv, FetchBatch
  PROVE  \E last \in Nat :
           /\ Now("loop", IF Contains(state.cadence, last) THEN "extract"
                          ELSE "apply",
                  state.sequence + 1, last, w.slot, TRUE)
           /\ state # None /\ state.cadence \in Names /\ state.sequence \in Nat
           /\ state.sequence < last
           /\ last <= state.sequence + PrefetchFiles
           /\ last <= Latest(state.cadence)
           /\ last \in {state.sequence + PrefetchFiles, Latest(state.cadence)}
           /\ Stamp(state.cadence, last) <= clock
<1>1. /\ state # None /\ state.cadence \in Names /\ state.sequence \in Nat
      /\ clock \in Nat /\ w.pc = "loop"
      /\ state.sequence < Latest(state.cadence)
  BY Typed DEF TypeInv, Shape, FetchBatch
<1>2. /\ Latest(state.cadence) \in Nat
      /\ Stamp(state.cadence, Latest(state.cadence)) <= clock
  BY <1>1, LatestFacts
<1> DEFINE last == Min2(state.sequence + PrefetchFiles, Latest(state.cadence))
           to == IF Contains(state.cadence, last) THEN "extract" ELSE "apply"
<1>3. /\ last \in Nat /\ state.sequence < last
      /\ last <= state.sequence + PrefetchFiles
      /\ last <= Latest(state.cadence)
      /\ last \in {state.sequence + PrefetchFiles, Latest(state.cadence)}
  BY <1>1, <1>2, Bounds DEF Min2
<1>4. w' = [w EXCEPT !.pc = to, !.first = state.sequence + 1, !.last = last,
                     !.batch = TRUE]
  BY DEF FetchBatch
<1> HIDE DEF last
<1>5. Stamp(state.cadence, last) <= Stamp(state.cadence, Latest(state.cadence))
  BY <1>1, <1>2, <1>3, StampMonotone
<1>6. /\ Stamp(state.cadence, last) \in Nat
      /\ Stamp(state.cadence, Latest(state.cadence)) \in Nat
  BY <1>1, <1>2, <1>3, StampMonotone
<1>7. Stamp(state.cadence, last) <= clock
  BY <1>1, <1>2, <1>5, <1>6
<1>8. to \in Steps /\ state.sequence + 1 \in Nat
  BY <1>1 DEF Steps
<1> HIDE DEF to
<1>9. Now("loop", to, state.sequence + 1, last, w.slot, TRUE)
  BY <1>1, <1>3, <1>4, <1>8, WorkerTyped DEF Now, Worker
<1> QED
  BY <1>1, <1>3, <1>7, <1>9 DEF to

-----------------------------------------------------------------------------
(* Every step preserves the types.                                         *)

(* What the world around the worker changes.                               *)
LEMMA TypeInvWorld ==
  ASSUME TypeInv,
         MinuteArrives \/ Activate \/ (\E s \in Slots : Retire(s)) \/ NewPlanet
           \/ Killed \/ ImportFails
  PROVE  TypeInv'
<1> USE DEF upstreamVars, planetVars, filteredVars, resetVars, markers
<1>1. CASE MinuteArrives
  <2>1. clock' \in 0..MaxMinute /\ tagged' \subseteq Minutes /\ clock' = clock + 1
    BY <1>1, Bounds DEF MinuteArrives, TypeInv, TypeOK, Minutes
  <2>2. TypeOK'
    BY <1>1, <2>1 DEF MinuteArrives, TypeInv, TypeOK
  <2>3. Shape'
    BY <1>1 DEF MinuteArrives, TypeInv, Shape, OnBatch, OnImport
  <2>4. fullState # None => Stamp(fullState.cadence, fullState.sequence) \in Nat
    BY Typed, StampFacts
  <2>5. OnBatch => Stamp(state.cadence, w.last) \in Nat
    BY Typed, StampFacts DEF TypeInv, Shape
  <2>6. Upstream'
    BY <1>1, <2>1, <2>4, <2>5, Typed DEF MinuteArrives, TypeInv, Upstream, OnBatch
  <2> QED
    BY <2>2, <2>3, <2>6 DEF TypeInv
<1>2. CASE Activate
  BY <1>2, ZenonT(60) DEF Activate, CutoverDue, TypeInv, TypeOK, Shape, Upstream,
     OnBatch, OnImport
<1>3. CASE \E s \in Slots : Retire(s)
  <2>0. PICK s \in Slots : Retire(s)
    BY <1>3
  <2>1. db' \in [Slots -> Database \union {None}]
    <3>1. db \in [Slots -> Database \union {None}]
      BY DEF TypeInv, TypeOK
    <3> QED
      BY <2>0, <3>1 DEF Retire
  <2>2. TypeOK'
    BY <2>0, <2>1 DEF Retire, TypeInv, TypeOK
  <2> QED
    BY <2>0, <2>2 DEF Retire, TypeInv, Shape, Upstream, OnBatch, OnImport
<1>4. CASE NewPlanet
  <2>1. planet' \in Planets /\ planet'.stamp <= clock
    BY <1>4, Typed, Bounds DEF NewPlanet, TypeInv, TypeOK, Planets, Minutes
  <2>2. TypeOK'
    BY <1>4, <2>1 DEF NewPlanet, TypeInv, TypeOK, Planets
  <2> QED
    BY <1>4, <2>1, <2>2 DEF NewPlanet, TypeInv, Shape, Upstream, OnBatch, OnImport
<1>5. CASE Killed
  <2>1. w' \in Worker /\ w'.pc = "down"
    BY <1>5, StopControl DEF Moved, Now
  <2>2. kills' \in 0..MaxKills
    BY <1>5, Bounds DEF Killed, TypeInv, TypeOK
  <2>3. TypeOK'
    BY <1>5, <2>1, <2>2 DEF Killed, TypeInv, TypeOK, Worker
  <2> QED
    BY <1>5, <2>1, <2>3 DEF Killed, TypeInv, Shape, Upstream, OnBatch, OnImport,
                            Batching, Building, Importing
<1>6. CASE ImportFails
  <2>1. w' \in Worker /\ w'.pc = "down"
    BY <1>6, StopControl DEF Moved, Now
  <2>2. kills' \in 0..MaxKills
    BY <1>6, Bounds DEF ImportFails, TypeInv, TypeOK
  <2>3. TypeOK'
    BY <1>6, <2>1, <2>2 DEF ImportFails, TypeInv, TypeOK, Worker
  <2> QED
    BY <1>6, <2>1, <2>3 DEF ImportFails, TypeInv, Shape, Upstream, OnBatch, OnImport,
                            Batching, Building, Importing
<1> QED
  BY <1>1, <1>2, <1>3, <1>4, <1>5, <1>6

LEMMA SwitchTyped ==
  ASSUME TypeInv, SwitchCadence
  PROVE  /\ state # None /\ state' \in State
         /\ state'.cadence \in Names /\ state'.stamp = state.stamp
         /\ state'.sequence = SequenceAfter(state'.cadence, state.stamp) - 1
<1>1. /\ w.pc = "loop" /\ state # None /\ state \in State
      /\ state.stamp \in 0..MaxMinute /\ state.stamp \in Nat
  BY Typed, Bounds DEF SwitchCadence, TypeInv, Shape
<1>2. PICK i \in 1..(Len(Cadences) - 1) :
        state' = [state EXCEPT
            !.cadence = Cadences[i + 1],
            !.sequence = SequenceAfter(Cadences[i + 1], state.stamp) - 1]
  BY DEF SwitchCadence
<1>3. Cadences[i + 1] \in Names
  BY Bounds
<1>4. SequenceAfter(Cadences[i + 1], state.stamp) - 1 \in Nat
  BY <1>1, <1>3, SequenceFacts
<1> QED
  BY <1>1, <1>2, <1>3, <1>4 DEF State

LEMMA SaveTyped ==
  ASSUME TypeInv, SaveState
  PROVE  /\ w.pc = "save" /\ state # None /\ state' \in State
         /\ state'.cadence = state.cadence /\ state'.sequence = w.last
         /\ state'.stamp = Stamp(state.cadence, w.last)
<1>0. w.pc = "save" /\ OnBatch
  BY DEF SaveState, Goto, OnBatch
<1>1. /\ w.pc = "save" /\ state # None /\ state \in State
      /\ state.cadence \in Names /\ w.last \in Nat
      /\ clock <= MaxMinute /\ clock \in Nat
  BY <1>0, Typed DEF TypeInv, Shape
<1>3. Stamp(state.cadence, w.last) <= clock
  BY <1>0 DEF TypeInv, Upstream
<1>2. Stamp(state.cadence, w.last) \in 0..MaxMinute
  BY <1>1, <1>3, StampFacts, Bounds, SMTT(30)
<1> QED
  BY <1>1, <1>2 DEF SaveState, State

(* The main loop.                                                          *)
LEMMA TypeInvLoopStep ==
  ASSUME TypeInv, LoopStep
  PROVE  TypeInv'
<1> USE DEF upstreamVars, planetVars, filteredVars, resetVars, markers
<1>1. CASE Starts
  <2>1. Moved("down", IF planet.source = snapshot THEN "loop" ELSE "reset")
    BY <1>1, LoopControl
  <2>2. /\ state' \in State \union {None} /\ (w'.pc = "loop" => state' # None)
        /\ state' # None => state'.stamp <= clock
    BY <1>1, <2>1, InitStateTyped, Typed, FullPbfAssumption DEF Starts,
       TypeInv, TypeOK, Upstream, Moved, Now
  <2>3. TypeOK'
    BY <1>1, <2>1, <2>2 DEF Moved, Now, Starts, TypeInv, TypeOK, Worker
  <2>4. Shape'
    BY <1>1, <2>1, <2>2 DEF Moved, Now, Starts, TypeInv, Shape, OnBatch,
       OnImport, Batching, Building, Importing
  <2>5. Upstream'
    BY <1>1, <2>1, <2>2 DEF Moved, Now, Starts, TypeInv, Upstream, OnBatch,
       OnImport, Batching, Building, Importing
  <2> QED
    BY <2>3, <2>4, <2>5 DEF TypeInv
<1>2. CASE RecoverPublishes
  <2>1. /\ Now("loop", "save", state.sequence + 1, fullState.sequence,
               w.slot, w.batch)
        /\ fullState # None /\ fullState.cadence = state.cadence
    BY <1>2, Recovers
  <2>2. state # None /\ state.sequence \in Nat
    BY <2>1, Typed DEF Now, TypeInv, Shape
  <2>3. ready' \in Slots
    BY <1>2 DEF RecoverPublishes, Completed, TypeInv, TypeOK, Completion
  <2>4. TypeOK'
    BY <1>2, <2>1, <2>2, <2>3 DEF Moved, Now, RecoverPublishes, TypeInv,
       TypeOK, Worker
  <2>5. Shape'
    BY <1>2, <2>1, <2>2, <2>3 DEF Moved, Now, RecoverPublishes, TypeInv, Shape,
       OnBatch, OnImport, Batching, Building, Importing
  <2>6. Upstream'
    BY <1>2, <2>1, <2>2, <2>3 DEF Moved, Now, RecoverPublishes, TypeInv,
       Upstream, OnBatch, OnImport, Batching, Building, Importing
  <2> QED
    BY <2>4, <2>5, <2>6 DEF TypeInv
<1>3. CASE RecoverImports
  <2>1. /\ Now("loop", "select", state.sequence + 1, fullState.sequence,
               w.slot, TRUE)
        /\ fullState # None /\ fullState.cadence = state.cadence
    BY <1>3, Recovers
  <2>2. state # None /\ state.sequence \in Nat
    BY <2>1, Typed DEF Now, TypeInv, Shape
  <2>3. TypeOK'
    BY <1>3, <2>1, <2>2 DEF Moved, Now, RecoverImports, TypeInv, TypeOK, Worker
  <2>4. Shape'
    BY <1>3, <2>1, <2>2 DEF Moved, Now, RecoverImports, TypeInv, Shape,
       OnBatch, OnImport, Batching, Building, Importing
  <2>5. Upstream'
    BY <1>3, <2>1, <2>2 DEF Moved, Now, RecoverImports, TypeInv, Upstream,
       OnBatch, OnImport, Batching, Building, Importing
  <2> QED
    BY <2>3, <2>4, <2>5 DEF TypeInv
<1>4. CASE FetchBatch
  <2>1. PICK last \in Nat, to \in {"extract", "apply"} :
          /\ Now("loop", to, state.sequence + 1, last, w.slot, TRUE)
          /\ state # None /\ state.sequence \in Nat
          /\ Stamp(state.cadence, last) <= clock
    BY <1>4, Fetches
  <2>2. TypeOK'
    BY <1>4, <2>1 DEF Moved, Now, FetchBatch, TypeInv, TypeOK, Worker
  <2>3. Shape'
    BY <1>4, <2>1 DEF Moved, Now, FetchBatch, TypeInv, Shape, OnBatch,
       OnImport, Batching, Building, Importing
  <2>4. Upstream'
    BY <1>4, <2>1 DEF Moved, Now, FetchBatch, TypeInv, Upstream, OnBatch,
       OnImport, Batching, Building, Importing
  <2> QED
    BY <2>2, <2>3, <2>4 DEF TypeInv
<1>5. CASE SwitchCadence
  <2>1. w.pc = "loop" /\ state # None /\ UNCHANGED w
    BY <1>5 DEF SwitchCadence, TypeInv, Shape
  <2>2. state' \in State /\ state' # None /\ state'.stamp <= clock
    BY <1>5, SwitchTyped, FullPbfAssumption DEF TypeInv, Upstream
  <2>3. TypeOK'
    BY <1>5, <2>1, <2>2 DEF Moved, Now, SwitchCadence, TypeInv, TypeOK, Worker
  <2>4. Shape'
    BY <1>5, <2>1, <2>2 DEF Moved, Now, SwitchCadence, TypeInv, Shape, OnBatch,
       OnImport, Batching, Building, Importing
  <2>5. Upstream'
    BY <1>5, <2>1, <2>2 DEF Moved, Now, SwitchCadence, TypeInv, Upstream,
       OnBatch, OnImport, Batching, Building, Importing
  <2> QED
    BY <2>3, <2>4, <2>5 DEF TypeInv
<1>6. CASE SaveState
  <2>1. Moved("save", "loop")
    BY <1>6, LoopControl
  <2>2. state' \in State /\ state' # None
    BY <1>6, SaveTyped, FullPbfAssumption
  <2>3. TypeOK'
    BY <1>6, <2>1, <2>2 DEF Moved, Now, SaveState, TypeInv, TypeOK, Worker
  <2>4. Shape'
    BY <1>6, <2>1, <2>2 DEF Moved, Now, SaveState, TypeInv, Shape, OnBatch,
       OnImport, Batching, Building, Importing
  <2>5. Upstream'
    BY <1>6, <2>1, <2>2 DEF Moved, Now, SaveState, TypeInv, Upstream, OnBatch,
       OnImport, Batching, Building, Importing
  <2> QED
    BY <2>3, <2>4, <2>5 DEF TypeInv
<1> QED
  BY <1>1, <1>2, <1>3, <1>4, <1>5, <1>6 DEF LoopStep

LEMMA CoveredTyped ==
  ASSUME TypeInv, OnBatch
  PROVE  Covered(state.cadence, w.first, w.last) \subseteq Minutes
<1>1. /\ state.cadence \in Names /\ w.first \in Nat /\ w.first > 0
      /\ w.last \in Nat /\ clock \in Nat /\ clock <= MaxMinute
      /\ Stamp(state.cadence, w.last) <= clock
  BY Typed DEF TypeInv, Shape, Upstream
<1>2. /\ w.first - 1 \in Nat /\ Stamp(state.cadence, w.last) \in Nat
      /\ Stamp(state.cadence, w.first - 1) \in Nat
      /\ Covered(state.cadence, w.first, w.last) =
           (Stamp(state.cadence, w.first - 1) + 1)..Stamp(state.cadence, w.last)
  BY <1>1, CoveredIs, StampFacts
<1> QED
  BY <1>1, <1>2, Bounds DEF Minutes

(* apply_full_changes.                                                     *)
LEMMA TypeInvApplyStep ==
  ASSUME TypeInv, ApplyStep
  PROVE  TypeInv'
<1> USE DEF upstreamVars, planetVars, filteredVars, resetVars, markers
<1>1. CASE ResumeApply
  <2>1. Moved("apply", "resumed")
    BY <1>1, ApplyControl
  <2>2. planet' \in Planets /\ planet'.stamp = planet.stamp
    BY <1>1 DEF ResumeApply, Built, TypeInv, TypeOK, Planets
  <2>3. beside' \subseteq beside
    BY <1>1 DEF ResumeApply
  <2>4. TypeOK'
    BY <1>1, <2>1, <2>2, <2>3 DEF Moved, Now, ResumeApply, TypeInv, TypeOK,
       Worker, Planets
  <2>5. Shape'
    BY <1>1, <2>1, <2>2, <2>3 DEF Moved, Now, ResumeApply, TypeInv, Shape,
       OnBatch, OnImport, Batching, Building, Importing
  <2>6. Upstream'
    BY <1>1, <2>1, <2>2, <2>3 DEF Moved, Now, ResumeApply, TypeInv, Upstream,
       OnBatch, OnImport, Batching, Building, Importing
  <2> QED
    BY <2>4, <2>5, <2>6 DEF TypeInv
<1>2. CASE StartApply
  <2>1. Moved("apply", "journal")
    BY <1>2, ApplyControl
  <2>2. TypeOK'
    BY <1>2, <2>1 DEF Moved, Now, StartApply, TypeInv, TypeOK, Worker
  <2>3. Shape'
    BY <1>2, <2>1 DEF Moved, Now, StartApply, TypeInv, Shape, OnBatch,
       OnImport, Batching, Building, Importing
  <2>4. Upstream'
    BY <1>2, <2>1 DEF Moved, Now, StartApply, TypeInv, Upstream, OnBatch,
       OnImport, Batching, Building, Importing
  <2> QED
    BY <2>2, <2>3, <2>4 DEF TypeInv
<1>3. CASE JournalApplying
  <2>1. Moved("journal", "build")
    BY <1>3, ApplyControl
  <2>2. /\ OnBatch /\ state # None /\ Batch \in Batches
        /\ NextPbf \in [cadence : Names, last : Nat]
    BY <2>1, Typed DEF Moved, Now, TypeInv, Shape, OnBatch, Batching, Building,
       NextPbf
  <2>3. journal' \in Journal /\ journal' # None
    BY <1>3, <2>2, FullPbfAssumption DEF JournalApplying, Journal
  <2>4. TypeOK'
    BY <1>3, <2>1, <2>2, <2>3 DEF Moved, Now, JournalApplying, TypeInv, TypeOK,
       Worker
  <2>5. Shape'
    BY <1>3, <2>1, <2>2, <2>3 DEF Moved, Now, JournalApplying, TypeInv, Shape,
       OnBatch, OnImport, Batching, Building, Importing
  <2>6. Upstream'
    BY <1>3, <2>1, <2>2, <2>3 DEF Moved, Now, JournalApplying, TypeInv,
       Upstream, OnBatch, OnImport, Batching, Building, Importing
  <2> QED
    BY <2>4, <2>5, <2>6 DEF TypeInv
<1>4. CASE BuildStarts
  <2>1. Moved("build", "building")
    BY <1>4, ApplyControl
  <2>2. /\ OnBatch /\ state # None /\ Batch \in Batches
        /\ NextPbf \in [cadence : Names, last : Nat]
    BY <2>1, Typed DEF Moved, Now, TypeInv, Shape, OnBatch, Batching, Building,
       NextPbf
  <2>3. beside' \subseteq Builds
    BY <1>4, <2>2 DEF BuildStarts, TypeInv, TypeOK, Builds
  <2>4. TypeOK'
    BY <1>4, <2>1, <2>2, <2>3 DEF Moved, Now, BuildStarts, TypeInv, TypeOK,
       Worker, Builds
  <2>5. Shape'
    BY <1>4, <2>1, <2>2, <2>3 DEF Moved, Now, BuildStarts, TypeInv, Shape,
       OnBatch, OnImport, Batching, Building, Importing
  <2>6. Upstream'
    BY <1>4, <2>1, <2>2, <2>3 DEF Moved, Now, BuildStarts, TypeInv, Upstream,
       OnBatch, OnImport, Batching, Building, Importing
  <2> QED
    BY <2>4, <2>5, <2>6 DEF TypeInv
<1>5. CASE BuildEnds
  <2>1. Moved("building", "built")
    BY <1>5, ApplyControl
  <2>2. /\ OnBatch /\ state # None /\ Batch \in Batches
        /\ NextPbf \in [cadence : Names, last : Nat]
    BY <2>1, Typed DEF Moved, Now, TypeInv, Shape, OnBatch, Batching, Building,
       NextPbf
  <2>3. Covered(state.cadence, w.first, w.last) \subseteq Minutes
    BY <2>2, CoveredTyped
  <2>4. planet.minutes \subseteq Minutes
    BY DEF TypeInv, TypeOK
  <2>5. beside' \subseteq Builds
    BY <1>5, <2>2, <2>3, <2>4 DEF BuildEnds, TypeInv, TypeOK, Builds
  <2>6. TypeOK'
    BY <1>5, <2>1, <2>2, <2>3, <2>4, <2>5 DEF Moved, Now, BuildEnds, TypeInv,
       TypeOK, Worker, Builds
  <2>7. Shape'
    BY <1>5, <2>1, <2>2, <2>3, <2>4, <2>5 DEF Moved, Now, BuildEnds, TypeInv,
       Shape, OnBatch, OnImport, Batching, Building, Importing
  <2>8. Upstream'
    BY <1>5, <2>1, <2>2, <2>3, <2>4, <2>5 DEF Moved, Now, BuildEnds, TypeInv,
       Upstream, OnBatch, OnImport, Batching, Building, Importing
  <2> QED
    BY <2>6, <2>7, <2>8 DEF TypeInv
<1>6. CASE JournalBuilt
  <2>1. Moved("built", "replace")
    BY <1>6, ApplyControl
  <2>2. journal \in Journal
    BY <2>1 DEF Moved, Now, TypeInv, TypeOK, Shape
  <2>3. PICK n \in Built : journal' = [journal EXCEPT !.phase = "built",
                                                      !.target = n.minutes]
    BY <1>6 DEF JournalBuilt
  <2>4. n.minutes \subseteq Minutes
    BY DEF Built, TypeInv, TypeOK
  <2>5. journal' \in Journal /\ journal' # None
    BY <2>2, <2>3, <2>4, FullPbfAssumption DEF Journal
  <2>6. TypeOK'
    BY <1>6, <2>1, <2>2, <2>3, <2>4, <2>5 DEF Moved, Now, JournalBuilt,
       TypeInv, TypeOK, Worker
  <2>7. Shape'
    BY <1>6, <2>1, <2>2, <2>3, <2>4, <2>5 DEF Moved, Now, JournalBuilt,
       TypeInv, Shape, OnBatch, OnImport, Batching, Building, Importing
  <2>8. Upstream'
    BY <1>6, <2>1, <2>2, <2>3, <2>4, <2>5 DEF Moved, Now, JournalBuilt,
       TypeInv, Upstream, OnBatch, OnImport, Batching, Building, Importing
  <2> QED
    BY <2>6, <2>7, <2>8 DEF TypeInv
<1>7. CASE ReplacePlanet
  <2>1. Moved("replace", "switch")
    BY <1>7, ApplyControl
  <2>2. planet' \in Planets /\ planet'.stamp = planet.stamp
    BY <1>7 DEF ReplacePlanet, Built, TypeInv, TypeOK, Planets
  <2>3. beside' \subseteq beside
    BY <1>7 DEF ReplacePlanet
  <2>4. TypeOK'
    BY <1>7, <2>1, <2>2, <2>3 DEF Moved, Now, ReplacePlanet, TypeInv, TypeOK,
       Worker, Planets
  <2>5. Shape'
    BY <1>7, <2>1, <2>2, <2>3 DEF Moved, Now, ReplacePlanet, TypeInv, Shape,
       OnBatch, OnImport, Batching, Building, Importing
  <2>6. Upstream'
    BY <1>7, <2>1, <2>2, <2>3 DEF Moved, Now, ReplacePlanet, TypeInv, Upstream,
       OnBatch, OnImport, Batching, Building, Importing
  <2> QED
    BY <2>4, <2>5, <2>6 DEF TypeInv
<1>8. CASE SaveFullState
  <2>1. Moved("switch", "mark switched") \/ Moved("resumed", "drop")
    BY <1>8, ApplyControl
  <2>2. OnBatch /\ state # None /\ Batch \in Batches
    BY <2>1, Typed DEF Moved, Now, TypeInv, Shape, OnBatch, Batching, Building
  <2>3. /\ fullState' \in FullState
        /\ fullState'.cadence = state.cadence /\ fullState'.sequence = w.last
    BY <1>8, <2>2 DEF SaveFullState, FullState, Batches, Batch
  <2>4. TypeOK'
    BY <1>8, <2>1, <2>2, <2>3 DEF Moved, Now, SaveFullState, TypeInv, TypeOK,
       Worker
  <2>5. Shape'
    BY <1>8, <2>1, <2>2, <2>3 DEF Moved, Now, SaveFullState, TypeInv, Shape,
       OnBatch, OnImport, Batching, Building, Importing
  <2>6. Upstream'
    BY <1>8, <2>1, <2>2, <2>3 DEF Moved, Now, SaveFullState, TypeInv, Upstream,
       OnBatch, OnImport, Batching, Building, Importing
  <2> QED
    BY <2>4, <2>5, <2>6 DEF TypeInv
<1>9. CASE JournalSwitched
  <2>1. Moved("mark switched", "drop")
    BY <1>9, ApplyControl
  <2>2. journal \in Journal
    BY <2>1 DEF Moved, Now, TypeInv, TypeOK, Shape
  <2>3. journal' \in Journal /\ journal' # None
    BY <1>9, <2>2, FullPbfAssumption DEF JournalSwitched, Journal
  <2>4. TypeOK'
    BY <1>9, <2>1, <2>2, <2>3 DEF Moved, Now, JournalSwitched, TypeInv, TypeOK,
       Worker
  <2>5. Shape'
    BY <1>9, <2>1, <2>2, <2>3 DEF Moved, Now, JournalSwitched, TypeInv, Shape,
       OnBatch, OnImport, Batching, Building, Importing
  <2>6. Upstream'
    BY <1>9, <2>1, <2>2, <2>3 DEF Moved, Now, JournalSwitched, TypeInv,
       Upstream, OnBatch, OnImport, Batching, Building, Importing
  <2> QED
    BY <2>4, <2>5, <2>6 DEF TypeInv
<1>10. CASE DropJournal
  <2>1. Moved("drop", "extract")
    BY <1>10, ApplyControl
  <2>2. TypeOK'
    BY <1>10, <2>1 DEF Moved, Now, DropJournal, TypeInv, TypeOK, Worker
  <2>3. Shape'
    BY <1>10, <2>1 DEF Moved, Now, DropJournal, TypeInv, Shape, OnBatch,
       OnImport, Batching, Building, Importing
  <2>4. Upstream'
    BY <1>10, <2>1 DEF Moved, Now, DropJournal, TypeInv, Upstream, OnBatch,
       OnImport, Batching, Building, Importing
  <2> QED
    BY <2>2, <2>3, <2>4 DEF TypeInv
<1> QED
  BY <1>1, <1>2, <1>3, <1>4, <1>5, <1>6, <1>7, <1>8, <1>9, <1>10 DEF ApplyStep

(* rebuild_filtered and import_filtered_pbf.                               *)
LEMMA TypeInvImportStep ==
  ASSUME TypeInv, ImportStep
  PROVE  TypeInv'
<1> USE DEF upstreamVars, planetVars, filteredVars, resetVars, markers
<1>1. CASE SkipRebuild
  <2>1. Moved("extract", "save")
    BY <1>1, ImportControl
  <2>2. TypeOK'
    BY <1>1, <2>1 DEF Moved, Now, SkipRebuild, TypeInv, TypeOK, Worker
  <2>3. Shape'
    BY <1>1, <2>1 DEF Moved, Now, SkipRebuild, TypeInv, Shape, OnBatch,
       OnImport, Batching, Building, Importing
  <2>4. Upstream'
    BY <1>1, <2>1 DEF Moved, Now, SkipRebuild, TypeInv, Upstream, OnBatch,
       OnImport, Batching, Building, Importing
  <2> QED
    BY <2>2, <2>3, <2>4 DEF TypeInv
<1>2. CASE ExtractStarts
  <2>1. Moved("extract", IF Artifact # {} THEN "select" ELSE "extracting")
    BY <1>2, ImportControl
  <2>2. /\ OnBatch /\ state # None /\ Batch \in Batches
        /\ NextPbf \in [cadence : Names, last : Nat]
    BY <2>1, Typed DEF Moved, Now, TypeInv, Shape, OnBatch, Batching, Building,
       NextPbf
  <2>3. artifacts \subseteq Extracts /\ planet.minutes \subseteq Minutes
    BY DEF TypeInv, TypeOK, Extracts
  <2>4. [batch |-> Batch, minutes |-> {}, whole |-> FALSE] \in Extracts
    BY <2>2 DEF Extracts
  <2>5. artifacts' \subseteq Extracts
    BY <1>2, <2>3, <2>4 DEF ExtractStarts
  <2>6. TypeOK'
    BY <1>2, <2>1, <2>2, <2>3, <2>4, <2>5 DEF Moved, Now, ExtractStarts,
       TypeInv, TypeOK, Worker, Extracts
  <2>7. Shape'
    BY <1>2, <2>1, <2>2, <2>3, <2>4, <2>5 DEF Moved, Now, ExtractStarts,
       TypeInv, Shape, OnBatch, OnImport, Batching, Building, Importing
  <2>8. Upstream'
    BY <1>2, <2>1, <2>2, <2>3, <2>4, <2>5 DEF Moved, Now, ExtractStarts,
       TypeInv, Upstream, OnBatch, OnImport, Batching, Building, Importing
  <2> QED
    BY <2>6, <2>7, <2>8 DEF TypeInv
<1>3. CASE ExtractEnds
  <2>1. Moved("extracting", "select")
    BY <1>3, ImportControl
  <2>2. /\ OnBatch /\ state # None /\ Batch \in Batches
        /\ NextPbf \in [cadence : Names, last : Nat]
    BY <2>1, Typed DEF Moved, Now, TypeInv, Shape, OnBatch, Batching, Building,
       NextPbf
  <2>3. artifacts \subseteq Extracts /\ planet.minutes \subseteq Minutes
    BY DEF TypeInv, TypeOK, Extracts
  <2>4. [batch |-> Batch, minutes |-> planet.minutes, whole |-> TRUE] \in Extracts
    BY <2>2, <2>3 DEF Extracts
  <2>5. artifacts' \subseteq Extracts
    BY <1>3, <2>3, <2>4 DEF ExtractEnds
  <2>6. TypeOK'
    BY <1>3, <2>1, <2>2, <2>3, <2>4, <2>5 DEF Moved, Now, ExtractEnds, TypeInv,
       TypeOK, Worker, Extracts
  <2>7. Shape'
    BY <1>3, <2>1, <2>2, <2>3, <2>4, <2>5 DEF Moved, Now, ExtractEnds, TypeInv,
       Shape, OnBatch, OnImport, Batching, Building, Importing
  <2>8. Upstream'
    BY <1>3, <2>1, <2>2, <2>3, <2>4, <2>5 DEF Moved, Now, ExtractEnds, TypeInv,
       Upstream, OnBatch, OnImport, Batching, Building, Importing
  <2> QED
    BY <2>6, <2>7, <2>8 DEF TypeInv
<1>4. CASE SelectSlot
  <2>1. Now("select", "mark", w.first, w.last, Inactive, w.batch)
    BY <1>4, ImportControl
  <2>2. Inactive \in Slots
    BY DEF Inactive, Slots
  <2>3. TypeOK'
    BY <1>4, <2>1, <2>2 DEF Moved, Now, SelectSlot, TypeInv, TypeOK, Worker
  <2>4. Shape'
    BY <1>4, <2>1, <2>2 DEF Moved, Now, SelectSlot, TypeInv, Shape, OnBatch,
       OnImport, Batching, Building, Importing
  <2>5. Upstream'
    BY <1>4, <2>1, <2>2 DEF Moved, Now, SelectSlot, TypeInv, Upstream, OnBatch,
       OnImport, Batching, Building, Importing
  <2> QED
    BY <2>3, <2>4, <2>5 DEF TypeInv
<1>5. CASE MarkBuilding
  <2>1. Moved("mark", "wipe")
    BY <1>5, ImportControl
  <2>2. building' \in Slots
    BY <1>5, <2>1 DEF Moved, Now, MarkBuilding, TypeInv, Shape, Importing
  <2>3. TypeOK'
    BY <1>5, <2>1, <2>2 DEF Moved, Now, MarkBuilding, TypeInv, TypeOK, Worker
  <2>4. Shape'
    BY <1>5, <2>1, <2>2 DEF Moved, Now, MarkBuilding, TypeInv, Shape, OnBatch,
       OnImport, Batching, Building, Importing
  <2>5. Upstream'
    BY <1>5, <2>1, <2>2 DEF Moved, Now, MarkBuilding, TypeInv, Upstream,
       OnBatch, OnImport, Batching, Building, Importing
  <2> QED
    BY <2>3, <2>4, <2>5 DEF TypeInv
<1>6. CASE WipeSlot
  <2>1. Moved("wipe", "fill")
    BY <1>6, ImportControl
  <2>2. db \in [Slots -> Database \union {None}]
    BY DEF TypeInv, TypeOK
  <2>3. [minutes |-> {}, whole |-> FALSE] \in Database
    BY DEF Database
  <2>4. db' \in [Slots -> Database \union {None}]
    BY <1>6, <2>2, <2>3 DEF WipeSlot
  <2>5. TypeOK'
    BY <1>6, <2>1, <2>2, <2>3, <2>4 DEF Moved, Now, WipeSlot, TypeInv, TypeOK,
       Worker
  <2>6. Shape'
    BY <1>6, <2>1, <2>2, <2>3, <2>4 DEF Moved, Now, WipeSlot, TypeInv, Shape,
       OnBatch, OnImport, Batching, Building, Importing
  <2>7. Upstream'
    BY <1>6, <2>1, <2>2, <2>3, <2>4 DEF Moved, Now, WipeSlot, TypeInv,
       Upstream, OnBatch, OnImport, Batching, Building, Importing
  <2> QED
    BY <2>5, <2>6, <2>7 DEF TypeInv
<1>7. CASE FillSlot
  <2>1. Moved("fill", IF w.batch THEN "complete" ELSE "clear")
    BY <1>7, ImportControl
  <2>2. db \in [Slots -> Database \union {None}]
    BY DEF TypeInv, TypeOK
  <2>3. PICK f \in IF w.batch THEN Artifact
               ELSE {i \in initial : i.source = planet.source} :
          db' = [db EXCEPT ![w.slot] = [minutes |-> f.minutes,
                                        whole |-> f.whole]]
    BY <1>7 DEF FillSlot
  <2>4. f.minutes \subseteq Minutes /\ f.whole \in BOOLEAN
    BY <2>3 DEF TypeInv, TypeOK, Artifact
  <2>5. [minutes |-> f.minutes, whole |-> f.whole] \in Database
    BY <2>4 DEF Database
  <2>6. db' \in [Slots -> Database \union {None}]
    BY <2>2, <2>3, <2>5
  <2>7. TypeOK'
    BY <1>7, <2>1, <2>2, <2>3, <2>4, <2>5, <2>6 DEF Moved, Now, FillSlot,
       TypeInv, TypeOK, Worker
  <2>8. Shape'
    BY <1>7, <2>1, <2>2, <2>3, <2>4, <2>5, <2>6 DEF Moved, Now, FillSlot,
       TypeInv, Shape, OnBatch, OnImport, Batching, Building, Importing
  <2>9. Upstream'
    BY <1>7, <2>1, <2>2, <2>3, <2>4, <2>5, <2>6 DEF Moved, Now, FillSlot,
       TypeInv, Upstream, OnBatch, OnImport, Batching, Building, Importing
  <2> QED
    BY <2>7, <2>8, <2>9 DEF TypeInv
<1>8. CASE RecordCompletion
  <2>1. Moved("complete", "clear")
    BY <1>8, ImportControl
  <2>2. Batch \in Batches /\ w.slot \in Slots
    BY <2>1, Typed DEF Moved, Now, TypeInv, Shape, OnBatch, Importing
  <2>3. completion' \in Completion
    BY <1>8, <2>2 DEF RecordCompletion, Completion
  <2>4. TypeOK'
    BY <1>8, <2>1, <2>2, <2>3 DEF Moved, Now, RecordCompletion, TypeInv,
       TypeOK, Worker
  <2>5. Shape'
    BY <1>8, <2>1, <2>2, <2>3 DEF Moved, Now, RecordCompletion, TypeInv, Shape,
       OnBatch, OnImport, Batching, Building, Importing
  <2>6. Upstream'
    BY <1>8, <2>1, <2>2, <2>3 DEF Moved, Now, RecordCompletion, TypeInv,
       Upstream, OnBatch, OnImport, Batching, Building, Importing
  <2> QED
    BY <2>4, <2>5, <2>6 DEF TypeInv
<1>9. CASE ClearBuilding
  <2>1. Moved("clear", "publish")
    BY <1>9, ImportControl
  <2>2. TypeOK'
    BY <1>9, <2>1 DEF Moved, Now, ClearBuilding, TypeInv, TypeOK, Worker
  <2>3. Shape'
    BY <1>9, <2>1 DEF Moved, Now, ClearBuilding, TypeInv, Shape, OnBatch,
       OnImport, Batching, Building, Importing
  <2>4. Upstream'
    BY <1>9, <2>1 DEF Moved, Now, ClearBuilding, TypeInv, Upstream, OnBatch,
       OnImport, Batching, Building, Importing
  <2> QED
    BY <2>2, <2>3, <2>4 DEF TypeInv
<1>10. CASE PublishReady
  <2>1. Moved("publish", IF w.batch THEN "save" ELSE "imported")
    BY <1>10, ImportControl
  <2>2. ready' \in Slots
    BY <1>10, <2>1 DEF Moved, Now, PublishReady, TypeInv, Shape, Importing
  <2>3. TypeOK'
    BY <1>10, <2>1, <2>2 DEF Moved, Now, PublishReady, TypeInv, TypeOK, Worker
  <2>4. Shape'
    BY <1>10, <2>1, <2>2 DEF Moved, Now, PublishReady, TypeInv, Shape, OnBatch,
       OnImport, Batching, Building, Importing
  <2>5. Upstream'
    BY <1>10, <2>1, <2>2 DEF Moved, Now, PublishReady, TypeInv, Upstream,
       OnBatch, OnImport, Batching, Building, Importing
  <2> QED
    BY <2>3, <2>4, <2>5 DEF TypeInv
<1> QED
  BY <1>1, <1>2, <1>3, <1>4, <1>5, <1>6, <1>7, <1>8, <1>9, <1>10 DEF ImportStep

(* reset_from_new_planet_snapshot.                                         *)
LEMMA TypeInvResetStep ==
  ASSUME TypeInv, ResetStep
  PROVE  TypeInv'
<1> USE DEF upstreamVars, planetVars, filteredVars, resetVars, markers
<1>1. CASE ResetContinues
  <2>1. PICK slot \in Slots :
          Now("reset", "refilter", w.first, w.last, slot, w.batch)
    BY <1>1, ResetControl
  <2>2. reset # None
    BY <1>1 DEF ResetContinues, ResetMatches
  <2>3. TypeOK'
    BY <1>1, <2>1, <2>2 DEF Moved, Now, ResetContinues, TypeInv, TypeOK, Worker
  <2>4. Shape'
    BY <1>1, <2>1, <2>2 DEF Moved, Now, ResetContinues, TypeInv, Shape,
       OnBatch, OnImport, Batching, Building, Importing
  <2>5. Upstream'
    BY <1>1, <2>1, <2>2 DEF Moved, Now, ResetContinues, TypeInv, Upstream,
       OnBatch, OnImport, Batching, Building, Importing
  <2> QED
    BY <2>3, <2>4, <2>5 DEF TypeInv
<1>2. CASE ResetClears
  <2>1. Moved("reset", "note")
    BY <1>2, ResetControl
  <2>2. TypeOK'
    BY <1>2, <2>1 DEF Moved, Now, ResetClears, TypeInv, TypeOK, Worker
  <2>3. Shape'
    BY <1>2, <2>1 DEF Moved, Now, ResetClears, TypeInv, Shape, OnBatch,
       OnImport, Batching, Building, Importing
  <2>4. Upstream'
    BY <1>2, <2>1 DEF Moved, Now, ResetClears, TypeInv, Upstream, OnBatch,
       OnImport, Batching, Building, Importing
  <2> QED
    BY <2>2, <2>3, <2>4 DEF TypeInv
<1>3. CASE ResetNotes
  <2>1. Now("note", "refilter", w.first, w.last, Inactive, w.batch)
    BY <1>3, ResetControl
  <2>2. Inactive \in Slots /\ planet.source \in 0..MaxPlanets
    BY DEF Inactive, Slots, TypeInv, TypeOK
  <2>3. [source |-> planet.source, slot |-> None, imported |-> FALSE] \in Reset
    BY <2>2 DEF Reset
  <2>4. reset' \in Reset /\ reset' # None
    BY <1>3, <2>3, FullPbfAssumption DEF ResetNotes
  <2>5. TypeOK'
    BY <1>3, <2>1, <2>2, <2>3, <2>4 DEF Moved, Now, ResetNotes, TypeInv,
       TypeOK, Worker
  <2>6. Shape'
    BY <1>3, <2>1, <2>2, <2>3, <2>4 DEF Moved, Now, ResetNotes, TypeInv, Shape,
       OnBatch, OnImport, Batching, Building, Importing
  <2>7. Upstream'
    BY <1>3, <2>1, <2>2, <2>3, <2>4 DEF Moved, Now, ResetNotes, TypeInv,
       Upstream, OnBatch, OnImport, Batching, Building, Importing
  <2> QED
    BY <2>5, <2>6, <2>7 DEF TypeInv
<1>4. CASE ResetFilters
  <2>1. Moved("refilter", "reimport")
    BY <1>4, ResetControl
  <2>2. [source |-> planet.source, whole |-> TRUE, minutes |-> planet.minutes]
          \in [source : 0..MaxPlanets, minutes : SUBSET Minutes,
               whole : {TRUE}]
    BY DEF TypeInv, TypeOK
  <2>3. initial' \subseteq [source : 0..MaxPlanets, minutes : SUBSET Minutes,
                         whole : {TRUE}]
    BY <1>4, <2>2 DEF ResetFilters, TypeInv, TypeOK
  <2>4. TypeOK'
    BY <1>4, <2>1, <2>2, <2>3 DEF Moved, Now, ResetFilters, TypeInv, TypeOK,
       Worker
  <2>5. Shape'
    BY <1>4, <2>1, <2>2, <2>3 DEF Moved, Now, ResetFilters, TypeInv, Shape,
       OnBatch, OnImport, Batching, Building, Importing
  <2>6. Upstream'
    BY <1>4, <2>1, <2>2, <2>3 DEF Moved, Now, ResetFilters, TypeInv, Upstream,
       OnBatch, OnImport, Batching, Building, Importing
  <2> QED
    BY <2>4, <2>5, <2>6 DEF TypeInv
<1>5. CASE ResetImports
  <2>1. Now("reimport", "mark", w.first, w.last, w.slot, FALSE)
    BY <1>5, ResetControl
  <2>2. reset \in Reset /\ w.slot \in Slots
    BY <2>1 DEF Now, TypeInv, TypeOK, Shape
  <2>3. reset' \in Reset /\ reset' # None
    BY <1>5, <2>2, FullPbfAssumption DEF ResetImports, Reset
  <2>4. TypeOK'
    BY <1>5, <2>1, <2>2, <2>3 DEF Moved, Now, ResetImports, TypeInv, TypeOK,
       Worker
  <2>5. Shape'
    BY <1>5, <2>1, <2>2, <2>3 DEF Moved, Now, ResetImports, TypeInv, Shape,
       OnBatch, OnImport, Batching, Building, Importing
  <2>6. Upstream'
    BY <1>5, <2>1, <2>2, <2>3 DEF Moved, Now, ResetImports, TypeInv, Upstream,
       OnBatch, OnImport, Batching, Building, Importing
  <2> QED
    BY <2>4, <2>5, <2>6 DEF TypeInv
<1>6. CASE ResetImported
  <2>1. Moved("imported", "resnap")
    BY <1>6, ResetControl
  <2>2. reset \in Reset
    BY <2>1 DEF Moved, Now, TypeInv, TypeOK, Shape
  <2>3. reset' \in Reset /\ reset' # None
    BY <1>6, <2>2, FullPbfAssumption DEF ResetImported, Reset
  <2>4. TypeOK'
    BY <1>6, <2>1, <2>2, <2>3 DEF Moved, Now, ResetImported, TypeInv, TypeOK,
       Worker
  <2>5. Shape'
    BY <1>6, <2>1, <2>2, <2>3 DEF Moved, Now, ResetImported, TypeInv, Shape,
       OnBatch, OnImport, Batching, Building, Importing
  <2>6. Upstream'
    BY <1>6, <2>1, <2>2, <2>3 DEF Moved, Now, ResetImported, TypeInv, Upstream,
       OnBatch, OnImport, Batching, Building, Importing
  <2> QED
    BY <2>4, <2>5, <2>6 DEF TypeInv
<1>7. CASE ResetSkipsImport
  <2>1. Moved("reimport", "resnap")
    BY <1>7, ResetControl
  <2>2. TypeOK'
    BY <1>7, <2>1 DEF Moved, Now, ResetSkipsImport, TypeInv, TypeOK, Worker
  <2>3. Shape'
    BY <1>7, <2>1 DEF Moved, Now, ResetSkipsImport, TypeInv, Shape, OnBatch,
       OnImport, Batching, Building, Importing
  <2>4. Upstream'
    BY <1>7, <2>1 DEF Moved, Now, ResetSkipsImport, TypeInv, Upstream, OnBatch,
       OnImport, Batching, Building, Importing
  <2> QED
    BY <2>2, <2>3, <2>4 DEF TypeInv
<1>8. CASE ResetSnapshot
  <2>1. Moved("resnap", "refull")
    BY <1>8, ResetControl
  <2>2. snapshot' \in 0..MaxPlanets
    BY <1>8 DEF ResetSnapshot, TypeInv, TypeOK
  <2>3. TypeOK'
    BY <1>8, <2>1, <2>2 DEF Moved, Now, ResetSnapshot, TypeInv, TypeOK, Worker
  <2>4. Shape'
    BY <1>8, <2>1, <2>2 DEF Moved, Now, ResetSnapshot, TypeInv, Shape, OnBatch,
       OnImport, Batching, Building, Importing
  <2>5. Upstream'
    BY <1>8, <2>1, <2>2 DEF Moved, Now, ResetSnapshot, TypeInv, Upstream,
       OnBatch, OnImport, Batching, Building, Importing
  <2> QED
    BY <2>3, <2>4, <2>5 DEF TypeInv
<1>9. CASE ResetFullState
  <2>1. Moved("refull", "restate")
    BY <1>9, ResetControl
  <2>2. planet.stamp \in 0..MaxMinute /\ planet.stamp <= clock /\ clock \in Nat
    BY Typed DEF TypeInv, Upstream
  <2>3. /\ Cadences[1] \in Names /\ InitState(planet.stamp).sequence \in Nat
        /\ Stamp(Cadences[1], InitState(planet.stamp).sequence) <= planet.stamp
    BY <2>2, InitStateTyped
  <2>4. planet.stamp \in Nat
    BY <2>2
  <2>5. Stamp(Cadences[1], InitState(planet.stamp).sequence) \in Nat
    BY <2>3, StampFacts
  <2>6. Stamp(Cadences[1], InitState(planet.stamp).sequence) <= clock
    BY <2>2, <2>3, <2>4, <2>5
  <2>7. /\ fullState' \in FullState /\ fullState'.cadence = Cadences[1]
        /\ fullState'.sequence = InitState(planet.stamp).sequence
    BY <1>9, <2>3 DEF ResetFullState, FullState
  <2>8. Stamp(fullState'.cadence, fullState'.sequence) <= clock
    BY <2>6, <2>7
  <2>9. TypeOK'
    BY <1>9, <2>1, <2>2, <2>3, <2>4, <2>5, <2>6, <2>7, <2>8 DEF Moved, Now,
       ResetFullState, TypeInv, TypeOK, Worker
  <2>10. Shape'
    BY <1>9, <2>1, <2>2, <2>3, <2>4, <2>5, <2>6, <2>7, <2>8 DEF Moved, Now,
       ResetFullState, TypeInv, Shape, OnBatch, OnImport, Batching, Building,
       Importing
  <2>11. Upstream'
    BY <1>9, <2>1, <2>2, <2>3, <2>4, <2>5, <2>6, <2>7, <2>8 DEF Moved, Now,
       ResetFullState, TypeInv, Upstream, OnBatch, OnImport, Batching,
       Building, Importing
  <2> QED
    BY <2>9, <2>10, <2>11 DEF TypeInv
<1>10. CASE ResetState
  <2>1. Moved("restate", "forget")
    BY <1>10, ResetControl
  <2>2. state' \in State /\ state' # None /\ state'.stamp <= clock
    BY <1>10, Typed, InitStateTyped, FullPbfAssumption DEF ResetState, TypeInv,
       Upstream
  <2>3. TypeOK'
    BY <1>10, <2>1, <2>2 DEF Moved, Now, ResetState, TypeInv, TypeOK, Worker
  <2>4. Shape'
    BY <1>10, <2>1, <2>2 DEF Moved, Now, ResetState, TypeInv, Shape, OnBatch,
       OnImport, Batching, Building, Importing
  <2>5. Upstream'
    BY <1>10, <2>1, <2>2 DEF Moved, Now, ResetState, TypeInv, Upstream,
       OnBatch, OnImport, Batching, Building, Importing
  <2> QED
    BY <2>3, <2>4, <2>5 DEF TypeInv
<1>11. CASE ResetEnds
  <2>1. Moved("forget", "loop")
    BY <1>11, ResetControl
  <2>2. TypeOK'
    BY <1>11, <2>1 DEF Moved, Now, ResetEnds, TypeInv, TypeOK, Worker
  <2>3. Shape'
    BY <1>11, <2>1 DEF Moved, Now, ResetEnds, TypeInv, Shape, OnBatch,
       OnImport, Batching, Building, Importing
  <2>4. Upstream'
    BY <1>11, <2>1 DEF Moved, Now, ResetEnds, TypeInv, Upstream, OnBatch,
       OnImport, Batching, Building, Importing
  <2> QED
    BY <2>2, <2>3, <2>4 DEF TypeInv
<1> QED
  BY <1>1, <1>2, <1>3, <1>4, <1>5, <1>6, <1>7, <1>8, <1>9, <1>10, <1>11 DEF
     ResetStep

LEMMA TypeInvStep == TypeInv /\ [Next]_vars => TypeInv'
<1>1. CASE Step
  BY <1>1, TypeInvLoopStep, TypeInvApplyStep, TypeInvImportStep,
     TypeInvResetStep DEF Step
<1>2. CASE UNCHANGED vars
  BY <1>2, ZenonT(60) DEF vars, upstreamVars, planetVars, filteredVars, resetVars, markers,
     TypeInv, TypeOK, Shape, Upstream, OnBatch, OnImport
<1> QED
  BY <1>1, <1>2, TypeInvWorld DEF Next

(* Every file and marker holds what the code can have written, at every    *)
(* step and after every kill.                                              *)
THEOREM FullPbfTypeCorrect == Spec => []TypeOK
<1>1. TypeInv => TypeOK
  BY DEF TypeInv
<1> QED
  BY <1>1, TypeInvInit, TypeInvStep, PTL DEF Spec

-----------------------------------------------------------------------------
(* The planet file.                                                        *)

Closed(S) == \A m \in S : 1..m \subseteq S
HasUpto(t) == 1..t \subseteq planet.minutes
Upto(b) == Stamp(b.cadence, b.last)

(* The last planet snapshot is the one that was imported.                  *)
Linked == planet.source = snapshot

(* The inputs were cleared for a snapshot that is not imported yet.        *)
Cleared ==
  w.pc \in {"note", "refull", "restate", "forget"} \/ (ResetMatches /\ ~Linked)

Snapshots ==
  /\ snapshot <= planet.source
  /\ reset # None => reset.source <= planet.source
  /\ OnBatch \/ w.pc \in {"loop", "refull", "restate", "forget"} => Linked
  /\ OnReset => ~Linked
  /\ OnImport \/ w.pc \in {"refilter", "reimport", "imported", "resnap"} =>
       ResetMatches
  /\ Cleared => journal = None /\ artifacts = {} /\ completion = None

(* A checkpoint's minute is one of the first that its sequence stands for. *)
Checkpoints ==
  /\ state # None =>
       /\ Stamp(state.cadence, state.sequence) <= state.stamp
       /\ state.stamp < Stamp(state.cadence, state.sequence + 1)
  /\ OnBatch => w.first = state.sequence + 1

(* The planet file has what the checkpoints, and the steps after a batch   *)
(* was applied, say it has.                                                *)
Applied ==
  /\ Closed(planet.minutes) /\ HasUpto(planet.stamp)
  /\ Linked /\ state # None /\ w.pc \notin {"refull", "restate"} =>
       HasUpto(state.stamp)
  /\ Linked /\ fullState # None /\ w.pc # "refull" =>
       HasUpto(Stamp(fullState.cadence, fullState.sequence))
  /\ OnBatch /\ w.pc \notin {"apply", "journal", "build", "building", "built",
                             "replace"} =>
       HasUpto(Stamp(state.cadence, w.last))

(* A finished build that the journal names is the planet file and more.    *)
Builders ==
  /\ w.pc \in {"build", "building", "built"} =>
       journal.phase = "applying" /\ journal.batch = Batch
  /\ w.pc = "built" =>
       \A n \in Built : n.minutes = planet.minutes \union
                          Covered(state.cadence, w.first, w.last)
  /\ w.pc = "replace" => journal.phase = "built"
  /\ w.pc \in {"replace", "switch", "mark switched"} => journal.batch = Batch
Journaled ==
  Linked /\ journal # None =>
    /\ journal.phase = "switched" => HasUpto(Upto(journal.batch))
    /\ journal.phase = "built" =>
         /\ Closed(journal.target)
         /\ 1..Upto(journal.batch) \subseteq journal.target
         /\ \A n \in beside :
              n.name = [cadence |-> journal.batch.cadence,
                        last |-> journal.batch.last] =>
                n.minutes = journal.target /\ planet.minutes \subseteq n.minutes

PlanetInv == Snapshots /\ Checkpoints /\ Applied /\ Builders /\ Journaled

LEMMA StampNext ==
  ASSUME NEW c \in Names, NEW n \in Nat
  PROVE  Stamp(c, n) \in Nat /\ Stamp(c, n) < Stamp(c, n + 1)
BY StampMonotone

LEMMA BatchFields ==
  /\ Batch.cadence = state.cadence /\ Batch.first = w.first /\ Batch.last = w.last
  /\ Upto(Batch) = Stamp(state.cadence, w.last)
BY DEF Batch, Upto

LEMMA SwitchKeepsStamp ==
  ASSUME TypeInv, SwitchCadence
  PROVE  /\ w.pc = "loop" /\ state # None /\ state' # None
         /\ state'.stamp = state.stamp
         /\ Stamp(state'.cadence, state'.sequence) <= state'.stamp
         /\ state'.stamp < Stamp(state'.cadence, state'.sequence + 1)
<1>1. /\ state # None /\ state' \in State /\ state'.cadence \in Names
      /\ state'.stamp = state.stamp
      /\ state'.sequence = SequenceAfter(state'.cadence, state.stamp) - 1
  BY SwitchTyped
<1>2. state.stamp \in Nat
  BY <1>1, Typed
<1>3. state'.sequence + 1 = SequenceAfter(state'.cadence, state.stamp)
  BY <1>1, <1>2, SequenceFacts
<1> QED
  BY <1>1, <1>2, <1>3, SequenceFacts, FullPbfAssumption DEF SwitchCadence

LEMMA SaveCovers ==
  ASSUME TypeInv, SaveState
  PROVE  /\ state # None /\ state'.stamp = Stamp(state.cadence, w.last)
         /\ state'.cadence = state.cadence /\ state'.sequence = w.last
         /\ Stamp(state.cadence, w.last) \in Nat
         /\ Stamp(state.cadence, w.last) < Stamp(state.cadence, w.last + 1)
<1>1. state # None /\ state.cadence \in Names /\ w.last \in Nat
  BY SaveTyped, Typed
<1> QED
  BY <1>1, SaveTyped, StampNext

LEMMA ContainsCovers ==
  ASSUME TypeInv, state # None, NEW last \in Nat, Contains(state.cadence, last),
         HasUpto(Stamp(fullState.cadence, fullState.sequence))
  PROVE  HasUpto(Stamp(state.cadence, last))
<1>1. /\ fullState # None /\ fullState.cadence = state.cadence
      /\ state.cadence \in Names
      /\ fullState.sequence \in Nat /\ last <= fullState.sequence
  BY Typed DEF Contains
<1>2. /\ Stamp(state.cadence, last) \in Nat
      /\ Stamp(state.cadence, fullState.sequence) \in Nat
      /\ Stamp(state.cadence, last) <= Stamp(state.cadence, fullState.sequence)
  BY <1>1, StampMonotone
<1> QED
  BY <1>1, <1>2 DEF HasUpto

(* The checkpoint of a new planet is covered by it.                        *)
LEMMA InitCovered ==
  ASSUME TypeInv, HasUpto(planet.stamp)
  PROVE  HasUpto(Stamp(Cadences[1], InitState(planet.stamp).sequence))
<1>1. planet.stamp \in 0..MaxMinute /\ planet.stamp \in Nat
  BY Typed
<1>2. /\ Cadences[1] \in Names /\ InitState(planet.stamp).sequence \in Nat
      /\ Stamp(Cadences[1], InitState(planet.stamp).sequence) <= planet.stamp
  BY <1>1, InitStateTyped
<1>3. Stamp(Cadences[1], InitState(planet.stamp).sequence) \in Nat
  BY <1>2, StampFacts
<1> QED
  BY <1>1, <1>2, <1>3 DEF HasUpto

LEMMA NewPlanetFacts ==
  ASSUME TypeInv, Snapshots, NewPlanet
  PROVE  /\ w.pc = "down" /\ UNCHANGED w
         /\ snapshot <= planet'.source /\ snapshot # planet'.source
         /\ reset # None => /\ reset.source <= planet'.source
                            /\ reset.source # planet'.source
         /\ Closed(planet'.minutes) /\ 1..planet'.stamp \subseteq planet'.minutes
<1>1. PICK m \in 0..clock :
        planet' = [source |-> planet.source + 1, stamp |-> m, minutes |-> 1..m]
  BY DEF NewPlanet
<1>2. m \in Nat
  OBVIOUS
<1>3. planet.source \in Nat /\ snapshot \in Nat
  BY Bounds DEF TypeInv, TypeOK
<1>4. reset # None => reset.source \in Nat
  BY Bounds DEF TypeInv, TypeOK, Reset
<1>5. /\ snapshot <= planet'.source /\ snapshot # planet'.source
      /\ reset # None => /\ reset.source <= planet'.source
                         /\ reset.source # planet'.source
  BY <1>1, <1>3, <1>4 DEF Snapshots
<1>6. Closed(planet'.minutes) /\ 1..planet'.stamp \subseteq planet'.minutes
  BY <1>1, <1>2 DEF Closed
<1> QED
  BY <1>5, <1>6 DEF NewPlanet

LEMMA PlanetInvUnmoved ==
  ASSUME PlanetInv, UNCHANGED <<planetVars, artifacts, completion, resetVars,
                                state, w>>
  PROVE  PlanetInv'
<1> USE DEF PlanetInv, planetVars, resetVars, Linked, OnBatch, OnImport, OnReset
<1>1. Snapshots'
  BY DEF Snapshots, Cleared, ResetMatches
<1>2. Checkpoints'
  BY DEF Checkpoints
<1>3. Applied'
  BY DEF Applied, HasUpto, Closed
<1>4. Builders'
  BY DEF Builders, Batch, Built, NextPbf
<1>5. Journaled'
  BY DEF Journaled, HasUpto, Closed, Upto
<1> QED
  BY <1>1, <1>2, <1>3, <1>4, <1>5


(* The planet file with the files after the checkpoint has no gap either.  *)
LEMMA BatchClosed ==
  ASSUME TypeInv, PlanetInv, Linked, OnBatch, w.pc \notin {"refull", "restate"},
         NEW S, S = planet.minutes \union Covered(state.cadence, w.first, w.last)
  PROVE  Closed(S) /\ 1..Stamp(state.cadence, w.last) \subseteq S
<1>0. state # None /\ w.first = state.sequence + 1 /\ w.first > 0
  BY DEF TypeInv, Shape, PlanetInv, Checkpoints
<1>1. /\ state.cadence \in Names /\ state.sequence \in Nat
      /\ state.stamp \in Nat /\ w.last \in Nat /\ w.first \in Nat
  BY <1>0, Typed
<1>2. Covered(state.cadence, w.first, w.last) =
        (Stamp(state.cadence, state.sequence) + 1)..Stamp(state.cadence, w.last)
  <2>1. w.first - 1 = state.sequence
    BY <1>0, <1>1
  <2> QED
    BY <1>0, <1>1, <2>1, CoveredIs
<1>3. /\ Stamp(state.cadence, state.sequence) \in Nat
      /\ Stamp(state.cadence, w.last) \in Nat
  BY <1>1, StampFacts
<1>4. /\ Stamp(state.cadence, state.sequence) <= state.stamp
      /\ 1..state.stamp \subseteq planet.minutes /\ Closed(planet.minutes)
  BY <1>0, <1>1 DEF PlanetInv, Checkpoints, Applied, HasUpto
<1>5. 1..Stamp(state.cadence, w.last) \subseteq S
  BY <1>1, <1>2, <1>3, <1>4
<1>6. planet.minutes \subseteq Minutes
  BY DEF TypeInv, TypeOK
<1>7. Closed(S)
  <2> SUFFICES ASSUME NEW m \in S PROVE 1..m \subseteq S
    BY DEF Closed
  <2>1. CASE m \in planet.minutes
    BY <1>4, <2>1 DEF Closed
  <2>2. CASE m \in Covered(state.cadence, w.first, w.last)
    BY <1>2, <1>3, <1>5, <2>2
  <2> QED
    BY <2>1, <2>2
<1> QED
  BY <1>5, <1>7

LEMMA PlanetInvInit == Init => PlanetInv
<1> SUFFICES ASSUME Init PROVE PlanetInv
  OBVIOUS
<1>1. planet.stamp \in Nat /\ planet.minutes = 1..planet.stamp
  BY Bounds DEF Init
<1> QED
  BY <1>1 DEF Init, PlanetInv, Snapshots, Checkpoints, Applied, Builders,
     Journaled, Linked, Cleared, ResetMatches, HasUpto, Closed, OnBatch,
     OnImport, OnReset, Batching, Building, Importing

LEMMA PlanetInvWorld ==
  ASSUME TypeInv, TypeInv', PlanetInv, {"refull", "restate"} \subseteq Perilous,
         MinuteArrives \/ Activate \/ (\E s \in Slots : Retire(s)) \/ NewPlanet
           \/ Killed \/ ImportFails
  PROVE  PlanetInv'
<1> USE DEF upstreamVars, planetVars, filteredVars, resetVars, markers,
            Moved, Now, PlanetInv, Snapshots, Checkpoints, Applied, Builders,
            Journaled, Linked, Cleared, ResetMatches, HasUpto, Closed, Upto,
            Batch, Built, NextPbf, OnBatch, OnImport, OnReset, Batching,
            Building, Importing
<1>1. CASE MinuteArrives
  BY <1>1, PlanetInvUnmoved DEF MinuteArrives
<1>2. CASE Activate
  BY <1>2, PlanetInvUnmoved DEF Activate
<1>3. CASE \E s \in Slots : Retire(s)
  BY <1>3, PlanetInvUnmoved DEF Retire
<1>4. CASE NewPlanet
  <2>1. /\ w.pc = "down" /\ UNCHANGED w
        /\ Closed(planet'.minutes) /\ 1..planet'.stamp \subseteq planet'.minutes
    BY <1>4, NewPlanetFacts
  <2>2. ~Linked' /\ ~ResetMatches'
    BY <1>4, NewPlanetFacts DEF NewPlanet
  <2>3. Snapshots'
    BY <1>4, <2>1, <2>2, NewPlanetFacts DEF NewPlanet
  <2>4. Applied'
    BY <2>1, <2>2
  <2>5. Checkpoints' /\ Builders' /\ Journaled'
    BY <1>4, <2>1, <2>2 DEF NewPlanet
  <2> QED
    BY <2>3, <2>4, <2>5
<1>5. CASE Killed
  <2>1. Moved(w.pc, "down") /\ w.pc \notin {"refull", "restate"}
    BY <1>5, StopControl DEF Killed
  <2> QED
    BY <1>5, <2>1 DEF Killed
<1>6. CASE ImportFails
  BY <1>6, StopControl DEF ImportFails
<1> QED
  BY <1>1, <1>2, <1>3, <1>4, <1>5, <1>6

(* The main loop.                                                          *)
LEMMA PlanetInvLoopStep ==
  ASSUME TypeInv, TypeInv', PlanetInv, LoopStep
  PROVE  PlanetInv'
<1> USE DEF upstreamVars, planetVars, filteredVars, resetVars, markers,
            Moved, Now, PlanetInv, Snapshots, Checkpoints, Applied, Builders,
            Journaled, Linked, Cleared, ResetMatches, HasUpto, Closed, Upto,
            Batch, Built, NextPbf, OnBatch, OnImport, OnReset, Batching,
            Building, Importing
<1>1. CASE Starts
  <2>1. Moved("down", IF planet.source = snapshot THEN "loop" ELSE "reset")
    BY <1>1, LoopControl
  <2>2. state' = state \/ (state = None /\ state' = InitState(planet.stamp))
    BY <1>1 DEF Starts
  <2>3. Checkpoints'
    BY <1>1, <2>1, <2>2, InitStateTyped, Typed DEF Starts
  <2>4. Applied'
    BY <1>1, <2>1, <2>2, InitStateTyped, Typed DEF Starts
  <2> QED
    BY <1>1, <2>1, <2>3, <2>4 DEF Starts
<1>2. CASE RecoverPublishes
  <2>1. /\ Now("loop", "save", state.sequence + 1, fullState.sequence,
               w.slot, w.batch)
        /\ fullState # None /\ fullState.cadence = state.cadence
    BY <1>2, Recovers
  <2> QED
    BY <1>2, <2>1 DEF RecoverPublishes
<1>3. CASE RecoverImports
  <2>1. /\ Now("loop", "select", state.sequence + 1, fullState.sequence,
               w.slot, TRUE)
        /\ fullState # None /\ fullState.cadence = state.cadence
    BY <1>3, Recovers
  <2> QED
    BY <1>3, <2>1 DEF RecoverImports
<1>4. CASE FetchBatch
  <2>1. PICK last \in Nat :
          /\ Now("loop", IF Contains(state.cadence, last) THEN "extract"
                         ELSE "apply",
                 state.sequence + 1, last, w.slot, TRUE)
          /\ state # None /\ state.cadence \in Names
    BY <1>4, Fetches
  <2>2. ASSUME Contains(state.cadence, last)
        PROVE  HasUpto(Stamp(state.cadence, last))
    <3>1. HasUpto(Stamp(fullState.cadence, fullState.sequence))
      BY <2>1, <2>2 DEF Contains
    <3> QED
      BY <2>1, <2>2, <3>1, ContainsCovers
  <2>3. Applied'
    BY <1>4, <2>1, <2>2 DEF FetchBatch
  <2> QED
    BY <1>4, <2>1, <2>3 DEF FetchBatch
<1>5. CASE SwitchCadence
  <2>1. /\ w.pc = "loop" /\ state # None /\ state'.stamp = state.stamp
        /\ Stamp(state'.cadence, state'.sequence) <= state'.stamp
        /\ state'.stamp < Stamp(state'.cadence, state'.sequence + 1)
        /\ UNCHANGED w
    BY <1>5, SwitchKeepsStamp DEF SwitchCadence
  <2>2. Checkpoints'
    BY <2>1
  <2>3. Applied'
    BY <1>5, <2>1 DEF SwitchCadence
  <2> QED
    BY <1>5, <2>1, <2>2, <2>3 DEF SwitchCadence
<1>6. CASE SaveState
  <2>1. Moved("save", "loop")
    BY <1>6, LoopControl
  <2>2. /\ state # None /\ state'.stamp = Stamp(state.cadence, w.last)
        /\ state'.cadence = state.cadence /\ state'.sequence = w.last
        /\ Stamp(state.cadence, w.last) \in Nat
        /\ Stamp(state.cadence, w.last) < Stamp(state.cadence, w.last + 1)
    BY <1>6, SaveCovers
  <2>3. Checkpoints'
    BY <2>1, <2>2
  <2>4. Applied'
    BY <1>6, <2>1, <2>2 DEF SaveState
  <2> QED
    BY <1>6, <2>1, <2>3, <2>4 DEF SaveState
<1> QED
  BY <1>1, <1>2, <1>3, <1>4, <1>5, <1>6 DEF LoopStep

LEMMA PlanetInvApplyStep ==
  ASSUME TypeInv, TypeInv', PlanetInv, ApplyStep
  PROVE  PlanetInv'
<1> USE DEF upstreamVars, planetVars, filteredVars, resetVars, markers,
            Moved, Now, PlanetInv, Snapshots, Checkpoints, Applied, Builders,
            Journaled, Linked, Cleared, ResetMatches, HasUpto, Closed, Upto,
            Batch, Built, NextPbf, OnBatch, OnImport, OnReset, Batching,
            Building, Importing
<1>1. CASE ResumeApply
  <2>1. Moved("apply", "resumed") /\ Linked /\ state # None
    BY <1>1, ApplyControl DEF TypeInv, Shape
  <2>2. /\ journal # None /\ journal.batch = Batch
        /\ journal.phase \in {"switched", "built"}
    BY <1>1 DEF ResumeApply, Resumable
  <2>3. /\ planet'.source = planet.source /\ planet'.stamp = planet.stamp
        /\ planet.minutes \subseteq planet'.minutes /\ Closed(planet'.minutes)
        /\ 1..Stamp(state.cadence, w.last) \subseteq planet'.minutes
        /\ beside' \subseteq beside
        /\ Built # {} /\ journal.phase = "built" =>
             planet'.minutes = journal.target
    <3>1. CASE journal.phase = "built" /\ Built # {}
      <4>1. PICK n \in Built : planet' = [planet EXCEPT !.minutes = n.minutes]
        BY <1>1, <3>1 DEF ResumeApply
      <4>2. /\ planet'.source = planet.source /\ planet'.stamp = planet.stamp
            /\ planet'.minutes = n.minutes
        BY <4>1 DEF TypeInv, TypeOK
      <4>3. /\ n.minutes = journal.target /\ planet.minutes \subseteq n.minutes
            /\ Closed(journal.target)
            /\ 1..Stamp(state.cadence, w.last) \subseteq journal.target
        BY <2>1, <2>2, <3>1
      <4> QED
        BY <1>1, <4>2, <4>3 DEF ResumeApply
    <3>2. CASE ~(journal.phase = "built" /\ Built # {})
      <4>1. UNCHANGED <<planet, beside>>
        BY <1>1, <3>2 DEF ResumeApply
      <4>2. \/ journal.phase = "switched"
            \/ journal.phase = "built" /\ planet.minutes = journal.target
        BY <1>1, <3>2 DEF ResumeApply, Resumable
      <4>3. HasUpto(Stamp(state.cadence, w.last))
        BY <2>1, <2>2, <4>2
      <4> QED
        BY <3>2, <4>1, <4>3
    <3> QED
      BY <3>1, <3>2
  <2>4. Snapshots' /\ Checkpoints' /\ Builders'
    BY <1>1, <2>1, <2>3 DEF ResumeApply
  <2>5. Applied'
    BY <1>1, <2>1, <2>3 DEF ResumeApply
  <2>6. Journaled'
    <3>1. CASE journal.phase = "built" /\ Built # {}
      BY <1>1, <2>1, <2>2, <2>3, <3>1 DEF ResumeApply
    <3>2. CASE ~(journal.phase = "built" /\ Built # {})
      BY <1>1, <2>1, <2>2, <2>3, <3>2 DEF ResumeApply
    <3> QED
      BY <3>1, <3>2
  <2> QED
    BY <2>4, <2>5, <2>6
<1>2. CASE StartApply
  BY <1>2, ApplyControl DEF StartApply, TypeInv, Shape
<1>3. CASE JournalApplying
  BY <1>3, ApplyControl DEF JournalApplying, TypeInv, Shape
<1>4. CASE BuildStarts
  BY <1>4, ApplyControl DEF BuildStarts, TypeInv, Shape
<1>5. CASE BuildEnds
  <2>1. Moved("building", "built")
    BY <1>5, ApplyControl
  <2>2. Builders'
    BY <1>5, <2>1 DEF BuildEnds
  <2>3. Snapshots' /\ Checkpoints'
    BY <1>5, <2>1 DEF BuildEnds
  <2>4. Applied' /\ Journaled'
    BY <1>5, <2>1 DEF BuildEnds
  <2> QED
    BY <2>2, <2>3, <2>4
<1>6. CASE JournalBuilt
  <2>1. Moved("built", "replace") /\ Linked /\ state # None /\ journal \in Journal
    BY <1>6, ApplyControl DEF TypeInv, TypeOK, Shape
  <2>2. PICK n \in Built : journal' = [journal EXCEPT !.phase = "built",
                                                      !.target = n.minutes]
    BY <1>6 DEF JournalBuilt
  <2>3. /\ journal'.phase = "built" /\ journal'.target = n.minutes
        /\ journal'.batch = Batch
    BY <2>1, <2>2 DEF Journal
  <2>4. /\ \A b \in Built : b.minutes = n.minutes
        /\ n.minutes = planet.minutes \union
                         Covered(state.cadence, w.first, w.last)
    BY <2>1, <2>2
  <2>5. Closed(n.minutes) /\ 1..Stamp(state.cadence, w.last) \subseteq n.minutes
    BY <2>1, <2>4, BatchClosed
  <2>6. Builders'
    BY <1>6, <2>1, <2>3 DEF JournalBuilt
  <2>7. Journaled'
    <3>1. /\ journal'.batch.cadence = state.cadence
          /\ journal'.batch.last = w.last
      BY <2>3, BatchFields
    <3>2. \A b \in beside : b.name = [cadence |-> journal'.batch.cadence,
                                     last |-> journal'.batch.last] =>
            b.minutes = n.minutes /\ planet.minutes \subseteq b.minutes
      BY <2>4, <3>1
    <3> QED
      BY <1>6, <2>1, <2>3, <2>5, <3>1, <3>2 DEF JournalBuilt
  <2>8. Snapshots' /\ Checkpoints' /\ Applied'
    BY <1>6, <2>1 DEF JournalBuilt
  <2> QED
    BY <2>6, <2>7, <2>8
<1>7. CASE ReplacePlanet
  <2>1. /\ Moved("replace", "switch") /\ Linked /\ state # None
        /\ journal # None /\ journal.batch = Batch /\ journal.phase = "built"
    BY <1>7, ApplyControl DEF TypeInv, Shape
  <2>2. PICK n \in Built : planet' = [planet EXCEPT !.minutes = n.minutes]
    BY <1>7 DEF ReplacePlanet
  <2>3. /\ planet'.source = planet.source /\ planet'.stamp = planet.stamp
        /\ planet'.minutes = n.minutes
    BY <2>2 DEF TypeInv, TypeOK
  <2>4. /\ n.minutes = journal.target /\ planet.minutes \subseteq n.minutes
        /\ Closed(journal.target)
        /\ 1..Stamp(state.cadence, w.last) \subseteq journal.target
    BY <2>1, <2>2
  <2>5. Snapshots' /\ Checkpoints' /\ Builders'
    BY <1>7, <2>1, <2>3 DEF ReplacePlanet
  <2>6. Applied'
    BY <1>7, <2>1, <2>3, <2>4 DEF ReplacePlanet
  <2>7. Journaled'
    BY <1>7, <2>1, <2>3, <2>4 DEF ReplacePlanet
  <2> QED
    BY <2>5, <2>6, <2>7
<1>8. CASE SaveFullState
  <2>1. Moved("switch", "mark switched") \/ Moved("resumed", "drop")
    BY <1>8, ApplyControl
  <2> QED
    BY <1>8, <2>1 DEF SaveFullState
<1>9. CASE JournalSwitched
  <2>1. Moved("mark switched", "drop") /\ journal \in Journal
    BY <1>9, ApplyControl DEF TypeInv, TypeOK, Shape
  <2>2. journal'.phase = "switched" /\ journal'.batch = journal.batch
    BY <1>9, <2>1 DEF JournalSwitched, Journal
  <2>3. Builders'
    BY <1>9, <2>1, <2>2 DEF JournalSwitched
  <2>4. Journaled'
    <3>1. journal.batch.cadence = state.cadence /\ journal.batch.last = w.last
      BY <2>1, BatchFields
    <3>2. HasUpto(Upto(journal.batch))
      BY <2>1, <3>1
    <3> QED
      BY <1>9, <2>1, <2>2, <3>2 DEF JournalSwitched
  <2>5. Snapshots' /\ Checkpoints' /\ Applied'
    BY <1>9, <2>1 DEF JournalSwitched
  <2> QED
    BY <2>3, <2>4, <2>5
<1>10. CASE DropJournal
  BY <1>10, ApplyControl DEF DropJournal, TypeInv, Shape
<1> QED
  BY <1>1, <1>2, <1>3, <1>4, <1>5, <1>6, <1>7, <1>8, <1>9, <1>10 DEF ApplyStep

LEMMA PlanetInvImportStep ==
  ASSUME TypeInv, TypeInv', PlanetInv, ImportStep
  PROVE  PlanetInv'
<1> USE DEF upstreamVars, planetVars, filteredVars, resetVars, markers,
            Moved, Now, PlanetInv, Snapshots, Checkpoints, Applied, Builders,
            Journaled, Linked, Cleared, ResetMatches, HasUpto, Closed, Upto,
            Batch, Built, NextPbf, OnBatch, OnImport, OnReset, Batching,
            Building, Importing
<1>1. CASE SkipRebuild
  BY <1>1, ImportControl DEF SkipRebuild, TypeInv, Shape
<1>2. CASE ExtractStarts
  BY <1>2, ImportControl DEF ExtractStarts, TypeInv, Shape
<1>3. CASE ExtractEnds
  BY <1>3, ImportControl DEF ExtractEnds, TypeInv, Shape
<1>4. CASE SelectSlot
  BY <1>4, ImportControl DEF SelectSlot, TypeInv, Shape
<1>5. CASE MarkBuilding
  BY <1>5, ImportControl DEF MarkBuilding, TypeInv, Shape
<1>6. CASE WipeSlot
  BY <1>6, ImportControl DEF WipeSlot, TypeInv, Shape
<1>7. CASE FillSlot
  BY <1>7, ImportControl DEF FillSlot, TypeInv, Shape
<1>8. CASE RecordCompletion
  BY <1>8, ImportControl DEF RecordCompletion, TypeInv, Shape
<1>9. CASE ClearBuilding
  BY <1>9, ImportControl DEF ClearBuilding, TypeInv, Shape
<1>10. CASE PublishReady
  BY <1>10, ImportControl DEF PublishReady, TypeInv, Shape
<1> QED
  BY <1>1, <1>2, <1>3, <1>4, <1>5, <1>6, <1>7, <1>8, <1>9, <1>10 DEF ImportStep

LEMMA PlanetInvResetStep ==
  ASSUME TypeInv, TypeInv', PlanetInv, ResetStep
  PROVE  PlanetInv'
<1> USE DEF upstreamVars, planetVars, filteredVars, resetVars, markers,
            Moved, Now, PlanetInv, Snapshots, Checkpoints, Applied, Builders,
            Journaled, Linked, Cleared, ResetMatches, HasUpto, Closed, Upto,
            Batch, Built, NextPbf, OnBatch, OnImport, OnReset, Batching,
            Building, Importing
<1>1. CASE ResetContinues
  <2>1. PICK slot \in Slots :
          Now("reset", "refilter", w.first, w.last, slot, w.batch)
    BY <1>1, ResetControl
  <2> QED
    BY <1>1, <2>1 DEF ResetContinues
<1>2. CASE ResetClears
  BY <1>2, ResetControl DEF ResetClears, TypeInv, Shape
<1>3. CASE ResetNotes
  <2>1. Now("note", "refilter", w.first, w.last, Inactive, w.batch)
    BY <1>3, ResetControl
  <2>2. /\ reset' # None /\ reset'.source = planet.source
        /\ planet.source <= planet.source
    BY <1>3 DEF ResetNotes, TypeInv, TypeOK, Shape, Now
  <2>3. Snapshots'
    BY <1>3, <2>1, <2>2 DEF ResetNotes
  <2> QED
    BY <1>3, <2>1, <2>3 DEF ResetNotes
<1>4. CASE ResetFilters
  BY <1>4, ResetControl DEF ResetFilters, TypeInv, Shape
<1>5. CASE ResetImports
  BY <1>5, ResetControl DEF ResetImports, TypeInv, Shape
<1>6. CASE ResetImported
  <2>1. Moved("imported", "resnap") /\ reset # None /\ reset \in Reset
    BY <1>6, ResetControl DEF TypeInv, TypeOK, Shape
  <2>2. reset'.source = reset.source /\ reset' # None
    BY <1>6, <2>1, FullPbfAssumption DEF ResetImported, Reset
  <2>3. Snapshots'
    BY <1>6, <2>1, <2>2 DEF ResetImported
  <2> QED
    BY <1>6, <2>1, <2>3 DEF ResetImported
<1>7. CASE ResetSkipsImport
  BY <1>7, ResetControl DEF ResetSkipsImport, TypeInv, Shape
<1>8. CASE ResetSnapshot
  <2>1. Moved("resnap", "refull") /\ planet.source <= planet.source
    BY <1>8, ResetControl DEF TypeInv, TypeOK
  <2> QED
    BY <1>8, <2>1 DEF ResetSnapshot
<1>9. CASE ResetFullState
  <2>1. Moved("refull", "restate")
    BY <1>9, ResetControl
  <2>2. /\ fullState'.cadence = Cadences[1]
        /\ fullState'.sequence = InitState(planet.stamp).sequence
    BY <1>9 DEF ResetFullState
  <2>3. HasUpto(Stamp(Cadences[1], InitState(planet.stamp).sequence))
    BY InitCovered
  <2>4. Applied'
    BY <1>9, <2>1, <2>2, <2>3 DEF ResetFullState
  <2> QED
    BY <1>9, <2>1, <2>4 DEF ResetFullState
<1>10. CASE ResetState
  <2>1. Moved("restate", "forget")
    BY <1>10, ResetControl
  <2>2. state' = InitState(planet.stamp)
    BY <1>10 DEF ResetState
  <2>3. /\ state'.stamp = planet.stamp
        /\ Stamp(state'.cadence, state'.sequence) <= state'.stamp
        /\ state'.stamp < Stamp(state'.cadence, state'.sequence + 1)
    BY <2>2, Typed, InitStateTyped
  <2>4. Checkpoints'
    BY <2>1, <2>3
  <2>5. Applied'
    BY <1>10, <2>1, <2>3 DEF ResetState
  <2> QED
    BY <1>10, <2>1, <2>4, <2>5 DEF ResetState
<1>11. CASE ResetEnds
  BY <1>11, ResetControl DEF ResetEnds, TypeInv, Shape
<1> QED
  BY <1>1, <1>2, <1>3, <1>4, <1>5, <1>6, <1>7, <1>8, <1>9, <1>10, <1>11 DEF ResetStep

LEMMA PlanetInvStep ==
  ASSUME {"refull", "restate"} \subseteq Perilous
  PROVE  TypeInv /\ PlanetInv /\ [Next]_vars => PlanetInv'
<1> SUFFICES ASSUME TypeInv, PlanetInv, [Next]_vars PROVE PlanetInv'
  OBVIOUS
<1>0. TypeInv'
  BY TypeInvStep
<1>1. CASE Step
  BY <1>0, <1>1, PlanetInvLoopStep, PlanetInvApplyStep, PlanetInvImportStep,
     PlanetInvResetStep DEF Step
<1>2. CASE UNCHANGED vars
  BY <1>2, PlanetInvUnmoved DEF vars, planetVars, filteredVars, resetVars
<1> QED
  BY <1>0, <1>1, <1>2, PlanetInvWorld DEF Next

LEMMA PlanetInvHolds ==
  ASSUME {"refull", "restate"} \subseteq Perilous
  PROVE  Spec => [](TypeInv /\ PlanetInv)
BY TypeInvInit, TypeInvStep, PlanetInvInit, PlanetInvStep, PTL DEF Spec

(* The worker never resumes after a minute that the planet file lacks,     *)
(* whatever was killed but the two writes of the checkpoints of a new      *)
(* planet.                                                                 *)
THEOREM CheckpointIsCovered ==
  ASSUME {"refull", "restate"} \subseteq Perilous
  PROVE  Spec => []StateCovered
<1>1. TypeInv /\ PlanetInv => StateCovered
  BY DEF TypeInv, Shape, PlanetInv, Snapshots, Applied, HasUpto, StateCovered
<1> QED
  BY <1>1, PlanetInvHolds, PTL

LEMMA ClosedIsInterval ==
  ASSUME NEW n \in Nat, NEW S \in SUBSET (1..n), Closed(S)
  PROVE  S = 1..Cardinality(S)
<1> DEFINE T == {k \in Nat : k + 1 \notin S}
<1>1. T \in SUBSET Nat /\ T # {}
  <2>1. n \in T
    OBVIOUS
  <2> QED
    BY <2>1
<1> HIDE DEF T
<1>2. PICK k \in T : \A j \in T : ~(<<j, k>> \in OpToRel(<, Nat))
  BY <1>1, NatLessThanWellFounded, WFMin, Zenon
<1> USE DEF T
<1>3. 1..k \subseteq S
  <2>1. CASE k = 0
    BY <2>1
  <2>2. CASE k # 0
    <3>1. k - 1 \in Nat /\ k - 1 < k /\ k \in Nat
      BY <2>2
    <3>2. k - 1 \notin T
      BY <1>2, <3>1 DEF OpToRel
    <3>3. k \in S
      BY <3>1, <3>2
    <3> QED
      BY <3>3 DEF Closed
  <2> QED
    BY <2>1, <2>2
<1>4. ASSUME NEW m \in S PROVE m \in 1..k
  <2>1. m \in Nat /\ m > 0 /\ 1..m \subseteq S /\ k \in Nat /\ k + 1 \notin S
    BY DEF Closed
  <2> QED
    BY <2>1
<1>5. S = 1..k
  BY <1>3, <1>4
<1>6. Cardinality(1..k) = k
  BY FS_Interval
<1> QED
  BY <1>5, <1>6

(* The planet file has no gap: no file is applied out of order, whatever   *)
(* the cadences and whatever was killed.                                   *)
THEOREM PlanetHasNoGap ==
  ASSUME {"refull", "restate"} \subseteq Perilous
  PROVE  Spec => []NoGap
<1>1. TypeInv /\ PlanetInv => NoGap
  BY ClosedIsInterval, Bounds DEF TypeInv, TypeOK, PlanetInv, Applied, NoGap,
     Minutes
<1> QED
  BY <1>1, PlanetInvHolds, PTL

LEMMA OtherStepsKeepPlanet ==
  ASSUME [Next]_vars
  PROVE  ResumeApply \/ ReplacePlanet \/ NewPlanet \/ planet' = planet
<1> USE DEF planetVars
<1>1. CASE LoopStep
  BY <1>1 DEF LoopStep, Starts, RecoverPublishes, RecoverImports, FetchBatch,
     SwitchCadence, SaveState
<1>2. CASE ApplyStep
  BY <1>2 DEF ApplyStep, StartApply, JournalApplying, BuildStarts, BuildEnds,
     JournalBuilt, SaveFullState, JournalSwitched, DropJournal
<1>3. CASE ImportStep
  BY <1>3 DEF ImportStep, SkipRebuild, ExtractStarts, ExtractEnds, SelectSlot,
     MarkBuilding, WipeSlot, FillSlot, RecordCompletion, ClearBuilding,
     PublishReady
<1>4. CASE ResetStep
  BY <1>4 DEF ResetStep, ResetContinues, ResetClears, ResetNotes, ResetFilters,
     ResetImports, ResetImported, ResetSkipsImport, ResetSnapshot,
     ResetFullState, ResetState, ResetEnds
<1> QED
  BY <1>1, <1>2, <1>3, <1>4 DEF Next, Step, MinuteArrives, Activate, Retire,
     Killed, ImportFails, vars

(* Until the next snapshot nothing that was applied is lost again: neither *)
(* a stale journal nor a half-built file replaces the planet.              *)
THEOREM PlanetFileOnlyGrows ==
  ASSUME {"refull", "restate"} \subseteq Perilous
  PROVE  Spec => PlanetOnlyGrows
<1>1. ASSUME TypeInv, PlanetInv, [Next]_vars
      PROVE  planet.source = planet'.source =>
               planet.minutes \subseteq planet'.minutes
  <2>1. CASE ResumeApply
    <3>1. CASE journal.phase = "built" /\ Built # {}
      <4>1. PICK n \in Built : planet' = [planet EXCEPT !.minutes = n.minutes]
        BY <2>1, <3>1 DEF ResumeApply
      <4>2. planet'.minutes = n.minutes
        BY <1>1, <4>1 DEF TypeInv, TypeOK
      <4>3. Linked /\ journal # None /\ journal.batch = Batch
        BY <1>1, <2>1 DEF PlanetInv, Snapshots, OnBatch, Batching, ResumeApply,
           Resumable, Goto
      <4>4. planet.minutes \subseteq n.minutes
        BY <1>1, <3>1, <4>3, BatchFields DEF PlanetInv, Journaled, Built, NextPbf
      <4> QED
        BY <4>2, <4>4
    <3> QED
      BY <2>1, <3>1 DEF ResumeApply
  <2>2. CASE ReplacePlanet
    <3>1. PICK n \in Built : planet' = [planet EXCEPT !.minutes = n.minutes]
      BY <2>2 DEF ReplacePlanet
    <3>2. planet'.minutes = n.minutes
      BY <1>1, <3>1 DEF TypeInv, TypeOK
    <3>3. w.pc = "replace" /\ OnBatch
      BY <2>2 DEF ReplacePlanet, Goto, OnBatch, Batching, Building
    <3>4. /\ Linked /\ journal # None /\ journal.batch = Batch
          /\ journal.phase = "built"
      BY <1>1, <3>3 DEF TypeInv, Shape, PlanetInv, Snapshots, Builders
    <3>5. planet.minutes \subseteq n.minutes
      BY <1>1, <3>4, BatchFields DEF PlanetInv, Journaled, Built, NextPbf
    <3> QED
      BY <3>2, <3>5
  <2>3. CASE NewPlanet
    BY <1>1, <2>3 DEF NewPlanet, TypeInv, TypeOK
  <2> QED
    BY <1>1, <2>1, <2>2, <2>3, OtherStepsKeepPlanet
<1>2. TypeInv /\ PlanetInv /\ [Next]_vars =>
        [planet.source = planet'.source =>
           planet.minutes \subseteq planet'.minutes]_vars
  BY <1>1
<1> QED
  BY <1>2, PlanetInvHolds, PTL DEF PlanetOnlyGrows, Spec

-----------------------------------------------------------------------------
(* The batch at hand.                                                      *)

(* The batch at hand is what the planet file was last brought to, or is    *)
(* to be brought to next.                                                  *)
Batched ==
  /\ OnBatch => w.first <= w.last
  /\ \A a \in artifacts : a.batch.first <= a.batch.last
  /\ w.pc \in Building \union {"apply", "resumed"} =>
       w.last <= state.sequence + PrefetchFiles /\ w.last <= Latest(state.cadence)
  /\ OnBatch /\ w.pc \in {"mark switched", "drop", "extract", "extracting",
                          "select", "save"} \union Importing =>
       fullState = [cadence |-> state.cadence, sequence |-> w.last]
  /\ Linked /\ fullState # None /\ w.pc \notin {"refull", "restate"} =>
       /\ state # None
       /\ \/ Stamp(fullState.cadence, fullState.sequence) <= state.stamp
          \/ /\ fullState.cadence = state.cadence
             /\ fullState.sequence <= state.sequence + PrefetchFiles
             /\ fullState.sequence <= Latest(state.cadence)
  /\ w.pc = "restate" =>
       /\ fullState # None
       /\ Stamp(fullState.cadence, fullState.sequence) <= planet.stamp


LEMMA LatestKept ==
  ASSUME Step \/ Activate \/ (\E s \in Slots : Retire(s)) \/ NewPlanet
           \/ Killed \/ ImportFails \/ UNCHANGED vars
  PROVE  \A c : Latest(c)' = Latest(c)
<1> USE DEF upstreamVars
<1>1. CASE LoopStep
  BY <1>1 DEF LoopStep, Starts, RecoverPublishes, RecoverImports, FetchBatch,
     SwitchCadence, SaveState, Latest
<1>2. CASE ApplyStep
  BY <1>2 DEF ApplyStep, ResumeApply, StartApply, JournalApplying, BuildStarts,
     BuildEnds, JournalBuilt, ReplacePlanet, SaveFullState, JournalSwitched,
     DropJournal, Latest
<1>3. CASE ImportStep
  BY <1>3 DEF ImportStep, SkipRebuild, ExtractStarts, ExtractEnds, SelectSlot,
     MarkBuilding, WipeSlot, FillSlot, RecordCompletion, ClearBuilding,
     PublishReady, Latest
<1>4. CASE ResetStep
  BY <1>4 DEF ResetStep, ResetContinues, ResetClears, ResetNotes, ResetFilters,
     ResetImports, ResetImported, ResetSkipsImport, ResetSnapshot,
     ResetFullState, ResetState, ResetEnds, Latest
<1> QED
  BY <1>1, <1>2, <1>3, <1>4 DEF Step, Activate, Retire, NewPlanet, Killed,
     ImportFails, vars, Latest

LEMMA LatestGrows ==
  ASSUME TypeInv, MinuteArrives, NEW c \in Names
  PROVE  Latest(c) \in Nat /\ Latest(c)' \in Nat /\ Latest(c) <= Latest(c)'
<1>1. clock \in Nat /\ clock' = clock + 1 /\ clock + 1 \in Nat
  BY Typed DEF MinuteArrives
<1>2. /\ Latest(c) \in Nat /\ Stamp(c, Latest(c)) <= clock
  BY <1>1, LatestFacts
<1>3. /\ SequenceAfter(c, clock + 1) = Latest(c)' + 1
      /\ Latest(c)' \in Nat
  <2>1. Latest(c)' = (clock + 1) \div Span[c]
    BY <1>1 DEF Latest
  <2>2. (clock + 1) \div Span[c] \in Nat
    BY <1>1, FullPbfAssumption
  <2> QED
    BY <2>1, <2>2 DEF SequenceAfter
<1> DEFINE n == Latest(c)
           m == Latest(c)'
<1> HIDE DEF n, m
<1>4. n \in Nat /\ m \in Nat /\ Stamp(c, n) <= clock /\ clock + 1 < Stamp(c, m + 1)
  BY <1>1, <1>2, <1>3, SequenceFacts DEF n, m
<1>5. Stamp(c, n) \in Nat /\ Stamp(c, m + 1) \in Nat
  BY <1>4, StampFacts
<1>6. ~(Stamp(c, m + 1) <= Stamp(c, n))
  BY <1>1, <1>4, <1>5
<1>7. ~(m + 1 <= n)
  BY <1>4, <1>6, StampMonotone
<1> QED
  BY <1>4, <1>7 DEF n, m

(* Files that the planet file has are of batches up to the one at hand.    *)
LEMMA ContainsExactly ==
  ASSUME TypeInv, Checkpoints, Batched, w.pc = "loop", Linked,
         NEW last \in Nat, Contains(state.cadence, last), state.sequence < last,
         last \in {state.sequence + PrefetchFiles, Latest(state.cadence)}
  PROVE  fullState = [cadence |-> state.cadence, sequence |-> last]
<1>1. /\ state # None /\ fullState # None /\ fullState.cadence = state.cadence
      /\ last <= fullState.sequence /\ fullState \in FullState
      /\ state.cadence \in Names /\ state.sequence \in Nat
      /\ fullState.sequence \in Nat /\ state.stamp \in Nat
  BY Typed DEF TypeInv, Shape, Contains
<1>2. CASE Stamp(fullState.cadence, fullState.sequence) <= state.stamp
  <2>1. /\ Stamp(state.cadence, fullState.sequence) \in Nat
        /\ Stamp(state.cadence, state.sequence + 1) \in Nat
    BY <1>1, StampFacts
  <2>2. state.stamp < Stamp(state.cadence, state.sequence + 1)
    BY <1>1 DEF Checkpoints
  <2>3. ~(Stamp(state.cadence, state.sequence + 1)
            <= Stamp(state.cadence, fullState.sequence))
    BY <1>1, <1>2, <2>1, <2>2
  <2>4. ~(state.sequence + 1 <= fullState.sequence)
    BY <1>1, <2>3, StampMonotone
  <2> QED
    BY <1>1, <2>4
<1>3. CASE /\ fullState.sequence <= state.sequence + PrefetchFiles
           /\ fullState.sequence <= Latest(state.cadence)
  <2>1. Latest(state.cadence) \in Nat
    BY <1>1, Typed, LatestFacts
  <2>2. fullState.sequence = last
    BY <1>1, <1>3, <2>1, Bounds
  <2> QED
    BY <1>1, <2>2 DEF FullState
<1> QED
  BY <1>1, <1>2, <1>3 DEF Batched

(* A cadence is left only when the planet file has no more of it.          *)
LEMMA SwitchIsLate ==
  ASSUME TypeInv, Checkpoints, SwitchCadence, fullState # None,
         fullState.cadence = state.cadence,
         fullState.sequence <= Latest(state.cadence)
  PROVE  Stamp(fullState.cadence, fullState.sequence) <= state.stamp
<1>1. /\ state # None /\ state.cadence \in Names /\ state.sequence \in Nat
      /\ fullState.sequence \in Nat /\ state.stamp \in Nat /\ clock \in Nat
      /\ Latest(state.cadence) <= state.sequence
  BY Typed DEF SwitchCadence, TypeInv, Shape
<1>2. fullState.sequence <= state.sequence
  BY <1>1, LatestFacts
<1>3. /\ Stamp(state.cadence, fullState.sequence) \in Nat
      /\ Stamp(state.cadence, state.sequence) \in Nat
      /\ Stamp(state.cadence, fullState.sequence)
           <= Stamp(state.cadence, state.sequence)
  BY <1>1, <1>2, StampMonotone
<1> QED
  BY <1>1, <1>3 DEF Checkpoints

(* A pending artifact's batch is the planet file's.                        *)
LEMMA RecoversBatch ==
  ASSUME TypeInv, Batched, RecoverPublishes \/ RecoverImports
  PROVE  /\ w.pc = "loop" /\ fullState # None
         /\ fullState = [cadence |-> state.cadence, sequence |-> w'.last]
         /\ w'.first = state.sequence + 1 /\ w'.first <= w'.last
         /\ Batch' = [cadence |-> state.cadence, first |-> state.sequence + 1,
                      last |-> fullState.sequence]
         /\ Artifact' # {}
<1>1. w.pc = "loop" /\ UNCHANGED <<state, artifacts>>
  BY DEF RecoverPublishes, RecoverImports, filteredVars
<1>2. PICK a \in Pending : TRUE
  BY DEF RecoverPublishes, RecoverImports
<1>3. /\ w'.first = state.sequence + 1 /\ w'.last = fullState.sequence
      /\ fullState # None /\ fullState.cadence = state.cadence
  BY Recovers DEF Now
<1>4. fullState \in FullState
  BY <1>3, Typed
<1>5. /\ a \in artifacts
      /\ a.batch = [cadence |-> state.cadence, first |-> state.sequence + 1,
                    last |-> fullState.sequence]
  BY <1>2 DEF Pending
<1>6. a.batch.first <= a.batch.last
  BY <1>5 DEF Batched
<1>7. Batch' = a.batch
  BY <1>1, <1>3, <1>5 DEF Batch
<1>8. a \in Artifact'
  BY <1>1, <1>5, <1>7 DEF Artifact
<1> QED
  BY <1>1, <1>3, <1>4, <1>5, <1>6, <1>7, <1>8 DEF FullState

LEMMA BatchedMinute ==
  ASSUME TypeInv, Batched, MinuteArrives
  PROVE  Batched'
<1> USE DEF planetVars, filteredVars, resetVars, OnBatch, OnImport, Linked
<1>1. \A c \in Names :
        Latest(c) \in Nat /\ Latest(c)' \in Nat /\ Latest(c) <= Latest(c)'
  BY LatestGrows
<1>2. /\ OnBatch => state.cadence \in Names
      /\ state # None => state.cadence \in Names
      /\ fullState # None => fullState.sequence \in Nat
      /\ w.last \in Nat
  BY Typed DEF TypeInv, Shape
<1>3. w.pc \in Building \union {"apply", "resumed"} => OnBatch
  BY DEF Batching
<1>4. UNCHANGED <<planet, fullState, artifacts, snapshot, state, w>>
  BY DEF MinuteArrives
<1>5. ASSUME w.pc \in Building \union {"apply", "resumed"}
      PROVE  w.last <= Latest(state.cadence)'
  <2>1. w.last <= Latest(state.cadence) /\ state.cadence \in Names
    BY <1>2, <1>3, <1>5 DEF Batched
  <2> QED
    BY <1>1, <1>2, <1>4, <2>1
<1>6. ASSUME fullState # None, state # None, fullState.cadence = state.cadence,
             fullState.sequence <= Latest(state.cadence)
      PROVE  fullState.sequence <= Latest(state.cadence)'
  BY <1>1, <1>2, <1>4, <1>6
<1> QED
  BY <1>4, <1>5, <1>6 DEF Batched

LEMMA BatchedWorld ==
  ASSUME TypeInv, PlanetInv, Batched, {"refull", "restate"} \subseteq Perilous,
         Activate \/ (\E s \in Slots : Retire(s)) \/ NewPlanet \/ Killed
           \/ ImportFails
  PROVE  Batched'
<1> USE DEF upstreamVars, planetVars, filteredVars, resetVars, Batched, OnBatch,
        OnImport, Batching, Building, Importing, Linked, Batch, Artifact,
        Moved, Now, TypeInv, Shape, PlanetInv, Snapshots, Checkpoints
<1>0. \A c : Latest(c)' = Latest(c)
  BY LatestKept
<1>1. CASE Activate
  BY <1>0, <1>1 DEF Activate
<1>2. CASE \E s \in Slots : Retire(s)
  BY <1>0, <1>2 DEF Retire
<1>3. CASE NewPlanet
  BY <1>0, <1>3, NewPlanetFacts DEF NewPlanet
<1>4. CASE Killed
  BY <1>0, <1>4, StopControl DEF Killed
<1>5. CASE ImportFails
  BY <1>0, <1>5, StopControl DEF ImportFails
<1> QED
  BY <1>1, <1>2, <1>3, <1>4, <1>5

LEMMA BatchedLoopStep ==
  ASSUME TypeInv, PlanetInv, Batched,
         LoopStep
  PROVE  Batched'
<1> USE DEF upstreamVars, planetVars, filteredVars, resetVars, Batched, OnBatch,
        OnImport, Batching, Building, Importing, Linked, Batch, Artifact,
        Moved, Now, TypeInv, Shape, PlanetInv, Snapshots, Checkpoints
<1>0. \A c : Latest(c)' = Latest(c)
  BY LatestKept DEF Step
<1>1. CASE Starts
  BY <1>0, <1>1, LoopControl DEF Starts
<1>2. CASE RecoverPublishes
  BY <1>0, <1>2, Recovers, RecoversBatch DEF RecoverPublishes
<1>3. CASE RecoverImports
  BY <1>0, <1>3, Recovers, RecoversBatch DEF RecoverImports
<1>4. CASE FetchBatch
  <2>1. PICK last \in Nat :
          /\ Now("loop", IF Contains(state.cadence, last) THEN "extract"
                         ELSE "apply",
                 state.sequence + 1, last, w.slot, TRUE)
          /\ state # None /\ state.sequence \in Nat
          /\ state.sequence < last
          /\ last <= state.sequence + PrefetchFiles
          /\ last <= Latest(state.cadence)
          /\ last \in {state.sequence + PrefetchFiles, Latest(state.cadence)}
    BY <1>4, Fetches
  <2>2. Contains(state.cadence, last) =>
          fullState = [cadence |-> state.cadence, sequence |-> last]
    BY <2>1, ContainsExactly
  <2> QED
    BY <1>0, <1>4, <2>1, <2>2 DEF FetchBatch
<1>5. CASE SwitchCadence
  <2>1. w.pc = "loop" /\ UNCHANGED w /\ state' # None /\ state'.stamp = state.stamp
    BY <1>5, SwitchKeepsStamp DEF SwitchCadence
  <2>2. fullState # None =>
          Stamp(fullState.cadence, fullState.sequence) <= state.stamp
    BY <1>5, <2>1, SwitchIsLate
  <2> QED
    BY <1>0, <1>5, <2>1, <2>2 DEF SwitchCadence
<1>6. CASE SaveState
  <2>1. Moved("save", "loop")
    BY <1>6, LoopControl
  <2>2. /\ state' # None /\ state'.stamp = Stamp(state.cadence, w.last)
        /\ Stamp(state.cadence, w.last) \in Nat
    BY <1>6, SaveTyped, SaveCovers, FullPbfAssumption
  <2> QED
    BY <1>0, <1>6, <2>1, <2>2 DEF SaveState
<1> QED
  BY <1>1, <1>2, <1>3, <1>4, <1>5, <1>6 DEF LoopStep

LEMMA BatchedApplyStep ==
  ASSUME TypeInv, PlanetInv, Batched,
         ApplyStep
  PROVE  Batched'
<1> USE DEF upstreamVars, planetVars, filteredVars, resetVars, Batched, OnBatch,
        OnImport, Batching, Building, Importing, Linked, Batch, Artifact,
        Moved, Now, TypeInv, Shape, PlanetInv, Snapshots, Checkpoints
<1>0. \A c : Latest(c)' = Latest(c)
  BY LatestKept DEF Step
<1>1. CASE ResumeApply
  BY <1>0, <1>1, ApplyControl DEF ResumeApply
<1>2. CASE StartApply
  BY <1>0, <1>2, ApplyControl DEF StartApply
<1>3. CASE JournalApplying
  BY <1>0, <1>3, ApplyControl DEF JournalApplying
<1>4. CASE BuildStarts
  BY <1>0, <1>4, ApplyControl DEF BuildStarts
<1>5. CASE BuildEnds
  BY <1>0, <1>5, ApplyControl DEF BuildEnds
<1>6. CASE JournalBuilt
  BY <1>0, <1>6, ApplyControl DEF JournalBuilt
<1>7. CASE ReplacePlanet
  BY <1>0, <1>7, ApplyControl DEF ReplacePlanet
<1>8. CASE SaveFullState
  BY <1>0, <1>8, ApplyControl DEF SaveFullState
<1>9. CASE JournalSwitched
  BY <1>0, <1>9, ApplyControl DEF JournalSwitched
<1>10. CASE DropJournal
  BY <1>0, <1>10, ApplyControl DEF DropJournal
<1> QED
  BY <1>1, <1>2, <1>3, <1>4, <1>5, <1>6, <1>7, <1>8, <1>9, <1>10 DEF ApplyStep

LEMMA BatchedImportStep ==
  ASSUME TypeInv, PlanetInv, Batched,
         ImportStep
  PROVE  Batched'
<1> USE DEF upstreamVars, planetVars, filteredVars, resetVars, Batched, OnBatch,
        OnImport, Batching, Building, Importing, Linked, Batch, Artifact,
        Moved, Now, TypeInv, Shape, PlanetInv, Snapshots, Checkpoints
<1>0. \A c : Latest(c)' = Latest(c)
  BY LatestKept DEF Step
<1>1. CASE SkipRebuild
  BY <1>0, <1>1, ImportControl DEF SkipRebuild
<1>2. CASE ExtractStarts
  <2>1. Moved("extract", IF Artifact # {} THEN "select" ELSE "extracting")
    BY <1>2, ImportControl
  <2>2. \A a \in artifacts' : a.batch.first <= a.batch.last
    BY <1>2, <2>1 DEF ExtractStarts
  <2> QED
    BY <1>0, <1>2, <2>1, <2>2 DEF ExtractStarts
<1>3. CASE ExtractEnds
  <2>1. Moved("extracting", "select")
    BY <1>3, ImportControl
  <2>2. \A a \in artifacts' : a.batch.first <= a.batch.last
    BY <1>3, <2>1 DEF ExtractEnds
  <2> QED
    BY <1>0, <1>3, <2>1, <2>2 DEF ExtractEnds
<1>4. CASE SelectSlot
  BY <1>0, <1>4, ImportControl DEF SelectSlot
<1>5. CASE MarkBuilding
  BY <1>0, <1>5, ImportControl DEF MarkBuilding
<1>6. CASE WipeSlot
  BY <1>0, <1>6, ImportControl DEF WipeSlot
<1>7. CASE FillSlot
  BY <1>0, <1>7, ImportControl DEF FillSlot
<1>8. CASE RecordCompletion
  BY <1>0, <1>8, ImportControl DEF RecordCompletion
<1>9. CASE ClearBuilding
  BY <1>0, <1>9, ImportControl DEF ClearBuilding
<1>10. CASE PublishReady
  BY <1>0, <1>10, ImportControl DEF PublishReady
<1> QED
  BY <1>1, <1>2, <1>3, <1>4, <1>5, <1>6, <1>7, <1>8, <1>9, <1>10 DEF ImportStep

LEMMA BatchedResetStep ==
  ASSUME TypeInv, PlanetInv, Batched,
         ResetStep
  PROVE  Batched'
<1> USE DEF upstreamVars, planetVars, filteredVars, resetVars, Batched, OnBatch,
        OnImport, Batching, Building, Importing, Linked, Batch, Artifact,
        Moved, Now, TypeInv, Shape, PlanetInv, Snapshots, Checkpoints
<1>0. \A c : Latest(c)' = Latest(c)
  BY LatestKept DEF Step
<1>1. CASE ResetContinues
  BY <1>0, <1>1, ResetControl DEF ResetContinues
<1>2. CASE ResetClears
  BY <1>0, <1>2, ResetControl DEF ResetClears
<1>3. CASE ResetNotes
  BY <1>0, <1>3, ResetControl DEF ResetNotes
<1>4. CASE ResetFilters
  BY <1>0, <1>4, ResetControl DEF ResetFilters
<1>5. CASE ResetImports
  BY <1>0, <1>5, ResetControl DEF ResetImports
<1>6. CASE ResetImported
  BY <1>0, <1>6, ResetControl DEF ResetImported
<1>7. CASE ResetSkipsImport
  BY <1>0, <1>7, ResetControl DEF ResetSkipsImport
<1>8. CASE ResetSnapshot
  BY <1>0, <1>8, ResetControl DEF ResetSnapshot
<1>9. CASE ResetFullState
  <2>1. Moved("refull", "restate")
    BY <1>9, ResetControl
  <2>2. /\ fullState' = [cadence |-> Cadences[1],
                         sequence |-> InitState(planet.stamp).sequence]
        /\ Stamp(fullState'.cadence, fullState'.sequence) <= planet.stamp
    BY <1>9, InitStateTyped, Typed DEF ResetFullState
  <2>3. fullState' \in FullState
    BY <2>2, InitStateTyped, Typed DEF FullState
  <2> QED
    BY <1>0, <1>9, <2>1, <2>2, <2>3, FullPbfAssumption DEF ResetFullState
<1>10. CASE ResetState
  <2>1. Moved("restate", "forget")
    BY <1>10, ResetControl
  <2>2. state' # None /\ state'.stamp = planet.stamp
    BY <1>10, InitStateTyped, Typed, FullPbfAssumption DEF ResetState
  <2> QED
    BY <1>0, <1>10, <2>1, <2>2 DEF ResetState
<1>11. CASE ResetEnds
  BY <1>0, <1>11, ResetControl DEF ResetEnds
<1> QED
  BY <1>1, <1>2, <1>3, <1>4, <1>5, <1>6, <1>7, <1>8, <1>9, <1>10, <1>11 DEF ResetStep

LEMMA BatchedStep ==
  ASSUME {"refull", "restate"} \subseteq Perilous
  PROVE  TypeInv /\ PlanetInv /\ Batched /\ [Next]_vars => Batched'
<1> SUFFICES ASSUME TypeInv, PlanetInv, Batched, [Next]_vars PROVE Batched'
  OBVIOUS
<1>1. CASE Step
  BY <1>1, BatchedLoopStep, BatchedApplyStep, BatchedImportStep,
     BatchedResetStep DEF Step
<1>2. CASE UNCHANGED vars
  <2>1. \A c : Latest(c)' = Latest(c)
    BY <1>2, LatestKept
  <2> QED
    BY <1>2, <2>1 DEF vars, upstreamVars, planetVars, filteredVars, resetVars,
       Batched, OnBatch, Linked
<1> QED
  BY <1>1, <1>2, BatchedMinute, BatchedWorld DEF Next

-----------------------------------------------------------------------------
(* The slots.                                                              *)

(* The steps before which a kill loses something (the findings show how).  *)
Perils == {"extracting", "clear", "publish", "imported", "refull", "restate"}

(* Slot s has every tagged change up to minute t.                          *)
Good(s, t) ==
  /\ db[s] # None /\ db[s].whole
  /\ tagged \intersect 1..t \subseteq db[s].minutes

(* An extract is complete and holds the planet file up to its batch or     *)
(* snapshot.                                                               *)
Extracted ==
  /\ \A a \in artifacts :
       \/ w.pc = "extracting" /\ a.batch = Batch
       \/ a.whole /\ 1..Upto(a.batch) \subseteq a.minutes
  /\ \A i \in initial :
       /\ i.source <= planet.source
       /\ i.source = planet.source => 1..planet.stamp \subseteq i.minutes
  /\ OnBatch /\ w.pc \in {"select"} \union Importing => Artifact # {}

(* A slot that is ready can be activated, and one that is imported is not  *)
(* the active one nor ready.                                               *)
Marked ==
  /\ ready # None => building # ready /\ db[ready] # None
  /\ w.pc \in Importing => ready = None /\ w.slot # active
  /\ w.pc \in {"wipe", "fill", "complete", "clear"} => building = w.slot
  /\ w.pc = "publish" => building = None

(* What an import has filled, and what is published.                       *)
Filled ==
  /\ w.pc \in {"complete", "clear", "publish"} /\ w.batch =>
       Good(w.slot, Stamp(state.cadence, w.last))
  /\ w.pc \in {"clear", "publish"} /\ ~w.batch => Good(w.slot, planet.stamp)
Serving ==
  /\ Linked /\ w.pc \notin {"refull", "restate"} =>
       Good(Published, IF state = None THEN planet.stamp ELSE state.stamp)
  /\ w.pc = "save" => Good(Published, Stamp(state.cadence, w.last))
  /\ w.pc \in {"imported", "resnap", "refull", "restate"} =>
       Good(Published, planet.stamp)

(* The reset to a new planet knows how far it came.                        *)
Resetting ==
  /\ ResetMatches /\ ~Linked =>
       IF reset.imported
       THEN reset.slot = Published /\ Good(Published, planet.stamp)
       ELSE w.pc # "imported" => ready = None /\ reset.slot # active
  /\ w.pc = "note" => ready = None
  /\ w.pc \in {"refilter", "reimport"} =>
       IF reset.imported THEN w.slot = reset.slot ELSE w.slot # active
  /\ OnImport \/ w.pc = "imported" => reset.slot = w.slot /\ ~reset.imported
  /\ w.pc = "imported" => Published = w.slot
  /\ w.pc = "resnap" => reset.imported

(* The recorded import is one that the checkpoint has passed, or the one   *)
(* of the next batch, whose database is published or about to be.          *)
Past(b) == state # None /\ Upto(b) <= state.stamp
Current(b) ==
  /\ state # None /\ fullState # None
  /\ fullState.cadence = state.cadence
  /\ b = [cadence |-> state.cadence, first |-> state.sequence + 1,
          last |-> fullState.sequence]
  /\ \E a \in artifacts : a.batch = b
  /\ \/ w.pc \in {"clear", "publish"} /\ w.batch /\ completion.slot = w.slot
     \/ /\ w.pc \in {"down", "loop", "save"} /\ building = None
        /\ completion.slot = Published /\ Good(Published, Upto(b))
Recorded ==
  Linked /\ completion # None /\ w.pc \notin {"refull", "restate"} =>
    Past(completion.batch) \/ Current(completion.batch)

SlotInv == /\ Extracted /\ Marked /\ Filled /\ Serving /\ Resetting
           /\ Recorded
(* What a slot has of the minutes so far, it has when another one arrives. *)
LEMMA GoodStays ==
  ASSUME TypeInv, MinuteArrives, NEW s, NEW m \in Nat, m <= clock, Good(s, m)
  PROVE  Good(s, m)'
<1>1. /\ clock \in Nat /\ tagged' \subseteq tagged \union {clock + 1}
      /\ UNCHANGED db
  BY Typed DEF MinuteArrives
<1>2. tagged' \intersect 1..m \subseteq tagged \intersect 1..m
  BY <1>1
<1> QED
  BY <1>1, <1>2 DEF Good

LEMMA GoodEarlier ==
  ASSUME NEW s, NEW m \in Nat, NEW n \in Nat, m <= n, Good(s, n)
  PROVE  Good(s, m)
BY DEF Good

(* A batch without the tag leaves nothing to publish.                      *)
LEMMA SkipIsGood ==
  ASSUME TypeInv, PlanetInv, SkipRebuild, NEW s, Good(s, state.stamp)
  PROVE  Good(s, Stamp(state.cadence, w.last))
<1>0. w.pc = "extract" /\ OnBatch
  BY DEF SkipRebuild, Goto, OnBatch, Batching
<1>1. /\ state # None /\ w.first = state.sequence + 1 /\ w.first > 0
      /\ Stamp(state.cadence, state.sequence) <= state.stamp
  BY <1>0 DEF TypeInv, Shape, PlanetInv, Checkpoints
<1>2. /\ state.cadence \in Names /\ state.sequence \in Nat /\ w.last \in Nat
      /\ state.stamp \in Nat /\ w.first \in Nat /\ w.first - 1 = state.sequence
  BY <1>1, Typed
<1>3. /\ Stamp(state.cadence, state.sequence) \in Nat
      /\ Stamp(state.cadence, w.last) \in Nat
  BY <1>2, StampFacts
<1>4. Covered(state.cadence, w.first, w.last) =
        (Stamp(state.cadence, state.sequence) + 1)..Stamp(state.cadence, w.last)
  BY <1>1, <1>2, CoveredIs
<1>5. Covered(state.cadence, w.first, w.last) \intersect tagged = {}
  BY DEF SkipRebuild, IsTagged
<1>6. ASSUME NEW m \in tagged, m \in 1..Stamp(state.cadence, w.last)
      PROVE  m \in 1..state.stamp
  BY <1>1, <1>2, <1>3, <1>4, <1>5, <1>6
<1> QED
  BY <1>6 DEF Good

(* The batch at hand ends after the checkpoint.                            *)
LEMMA BatchIsLater ==
  ASSUME TypeInv, PlanetInv, Batched, OnBatch
  PROVE  /\ state # None /\ state.stamp \in Nat
         /\ Stamp(state.cadence, w.last) \in Nat
         /\ state.stamp < Stamp(state.cadence, w.last)
<1>1. /\ state # None /\ w.first = state.sequence + 1 /\ w.first <= w.last
      /\ state.stamp < Stamp(state.cadence, state.sequence + 1)
  BY DEF TypeInv, Shape, PlanetInv, Checkpoints, Batched
<1>2. /\ state.cadence \in Names /\ state.sequence \in Nat /\ w.last \in Nat
      /\ state.stamp \in Nat
  BY <1>1, Typed
<1>3. /\ Stamp(state.cadence, state.sequence + 1) \in Nat
      /\ Stamp(state.cadence, w.last) \in Nat
      /\ Stamp(state.cadence, state.sequence + 1) <= Stamp(state.cadence, w.last)
  BY <1>1, <1>2, StampMonotone
<1> QED
  BY <1>1, <1>2, <1>3

(* An import that is recorded for a pending artifact is published.         *)
LEMMA RecoveredIsPublished ==
  ASSUME TypeInv, PlanetInv, PlanetInv', Batched, SlotInv, RecoverPublishes
  PROVE  /\ ready' = Published /\ building = None
         /\ Good(Published, Stamp(state.cadence, w'.last))
<1>1. PICK a \in Pending : Completed(a) /\ ready' = completion.slot
  BY DEF RecoverPublishes
<1>2. /\ w.pc = "loop" /\ state # None /\ Linked /\ completion # None
      /\ a \in artifacts /\ completion.batch = a.batch
      /\ a.batch = [cadence |-> state.cadence, first |-> state.sequence + 1,
                    last |-> fullState.sequence]
  BY <1>1 DEF RecoverPublishes, TypeInv, Shape, PlanetInv, Snapshots, Completed,
              Pending
<1>3. Upto(completion.batch) = Stamp(state.cadence, w'.last)
  BY <1>2, Recovers DEF Upto, Now
<1>4. ~Past(completion.batch)
  <2>1. /\ state.cadence \in Names /\ state.sequence \in Nat
        /\ state.stamp \in Nat /\ fullState.sequence \in Nat
        /\ fullState # None
    BY <1>1, <1>2, Typed DEF Pending
  <2>2. state.sequence + 1 <= fullState.sequence
    BY <1>2 DEF Batched
  <2>3. /\ Stamp(state.cadence, state.sequence + 1) \in Nat
        /\ Stamp(state.cadence, fullState.sequence) \in Nat
        /\ Stamp(state.cadence, state.sequence + 1)
             <= Stamp(state.cadence, fullState.sequence)
    BY <2>1, <2>2, StampMonotone
  <2>4. state.stamp < Stamp(state.cadence, state.sequence + 1)
    BY <1>2 DEF PlanetInv, Checkpoints
  <2>5. Upto(completion.batch) = Stamp(state.cadence, fullState.sequence)
    BY <1>2 DEF Upto
  <2> QED
    BY <2>1, <2>3, <2>4, <2>5 DEF Past
<1>5. Current(completion.batch)
  BY <1>2, <1>4 DEF SlotInv, Recorded
<1> QED
  BY <1>1, <1>2, <1>3, <1>5 DEF Current

(* A recorded import that is not past belongs to the pending artifact.     *)
LEMMA CurrentIsPending ==
  ASSUME w.pc = "loop", Current(completion.batch), completion # None
  PROVE  Pending # {} /\ \A a \in Pending : Completed(a)
BY DEF Current, Pending, Completed, Good

(* What the checkpoint has passed it has still passed when it advances.    *)
LEMMA PastStays ==
  ASSUME TypeInv, TypeInv', state' # None, state # None,
         state.stamp <= state'.stamp, NEW b \in Batches, Past(b)
  PROVE  Past(b)'
<1>1. state.stamp \in Nat /\ state'.stamp \in Nat
  BY Bounds DEF TypeInv, TypeOK, State
<1>2. Upto(b) \in Nat
  BY StampFacts DEF Upto, Batches
<1> QED
  BY <1>1, <1>2 DEF Past, Upto

(* A checkpoint passes the import that is recorded for its batch.          *)
LEMMA SavePasses ==
  ASSUME TypeInv, TypeInv', PlanetInv, Batched, SlotInv, SaveState,
         completion # None
  PROVE  Past(completion.batch)'
<1>1. w.pc = "save" /\ OnBatch
  BY DEF SaveState, Goto, OnBatch
<1>2. /\ state # None /\ state' # None /\ state'.stamp \in Nat
      /\ state'.stamp = Stamp(state.cadence, w.last)
      /\ state.stamp <= state'.stamp
  BY <1>1, SaveTyped, BatchIsLater, FullPbfAssumption
<1>3. Past(completion.batch) \/ Current(completion.batch)
  BY <1>1 DEF PlanetInv, Snapshots, SlotInv, Recorded
<1>4. CASE Past(completion.batch)
  <2>1. completion.batch \in Batches /\ UNCHANGED completion
    BY DEF TypeInv, TypeOK, Completion, SaveState, filteredVars
  <2>2. PICK b \in Batches : b = completion.batch
    BY <2>1
  <2>3. Past(b)'
    BY <1>2, <1>4, <2>2, PastStays
  <2> QED
    BY <2>1, <2>2, <2>3 DEF Past, Upto
<1>5. CASE Current(completion.batch)
  <2>1. fullState = [cadence |-> state.cadence, sequence |-> w.last]
    BY <1>1 DEF Batched
  <2>2. Upto(completion.batch) = Stamp(state.cadence, w.last)
    BY <1>5, <2>1 DEF Current, Upto
  <2>3. UNCHANGED completion
    BY DEF SaveState, filteredVars
  <2> QED
    BY <1>2, <2>2, <2>3 DEF Past, Upto
<1> QED
  BY <1>3, <1>4, <1>5

LEMMA ExtractIsThere ==
  ASSUME TypeInv, ExtractEnds
  PROVE  Artifact' # {}
<1>1. Batch' = Batch
  BY ImportControl DEF ExtractEnds, Batch, Moved, Now
<1> DEFINE a == [batch |-> Batch, minutes |-> planet.minutes, whole |-> TRUE]
<1>2. a \in artifacts' /\ a.batch = Batch
  BY DEF ExtractEnds
<1> HIDE DEF a
<1> QED
  BY <1>1, <1>2 DEF Artifact

(* The slot is filled from a whole extract of what is imported.            *)
LEMMA FillsWhole ==
  ASSUME TypeInv, SlotInv, FillSlot
  PROVE  /\ w.batch => Good(w.slot, Stamp(state.cadence, w.last))'
         /\ ~w.batch => Good(w.slot, planet.stamp)'
         /\ db'[w.slot] # None
         /\ \A s : s # w.slot => db'[s] = db[s]
<1>1. /\ w.pc = "fill" /\ w.slot \in Slots /\ db \in [Slots -> Database \union {None}]
      /\ UNCHANGED <<tagged, planet, state>>
      /\ w'.slot = w.slot /\ w'.last = w.last
  BY ImportControl DEF FillSlot, Goto, TypeInv, TypeOK, Shape, Importing, Moved,
     Now, upstreamVars, planetVars
<1>2. PICK f \in IF w.batch THEN Artifact
                 ELSE {i \in initial : i.source = planet.source} :
        db' = [db EXCEPT ![w.slot] = [minutes |-> f.minutes, whole |-> f.whole]]
  BY DEF FillSlot
<1>3. w.batch => f.whole /\ 1..Stamp(state.cadence, w.last) \subseteq f.minutes
  BY <1>1, <1>2, BatchFields DEF SlotInv, Extracted, Artifact
<1>4. ~w.batch => f.whole /\ 1..planet.stamp \subseteq f.minutes
  BY <1>1, <1>2 DEF SlotInv, Extracted, TypeInv, TypeOK
<1>5. /\ db'[w.slot] = [minutes |-> f.minutes, whole |-> f.whole]
      /\ \A s : s # w.slot => db'[s] = db[s]
  BY <1>1, <1>2
<1>6. [minutes |-> f.minutes, whole |-> f.whole] \in Database
  BY <1>1, <1>2 DEF TypeInv, TypeOK, Database, Artifact
<1>7. db'[w.slot] # None
  BY <1>5, <1>6, FullPbfAssumption
<1> QED
  BY <1>1, <1>3, <1>4, <1>5, <1>7 DEF Good

(* What is recorded is the pending import.                                 *)
LEMMA RecordsCurrent ==
  ASSUME TypeInv, PlanetInv, Batched, SlotInv, RecordCompletion
  PROVE  completion' # None /\ Current(completion.batch)'
<1>1. /\ w.pc = "complete" /\ w.batch /\ OnBatch /\ state # None
      /\ w.first = state.sequence + 1
  BY DEF RecordCompletion, Goto, TypeInv, Shape, PlanetInv, Checkpoints, OnBatch,
         Importing
<1>2. fullState = [cadence |-> state.cadence, sequence |-> w.last]
  BY <1>1 DEF Batched, Importing
<1>3. /\ Moved("complete", "clear")
      /\ UNCHANGED <<state, fullState, artifacts>>
      /\ completion' = [batch |-> Batch, slot |-> w.slot]
  BY ImportControl DEF RecordCompletion, planetVars
<1>4. /\ completion'.batch = Batch /\ completion'.slot = w.slot
      /\ Batch = [cadence |-> state.cadence, first |-> state.sequence + 1,
                  last |-> fullState.sequence]
  BY <1>1, <1>2, <1>3 DEF Batch
<1>5. \E a \in artifacts : a.batch = Batch
  BY <1>1 DEF SlotInv, Extracted, Artifact, Importing
<1>6. fullState # None
  <2>1. state.cadence \in Names /\ w.last \in Nat
    BY <1>1, Typed
  <2> QED
    BY <1>2, <2>1, FullPbfAssumption DEF FullState
<1>7. completion' # None
  <2>1. Batch \in Batches /\ w.slot \in Slots
    BY <1>1, Typed DEF TypeInv, Shape, Importing
  <2> QED
    BY <1>3, <2>1, FullPbfAssumption DEF Completion
<1>8. w'.pc = "clear" /\ w'.batch /\ w'.slot = w.slot
  BY <1>1, <1>3 DEF Moved, Now
<1> QED
  BY <1>1, <1>2, <1>3, <1>4, <1>5, <1>6, <1>7, <1>8 DEF Current

LEMMA ResetStarts ==
  ASSUME TypeInv, ResetState
  PROVE  state' # None /\ state'.stamp = planet.stamp
BY InitStateTyped, Typed, FullPbfAssumption DEF ResetState

(* The extracts of earlier snapshots are not taken for a new one's.        *)
LEMMA NewPlanetIsLater ==
  ASSUME TypeInv, SlotInv, NewPlanet, NEW i \in initial
  PROVE  i.source <= planet'.source /\ i.source # planet'.source
<1>1. planet'.source = planet.source + 1
  BY DEF NewPlanet
<1>2. planet.source \in 0..MaxPlanets /\ i.source \in 0..MaxPlanets
  BY DEF TypeInv, TypeOK
<1>3. planet.source \in Nat /\ i.source \in Nat
  BY <1>2, Bounds
<1> QED
  BY <1>1, <1>3 DEF SlotInv, Extracted

LEMMA SlotLoopStep ==
  ASSUME TypeInv, TypeInv', PlanetInv, PlanetInv', Batched, Batched', SlotInv,
         LoopStep
  PROVE  SlotInv'
<1> USE DEF upstreamVars, planetVars, filteredVars, resetVars, markers, Slots,
            Moved, Now, TypeInv, Shape, PlanetInv, Snapshots, Checkpoints,
            Applied, HasUpto, SlotInv, Extracted, Marked, Filled, Serving,
            Resetting, Recorded, Past, Current, Good, Published, Inactive,
            Linked, ResetMatches, Upto, Batch, Artifact, OnBatch, OnImport,
            OnReset, Batching, Building, Importing, Perils
<1>1. CASE Starts
  <2>1. Moved("down", IF planet.source = snapshot THEN "loop" ELSE "reset")
    BY <1>1, LoopControl
  <2>2. state' = state \/ (state = None /\ state' # None
                              /\ state'.stamp = planet.stamp /\ Linked)
    BY <1>1, InitStateTyped, Typed, FullPbfAssumption DEF Starts
  <2>3. Serving'
    BY <1>1, <2>1, <2>2 DEF Starts
  <2>4. Recorded'
    BY <1>1, <2>1, <2>2 DEF Starts
  <2> QED
    BY <1>1, <2>1, <2>3, <2>4 DEF Starts
<1>2. CASE RecoverPublishes
  <2>1. /\ w.pc = "loop" /\ w'.pc = "save" /\ w'.slot = w.slot
        /\ w'.batch = w.batch /\ fullState # None
    BY <1>2, Recovers
  <2>2. /\ ready' = Published /\ building = None
        /\ Good(Published, Stamp(state.cadence, w'.last))
    BY <1>2, RecoveredIsPublished
  <2>3. Extracted' /\ Marked'
    BY <1>2, <2>1, <2>2 DEF RecoverPublishes
  <2>4. Filled' /\ Serving'
    BY <1>2, <2>1, <2>2 DEF RecoverPublishes
  <2>5. Resetting' /\ Recorded'
    BY <1>2, <2>1, <2>2 DEF RecoverPublishes
  <2> QED
    BY <2>3, <2>4, <2>5
<1>3. CASE RecoverImports
  <2>1. /\ w.pc = "loop" /\ w'.pc = "select" /\ w'.slot = w.slot
        /\ fullState # None
    BY <1>3, Recovers
  <2>2. Artifact' # {}
    BY <1>3, RecoversBatch
  <2>3. Extracted'
    BY <1>3, <2>1, <2>2 DEF RecoverImports
  <2>4. completion # None => ~Current(completion.batch)
    BY <1>3, CurrentIsPending DEF RecoverImports
  <2>5. Recorded'
    BY <1>3, <2>1, <2>4 DEF RecoverImports
  <2> QED
    BY <1>3, <2>1, <2>3, <2>5 DEF RecoverImports
<1>4. CASE FetchBatch
  <2>1. PICK last \in Nat, to \in {"extract", "apply"} :
          Now("loop", to, state.sequence + 1, last, w.slot, TRUE)
    BY <1>4, Fetches
  <2>2. completion # None => ~Current(completion.batch)
    BY <1>4, <2>1, CurrentIsPending DEF FetchBatch
  <2>3. Recorded'
    BY <1>4, <2>1, <2>2 DEF FetchBatch
  <2> QED
    BY <1>4, <2>1, <2>3 DEF FetchBatch
<1>5. CASE SwitchCadence
  <2>1. /\ w.pc = "loop" /\ UNCHANGED w /\ state # None /\ state' # None
        /\ state'.stamp = state.stamp
    BY <1>5, SwitchKeepsStamp DEF SwitchCadence
  <2>2. completion # None => ~Current(completion.batch)
    BY <1>5, <2>1, CurrentIsPending DEF SwitchCadence
  <2>3. Recorded'
    BY <1>5, <2>1, <2>2 DEF SwitchCadence
  <2>4. Serving'
    BY <1>5, <2>1 DEF SwitchCadence
  <2> QED
    BY <1>5, <2>1, <2>3, <2>4 DEF SwitchCadence
<1>6. CASE SaveState
  <2>1. Moved("save", "loop")
    BY <1>6, LoopControl
  <2>2. /\ state # None /\ state' # None
        /\ state'.stamp = Stamp(state.cadence, w.last)
        /\ state.stamp < state'.stamp /\ state.stamp \in Nat /\ state'.stamp \in Nat
    BY <1>6, <2>1, SaveTyped, BatchIsLater, FullPbfAssumption
  <2>3. Recorded'
    BY <1>6, <2>1, <2>2, SavePasses DEF SaveState
  <2>4. Serving'
    BY <1>6, <2>1, <2>2 DEF SaveState
  <2> QED
    BY <1>6, <2>1, <2>3, <2>4 DEF SaveState
<1> QED
  BY <1>1, <1>2, <1>3, <1>4, <1>5, <1>6 DEF LoopStep

LEMMA SlotApplyStep ==
  ASSUME TypeInv, TypeInv', PlanetInv, PlanetInv', Batched, Batched', SlotInv,
         ApplyStep
  PROVE  SlotInv'
<1> USE DEF upstreamVars, planetVars, filteredVars, resetVars, markers, Slots,
            Moved, Now, TypeInv, Shape, PlanetInv, Snapshots, Checkpoints,
            Applied, HasUpto, SlotInv, Extracted, Marked, Filled, Serving,
            Resetting, Recorded, Past, Current, Good, Published, Inactive,
            Linked, ResetMatches, Upto, Batch, Artifact, OnBatch, OnImport,
            OnReset, Batching, Building, Importing, Perils
<1>1. CASE ResumeApply
  <2>1. Moved("apply", "resumed")
    BY <1>1, ApplyControl
  <2>2. planet'.source = planet.source /\ planet'.stamp = planet.stamp
    BY <1>1 DEF ResumeApply, TypeOK
  <2>3. UNCHANGED <<upstreamVars, fullState, filteredVars, resetVars, state, db,
                    markers>>
    BY <1>1 DEF ResumeApply
  <2> QED
    BY <2>1, <2>2, <2>3
<1>2. CASE StartApply
  BY <1>2, ApplyControl DEF StartApply
<1>3. CASE JournalApplying
  BY <1>3, ApplyControl DEF JournalApplying
<1>4. CASE BuildStarts
  BY <1>4, ApplyControl DEF BuildStarts
<1>5. CASE BuildEnds
  BY <1>5, ApplyControl DEF BuildEnds
<1>6. CASE JournalBuilt
  BY <1>6, ApplyControl DEF JournalBuilt
<1>7. CASE ReplacePlanet
  <2>1. Moved("replace", "switch")
    BY <1>7, ApplyControl
  <2>2. planet'.source = planet.source /\ planet'.stamp = planet.stamp
    BY <1>7 DEF ReplacePlanet, TypeOK
  <2>3. UNCHANGED <<upstreamVars, fullState, filteredVars, resetVars, state, db,
                    markers>>
    BY <1>7 DEF ReplacePlanet
  <2> QED
    BY <2>1, <2>2, <2>3
<1>8. CASE SaveFullState
  BY <1>8, ApplyControl DEF SaveFullState
<1>9. CASE JournalSwitched
  BY <1>9, ApplyControl DEF JournalSwitched
<1>10. CASE DropJournal
  BY <1>10, ApplyControl DEF DropJournal
<1> QED
  BY <1>1, <1>2, <1>3, <1>4, <1>5, <1>6, <1>7, <1>8, <1>9, <1>10 DEF ApplyStep

LEMMA SlotImportStep ==
  ASSUME TypeInv, TypeInv', PlanetInv, PlanetInv', Batched, Batched', SlotInv,
         ImportStep
  PROVE  SlotInv'
<1> USE DEF upstreamVars, planetVars, filteredVars, resetVars, markers, Slots,
            Moved, Now, TypeInv, Shape, PlanetInv, Snapshots, Checkpoints,
            Applied, HasUpto, SlotInv, Extracted, Marked, Filled, Serving,
            Resetting, Recorded, Past, Current, Good, Published, Inactive,
            Linked, ResetMatches, Upto, Batch, Artifact, OnBatch, OnImport,
            OnReset, Batching, Building, Importing, Perils
<1>1. CASE SkipRebuild
  <2>1. Moved("extract", "save")
    BY <1>1, ImportControl
  <2>2. Linked /\ state # None /\ Good(Published, state.stamp)
    BY <2>1
  <2>3. Good(Published, Stamp(state.cadence, w.last))
    BY <1>1, <2>2, SkipIsGood
  <2>4. Serving'
    BY <1>1, <2>1, <2>3 DEF SkipRebuild
  <2> QED
    BY <1>1, <2>1, <2>4 DEF SkipRebuild
<1>2. CASE ExtractStarts
  <2>1. Moved("extract", IF Artifact # {} THEN "select" ELSE "extracting")
    BY <1>2, ImportControl
  <2>2. Extracted'
    BY <1>2, <2>1 DEF ExtractStarts
  <2>3. Recorded'
    BY <1>2, <2>1 DEF ExtractStarts
  <2> QED
    BY <1>2, <2>1, <2>2, <2>3 DEF ExtractStarts
<1>3. CASE ExtractEnds
  <2>1. Moved("extracting", "select")
    BY <1>3, ImportControl
  <2>2. 1..Upto(Batch) \subseteq planet.minutes
    BY <2>1
  <2>3. artifacts' = (artifacts \ Artifact) \union
          {[batch |-> Batch, minutes |-> planet.minutes, whole |-> TRUE]}
    BY <1>3 DEF ExtractEnds
  <2>4. \A a \in artifacts' : a.whole /\ 1..Upto(a.batch) \subseteq a.minutes
    BY <2>1, <2>2, <2>3
  <2>5. Artifact' # {} /\ UNCHANGED <<initial, planet>>
    BY <1>3, ExtractIsThere DEF ExtractEnds
  <2>7. Extracted'
    BY <2>4, <2>5
  <2>6. Recorded'
    BY <1>3, <2>1 DEF ExtractEnds
  <2> QED
    BY <1>3, <2>1, <2>6, <2>7 DEF ExtractEnds
<1>4. CASE SelectSlot
  <2>1. Now("select", "mark", w.first, w.last, Inactive, w.batch)
    BY <1>4, ImportControl
  <2>2. ready = None
    BY <1>4 DEF SelectSlot, CutoverDue
  <2> QED
    BY <1>4, <2>1, <2>2 DEF SelectSlot
<1>5. CASE MarkBuilding
  BY <1>5, ImportControl DEF MarkBuilding
<1>6. CASE WipeSlot
  <2>1. Moved("wipe", "fill")
    BY <1>6, ImportControl
  <2>2. \A s : s # w.slot => db'[s] = db[s]
    BY <1>6, <2>1 DEF WipeSlot, TypeOK
  <2> QED
    BY <1>6, <2>1, <2>2 DEF WipeSlot
<1>7. CASE FillSlot
  <2>1. Moved("fill", IF w.batch THEN "complete" ELSE "clear")
    BY <1>7, ImportControl
  <2>2. /\ w.batch => Good(w.slot, Stamp(state.cadence, w.last))'
        /\ ~w.batch => Good(w.slot, planet.stamp)'
        /\ db'[w.slot] # None /\ \A s : s # w.slot => db'[s] = db[s]
    BY <1>7, FillsWhole
  <2>3. Filled'
    BY <1>7, <2>1, <2>2 DEF FillSlot
  <2> QED
    BY <1>7, <2>1, <2>2, <2>3 DEF FillSlot
<1>8. CASE RecordCompletion
  <2>1. Moved("complete", "clear")
    BY <1>8, ImportControl
  <2>2. Recorded'
    BY <1>8, RecordsCurrent
  <2> QED
    BY <1>8, <2>1, <2>2 DEF RecordCompletion
<1>9. CASE ClearBuilding
  BY <1>9, ImportControl, ZenonT(60) DEF ClearBuilding
<1>10. CASE PublishReady
  <2>1. Moved("publish", IF w.batch THEN "save" ELSE "imported")
    BY <1>10, ImportControl
  <2>2. Published' = w.slot /\ w.slot \in Slots
    BY <1>10, <2>1, FullPbfAssumption DEF PublishReady
  <2>3. CASE w.batch
    <3>1. /\ Linked /\ state # None
          /\ fullState = [cadence |-> state.cadence, sequence |-> w.last]
          /\ Good(w.slot, Stamp(state.cadence, w.last))
      BY <2>1, <2>3 DEF Batched
    <3>2. Good(w.slot, state.stamp)
      BY <2>1, <2>3, <3>1, BatchIsLater, GoodEarlier
    <3>3. Serving'
      BY <1>10, <2>1, <2>2, <2>3, <3>1, <3>2 DEF PublishReady
    <3>4. Recorded'
      BY <1>10, <2>1, <2>2, <2>3, <3>1 DEF PublishReady
    <3>5. Resetting'
      BY <1>10, <2>1, <2>2, <2>3, <3>1 DEF PublishReady
    <3> QED
      BY <1>10, <2>1, <2>3, <3>3, <3>4, <3>5 DEF PublishReady
  <2>4. CASE ~w.batch
    <3>1. ~Linked /\ Good(w.slot, planet.stamp)
      BY <2>1, <2>4
    <3>2. Serving' /\ Recorded'
      BY <1>10, <2>1, <2>2, <2>4, <3>1 DEF PublishReady
    <3>3. Resetting'
      BY <1>10, <2>1, <2>2, <2>4, <3>1 DEF PublishReady
    <3> QED
      BY <1>10, <2>1, <2>4, <3>2, <3>3 DEF PublishReady
  <2> QED
    BY <2>3, <2>4
<1> QED
  BY <1>1, <1>2, <1>3, <1>4, <1>5, <1>6, <1>7, <1>8, <1>9, <1>10 DEF ImportStep

LEMMA SlotResetStep ==
  ASSUME TypeInv, TypeInv', PlanetInv, PlanetInv', Batched, Batched', SlotInv,
         ResetStep
  PROVE  SlotInv'
<1> USE DEF upstreamVars, planetVars, filteredVars, resetVars, markers, Slots,
            Moved, Now, TypeInv, Shape, PlanetInv, Snapshots, Checkpoints,
            Applied, HasUpto, SlotInv, Extracted, Marked, Filled, Serving,
            Resetting, Recorded, Past, Current, Good, Published, Inactive,
            Linked, ResetMatches, Upto, Batch, Artifact, OnBatch, OnImport,
            OnReset, Batching, Building, Importing, Perils
<1>1. CASE ResetContinues
  <2>1. PICK slot \in Slots :
          /\ slot = IF reset.slot # None THEN reset.slot ELSE Inactive
          /\ Now("reset", "refilter", w.first, w.last, slot, w.batch)
    BY <1>1, ResetControl
  <2>2. ResetMatches /\ ~Linked
    BY <1>1, <2>1 DEF ResetContinues
  <2>3. /\ reset.imported => slot = reset.slot
        /\ ~reset.imported => slot # active
    BY <2>1, <2>2, FullPbfAssumption DEF TypeOK
  <2>4. Resetting'
    BY <1>1, <2>1, <2>2, <2>3 DEF ResetContinues
  <2> QED
    BY <1>1, <2>1, <2>4 DEF ResetContinues
<1>2. CASE ResetClears
  BY <1>2, ResetControl DEF ResetClears
<1>3. CASE ResetNotes
  <2>1. Now("note", "refilter", w.first, w.last, Inactive, w.batch)
    BY <1>3, ResetControl
  <2>2. /\ reset'.slot = None /\ ~reset'.imported /\ active \in Slots
        /\ active # None /\ Inactive # active
    BY <1>3, FullPbfAssumption DEF ResetNotes, TypeOK
  <2>3. Resetting'
    BY <1>3, <2>1, <2>2 DEF ResetNotes
  <2> QED
    BY <1>3, <2>1, <2>3 DEF ResetNotes
<1>4. CASE ResetFilters
  <2>1. Moved("refilter", "reimport")
    BY <1>4, ResetControl
  <2>2. Extracted'
    BY <1>4, <2>1 DEF ResetFilters
  <2> QED
    BY <1>4, <2>1, <2>2 DEF ResetFilters
<1>5. CASE ResetImports
  BY <1>5, ResetControl DEF ResetImports
<1>6. CASE ResetImported
  <2>1. Moved("imported", "resnap")
    BY <1>6, ResetControl
  <2>2. /\ reset'.source = reset.source /\ reset'.slot = reset.slot
        /\ reset'.imported
    BY <1>6, <2>1 DEF ResetImported, TypeOK, Reset
  <2> QED
    BY <1>6, <2>1, <2>2 DEF ResetImported
<1>7. CASE ResetSkipsImport
  BY <1>7, ResetControl DEF ResetSkipsImport
<1>8. CASE ResetSnapshot
  BY <1>8, ResetControl DEF ResetSnapshot
<1>9. CASE ResetFullState
  BY <1>9, ResetControl DEF ResetFullState
<1>10. CASE ResetState
  <2>1. Moved("restate", "forget")
    BY <1>10, ResetControl
  <2>2. state' # None /\ state'.stamp = planet.stamp
    BY <1>10, ResetStarts
  <2>3. Serving'
    BY <1>10, <2>1, <2>2 DEF ResetState
  <2>4. Recorded'
    BY <1>10, <2>1 DEF ResetState, Cleared
  <2> QED
    BY <1>10, <2>1, <2>3, <2>4 DEF ResetState
<1>11. CASE ResetEnds
  BY <1>11, ResetControl DEF ResetEnds
<1> QED
  BY <1>1, <1>2, <1>3, <1>4, <1>5, <1>6, <1>7, <1>8, <1>9, <1>10, <1>11 DEF ResetStep

LEMMA SlotWorld ==
  ASSUME TypeInv, TypeInv', PlanetInv, PlanetInv', Batched, Batched', SlotInv,
         Perils \subseteq Perilous,
         Activate \/ NewPlanet \/ Killed \/ ImportFails
  PROVE  SlotInv'
<1> USE DEF upstreamVars, planetVars, filteredVars, resetVars, markers, Slots,
            Moved, Now, TypeInv, Shape, PlanetInv, Snapshots, Checkpoints,
            Applied, HasUpto, SlotInv, Extracted, Marked, Filled, Serving,
            Resetting, Recorded, Past, Current, Good, Published, Inactive,
            Linked, ResetMatches, Upto, Batch, Artifact, OnBatch, OnImport,
            OnReset, Batching, Building, Importing, Perils
<1>1. CASE Activate
  <2>1. UNCHANGED w /\ ready # None /\ active' = ready /\ ready' = None
    BY <1>1 DEF Activate, CutoverDue
  <2>2. Resetting'
    BY <1>1, <2>1 DEF Activate
  <2>3. Recorded' /\ Serving'
    BY <1>1, <2>1 DEF Activate
  <2> QED
    BY <1>1, <2>1, <2>2, <2>3 DEF Activate
<1>2. CASE NewPlanet
  <2>1. w.pc = "down" /\ UNCHANGED w /\ ~Linked' /\ ~ResetMatches'
    BY <1>2, NewPlanetFacts DEF NewPlanet
  <2>2. \A i \in initial :
          i.source <= planet'.source /\ i.source # planet'.source
    BY <1>2, NewPlanetIsLater
  <2>4. Extracted'
    BY <1>2, <2>1, <2>2 DEF NewPlanet
  <2> QED
    BY <1>2, <2>1, <2>4 DEF NewPlanet
<1>3. CASE Killed
  <2>1. Moved(w.pc, "down") /\ w.pc \notin Perils
    BY <1>3, StopControl DEF Killed
  <2> QED
    BY <1>3, <2>1, ZenonT(60) DEF Killed
<1>4. CASE ImportFails
  BY <1>4, StopControl DEF ImportFails
<1> QED
  BY <1>1, <1>2, <1>3, <1>4

(* A minute that arrives is later than whatever a slot has to have.        *)
LEMMA SlotMinute ==
  ASSUME TypeInv, SlotInv, MinuteArrives
  PROVE  SlotInv'
<1> USE DEF OnBatch, OnImport, Linked, ResetMatches, Upto, Batch, Artifact,
            Published
<1>1. \A s, m : m \in Nat /\ m <= clock /\ Good(s, m) => Good(s, m)'
  BY GoodStays
<1>2. UNCHANGED <<planet, fullState, artifacts, initial, completion, snapshot,
                  reset, state, db, active, ready, building, w>>
  BY DEF MinuteArrives, planetVars, filteredVars, resetVars, markers
<1>3. /\ state # None => state.stamp \in Nat /\ state.stamp <= clock
      /\ planet.stamp \in Nat /\ planet.stamp <= clock
      /\ fullState # None =>
           /\ Stamp(fullState.cadence, fullState.sequence) \in Nat
           /\ Stamp(fullState.cadence, fullState.sequence) <= clock
      /\ OnBatch => /\ Stamp(state.cadence, w.last) \in Nat
                    /\ Stamp(state.cadence, w.last) <= clock
  <2>1. state # None => state.stamp \in Nat
    BY Typed
  <2>2. planet.stamp \in Nat
    BY Typed
  <2>3. OnBatch => state.cadence \in Names /\ w.last \in Nat
    BY Typed DEF TypeInv, Shape
  <2> QED
    BY <2>1, <2>2, <2>3, Typed, StampFacts DEF TypeInv, Upstream
<1>4. Extracted' /\ Marked'
  BY <1>2 DEF SlotInv, Extracted, Marked
<1>5. Filled'
  BY <1>1, <1>2, <1>3 DEF SlotInv, Filled, Importing
<1>6. Serving'
  BY <1>1, <1>2, <1>3 DEF SlotInv, Serving, Batching
<1>7. Resetting'
  BY <1>1, <1>2, <1>3 DEF SlotInv, Resetting
<1>8. \A b : b = completion.batch /\ Current(b) => Current(b)'
  BY <1>1, <1>2, <1>3 DEF Current
<1>9. Recorded'
  BY <1>2, <1>8 DEF SlotInv, Recorded, Past
<1> QED
  BY <1>4, <1>5, <1>6, <1>7, <1>9 DEF SlotInv

(* A slot that is retired is neither served nor being filled.              *)
LEMMA SlotRetire ==
  ASSUME TypeInv, SlotInv, NEW s \in Slots, Retire(s)
  PROVE  SlotInv'
<1> USE DEF OnBatch, OnImport, Linked, ResetMatches, Upto, Batch, Artifact
<1>1. /\ s \notin {active, ready, building} /\ s # Published
      /\ ~(w.pc = "publish" /\ w.slot = s)
  BY DEF Retire, Published
<1>2. UNCHANGED <<tagged, planet, fullState, artifacts, initial, completion,
                  snapshot, reset, state, active, ready, building, w>>
  BY DEF Retire, upstreamVars, planetVars, filteredVars, resetVars, markers
<1>3. \A r : r # s => db'[r] = db[r]
  BY DEF Retire, TypeInv, TypeOK
<1>4. \A r, m : r # s /\ Good(r, m) => Good(r, m)'
  BY <1>2, <1>3 DEF Good
<1>5. Published' = Published
  BY <1>2 DEF Published
<1>6. Extracted' /\ Marked'
  BY <1>1, <1>2, <1>3 DEF SlotInv, Extracted, Marked
<1>7. Filled'
  BY <1>1, <1>2, <1>4 DEF SlotInv, Marked, Filled
<1>8. Serving'
  BY <1>1, <1>2, <1>4, <1>5 DEF SlotInv, Serving
<1>9. Resetting'
  BY <1>1, <1>2, <1>4, <1>5 DEF SlotInv, Resetting
<1>10. \A b : b = completion.batch /\ Current(b) => Current(b)'
  BY <1>1, <1>2, <1>4, <1>5 DEF Current
<1>11. Recorded'
  BY <1>2, <1>10 DEF SlotInv, Recorded, Past
<1> QED
  BY <1>6, <1>7, <1>8, <1>9, <1>11 DEF SlotInv

LEMMA SlotInvInit == Init => SlotInv
<1> SUFFICES ASSUME Init PROVE SlotInv
  OBVIOUS
<1>1. planet.stamp = clock /\ planet.source = 0 /\ planet.minutes = 1..clock
  BY DEF Init
<1>2. db["blue"] = [minutes |-> 1..clock, whole |-> TRUE] /\ db["blue"] # None
  <2>1. db["blue"] = [minutes |-> 1..clock, whole |-> TRUE]
    BY DEF Init, Slots
  <2>2. 1..clock \subseteq Minutes
    BY Bounds DEF Init, Minutes
  <2>3. [minutes |-> 1..clock, whole |-> TRUE] \in Database
    BY <2>2 DEF Database
  <2> QED
    BY <2>1, <2>3, FullPbfAssumption
<1>3. Published = "blue"
  BY FullPbfAssumption DEF Init, Published
<1> QED
  BY <1>1, <1>2, <1>3 DEF Init, SlotInv, Extracted, Marked, Filled, Serving,
     Resetting, Recorded, Good, Linked, ResetMatches, OnBatch, OnImport,
     Batching, Building, Importing

LEMMA BatchedInit == Init => Batched
BY DEF Init, Batched, OnBatch, Linked, Batching, Building, Importing

LEMMA SlotInvStep ==
  ASSUME Perils \subseteq Perilous
  PROVE  TypeInv /\ PlanetInv /\ Batched /\ SlotInv /\ [Next]_vars => SlotInv'
<1> SUFFICES ASSUME TypeInv, PlanetInv, Batched, SlotInv, [Next]_vars
             PROVE  SlotInv'
  OBVIOUS
<1>0. TypeInv' /\ PlanetInv' /\ Batched'
  <2>1. {"refull", "restate"} \subseteq Perilous
    BY DEF Perils
  <2> QED
    BY <2>1, TypeInvStep, PlanetInvStep, BatchedStep
<1>1. CASE Step
  BY <1>0, <1>1, SlotLoopStep, SlotApplyStep, SlotImportStep, SlotResetStep
     DEF Step
<1>2. CASE UNCHANGED vars
  BY <1>2 DEF vars, upstreamVars, planetVars, filteredVars, resetVars, markers,
     SlotInv, Extracted, Marked, Filled, Serving, Resetting, Recorded, Past,
     Current, Good, Published, Linked, ResetMatches, Upto, Batch, Artifact,
     OnBatch, OnImport
<1> QED
  BY <1>0, <1>1, <1>2, SlotMinute, SlotRetire, SlotWorld DEF Next

LEMMA SlotInvHolds ==
  ASSUME Perils \subseteq Perilous
  PROVE  Spec => [](TypeInv /\ PlanetInv /\ Batched /\ SlotInv)
<1>1. {"refull", "restate"} \subseteq Perilous
  BY DEF Perils
<1> QED
  BY <1>1, TypeInvInit, TypeInvStep, PlanetInvInit, PlanetInvStep, BatchedInit,
     BatchedStep, SlotInvInit, SlotInvStep, PTL DEF Spec

(* An import never touches the active slot's database, if only the steps   *)
(* of Perils are not interrupted.                                          *)
THEOREM ImportNeverTouchesActive ==
  ASSUME Perils \subseteq Perilous
  PROVE  Spec => []ImportSparesActive
<1>1. SlotInv => ImportSparesActive
  BY DEF SlotInv, Marked, Importing, ImportSparesActive
<1> QED
  BY <1>1, SlotInvHolds, PTL

(* Whatever tagged change the worker has left behind is in the database    *)
(* that is or will be served.                                              *)
THEOREM TaggedIsPublished ==
  ASSUME Perils \subseteq Perilous
  PROVE  Spec => []TaggedPublished
<1>1. TypeInv /\ PlanetInv /\ SlotInv => TaggedPublished
  BY DEF TypeInv, Shape, PlanetInv, Snapshots, SlotInv, Serving, Good,
     TaggedPublished
<1> QED
  BY <1>1, SlotInvHolds, PTL

LEMMA OtherStepsKeepReady ==
  ASSUME [Next]_vars, ready' \notin {None, ready}
  PROVE  PublishReady \/ RecoverPublishes
<1> USE DEF markers
<1>1. CASE LoopStep
  BY <1>1 DEF LoopStep, Starts, RecoverImports, FetchBatch, SwitchCadence,
     SaveState
<1>2. CASE ApplyStep
  BY <1>2 DEF ApplyStep, ResumeApply, StartApply, JournalApplying, BuildStarts,
     BuildEnds, JournalBuilt, ReplacePlanet, SaveFullState, JournalSwitched,
     DropJournal
<1>3. CASE ImportStep
  BY <1>3 DEF ImportStep, SkipRebuild, ExtractStarts, ExtractEnds, SelectSlot,
     MarkBuilding, WipeSlot, FillSlot, RecordCompletion, ClearBuilding
<1>4. CASE ResetStep
  BY <1>4 DEF ResetStep, ResetContinues, ResetClears, ResetNotes, ResetFilters,
     ResetImports, ResetImported, ResetSkipsImport, ResetSnapshot,
     ResetFullState, ResetState, ResetEnds
<1> QED
  BY <1>1, <1>2, <1>3, <1>4 DEF Next, Step, MinuteArrives, Activate, Retire,
     NewPlanet, Killed, ImportFails, vars

(* Only an import, or the removal of a slot that nobody claims, changes a  *)
(* database.                                                               *)
LEMMA OnlyImportsChange ==
  ASSUME TypeInv, [Next]_vars, w.pc \notin Importing, ready # None
  PROVE  db'[ready] = db[ready]
<1> USE DEF Importing
<1>1. CASE LoopStep
  BY <1>1 DEF LoopStep, Starts, RecoverPublishes, RecoverImports, FetchBatch,
     SwitchCadence, SaveState
<1>2. CASE ApplyStep
  BY <1>2 DEF ApplyStep, ResumeApply, StartApply, JournalApplying, BuildStarts,
     BuildEnds, JournalBuilt, ReplacePlanet, SaveFullState, JournalSwitched,
     DropJournal
<1>3. CASE ImportStep
  BY <1>3 DEF ImportStep, SkipRebuild, ExtractStarts, ExtractEnds, SelectSlot,
     MarkBuilding, WipeSlot, FillSlot, RecordCompletion, ClearBuilding,
     PublishReady, Goto
<1>4. CASE ResetStep
  BY <1>4 DEF ResetStep, ResetContinues, ResetClears, ResetNotes, ResetFilters,
     ResetImports, ResetImported, ResetSkipsImport, ResetSnapshot,
     ResetFullState, ResetState, ResetEnds
<1>5. ASSUME NEW s \in Slots, Retire(s) PROVE db'[ready] = db[ready]
  BY <1>5 DEF Retire, TypeInv, TypeOK
<1> QED
  BY <1>1, <1>2, <1>3, <1>4, <1>5 DEF Next, Step, MinuteArrives, Activate,
     NewPlanet, Killed, ImportFails, vars

(* A slot that is ready is complete, before and during a reset too, when   *)
(* Serving says nothing of it.                                             *)
ReadyWhole == ready # None => db[ready] # None /\ db[ready].whole

LEMMA ReadyWholeStep ==
  ASSUME TypeInv, TypeInv', PlanetInv, PlanetInv', Batched, SlotInv,
         ReadyWhole, [Next]_vars
  PROVE  ReadyWhole'
<1>1. CASE ready' \notin {None, ready}
  <2>1. CASE PublishReady
    <3>1. w.pc = "publish" /\ ready' = w.slot /\ UNCHANGED db
      BY <2>1 DEF PublishReady, Goto
    <3> QED
      BY <3>1 DEF SlotInv, Filled, Good, ReadyWhole
  <2>2. CASE RecoverPublishes
    <3>1. ready' = Published /\ Good(ready', Stamp(state.cadence, w'.last))
      BY <2>2, RecoveredIsPublished
    <3>2. UNCHANGED db
      BY <2>2 DEF RecoverPublishes
    <3> QED
      BY <3>1, <3>2 DEF Good, ReadyWhole
  <2> QED
    BY <1>1, <2>1, <2>2, OtherStepsKeepReady
<1>2. CASE ready' = ready /\ ready # None
  <2>1. w.pc \notin Importing
    BY <1>2 DEF SlotInv, Marked
  <2>2. db'[ready] = db[ready]
    BY <1>2, <2>1, OnlyImportsChange
  <2> QED
    BY <1>2, <2>2 DEF ReadyWhole
<1>3. CASE ready' = None
  BY <1>3 DEF ReadyWhole
<1> QED
  BY <1>1, <1>2, <1>3

(* Whenever a pod cuts over it cuts over to a complete database, which has *)
(* every tagged change that the worker has left behind unless a reset is   *)
(* on its way.                                                             *)
THEOREM CutoverIsComplete ==
  ASSUME Perils \subseteq Perilous
  PROVE  Spec => []CutoverComplete
<1>1. Init => ReadyWhole
  BY DEF Init, ReadyWhole
<1>2. ReadyWhole /\ SlotInv => CutoverComplete
  BY DEF ReadyWhole, SlotInv, Serving, Good, Published, Linked,
         CutoverComplete, CutoverDue
<1>3. /\ TypeInv /\ PlanetInv /\ Batched /\ SlotInv
      /\ TypeInv' /\ PlanetInv' /\ ReadyWhole /\ [Next]_vars
      => ReadyWhole'
  BY ReadyWholeStep
<1> QED
  BY <1>1, <1>2, <1>3, SlotInvHolds, PTL DEF Spec
=============================================================================
