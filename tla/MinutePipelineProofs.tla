------------------------ MODULE MinutePipelineProofs ------------------------
(***************************************************************************)
(* Proofs about MinutePipeline for every set of roots and files, window    *)
(* and lead: types, the order of the cursors, recoverable deltas, and      *)
(* that the catalog lists loaded dependencies only.                        *)
(***************************************************************************)
EXTENDS MinutePipeline, WellFoundedInduction, TLAPS

(* A bounded set of naturals has a last element.                           *)
LEMMA LastInSet ==
  ASSUME NEW n \in Nat, NEW S \in SUBSET (0..n), S # {}
  PROVE  Last(S) \in S /\ \A t \in S : t <= Last(S)
<1> DEFINE T == {n - s : s \in S}
<1>1. T \in SUBSET Nat
  <2>1. ASSUME NEW s \in S PROVE n - s \in Nat
    <3>1. s \in 0..n
      OBVIOUS
    <3> QED
      BY <3>1
  <2> QED
    BY <2>1
<1>2. T # {}
  <2>1. PICK s : s \in S
    OBVIOUS
  <2> QED
    BY <2>1
<1> HIDE DEF T
<1>3. PICK x \in T : \A y \in T : ~(<<y, x>> \in OpToRel(<, Nat))
  BY <1>1, <1>2, NatLessThanWellFounded, WFMin, Zenon
<1> USE DEF T
<1>4. PICK s \in S : x = n - s
  BY <1>3
<1>5. ASSUME NEW t \in S PROVE t <= s
  <2>1. n - t \in T /\ s \in 0..n /\ t \in 0..n
    OBVIOUS
  <2>2. ~(n - t < n - s)
    BY <1>1, <1>3, <1>4, <2>1 DEF OpToRel
  <2> QED
    BY <2>1, <2>2
<1>6. \E u \in S : \A t \in S : t <= u
  BY <1>5
<1> QED
  BY <1>6 DEF Last

LEMMA Bounds ==
  /\ MaxSeq \in Nat /\ MaxCrashes \in Nat
  /\ Window \in Nat /\ MaxAhead \in Nat /\ Window >= 1 /\ MaxAhead >= Window
BY MinutePipelineAssumption

LEMMA Numbers ==
  ASSUME TypeOK
  PROVE  /\ published \in Nat /\ published <= MaxSeq
         /\ committed \in Nat /\ committed <= MaxSeq
         /\ db.cursor \in Nat /\ db.cursor <= MaxSeq
         /\ Len(upstream) \in Nat /\ Len(upstream) <= MaxSeq
         /\ filter.seen \in Nat /\ filter.seen <= MaxSeq
         /\ filter.next \in Nat /\ 1 <= filter.next
         /\ filter.last \in Nat /\ filter.last <= MaxSeq
BY Bounds DEF TypeOK

LEMMA FilterTyped ==
  ASSUME TypeOK
  PROVE  filter \in [pc : FilterSteps, seen : 0..MaxSeq, next : 1..(MaxSeq + 1),
                     last : 0..MaxSeq]
BY DEF TypeOK

(* A state found in the deltas is that of some delta.                      *)
LEMMA StateAfterSource ==
  ASSUME NEW m, NEW i \in Nat \ {0}, NEW j \in 0..MaxSeq
  PROVE  \/ StateAfter(m, i, j) = m
         \/ \E s \in Seqs :
              /\ delta[s] # None /\ delta[s].state # None
              /\ StateAfter(m, i, j) = delta[s].state
<1>1. CASE WithState(i, j) = {}
  BY <1>1 DEF StateAfter
<1>2. CASE WithState(i, j) # {}
  <2>1. j \in Nat /\ WithState(i, j) \in SUBSET (0..j)
    BY Bounds DEF WithState
  <2>2. Last(WithState(i, j)) \in WithState(i, j)
    BY <1>2, <2>1, LastInSet
  <2>3. WithState(i, j) \subseteq Seqs
    BY Bounds DEF WithState, Seqs
  <2> QED
    BY <1>2, <2>2, <2>3 DEF StateAfter, WithState
<1> QED
  BY <1>1, <1>2

LEMMA StateAfterTyped ==
  ASSUME TypeOK, NEW m \in Membership, NEW i \in Nat \ {0}, NEW j \in 0..MaxSeq
  PROVE  StateAfter(m, i, j) \in Membership
<1>1. \A s \in Seqs : delta[s] # None /\ delta[s].state # None =>
        delta[s].state \in Membership
  BY DEF TypeOK, Deltas
<1> QED
  BY <1>1, StateAfterSource

(* The roots alive or kept upstream are roots.                             *)
LEMMA KeptTyped ==
  ASSUME TypeOK
  PROVE  Kept(Len(upstream)) \subseteq Roots /\ Alive \subseteq Roots
<1> DEFINE E == [change : Changes, alive : SUBSET Roots, kept : SUBSET Roots]
<1>1. upstream \in Seq(E) /\ Initial \subseteq Roots
  BY MinutePipelineAssumption DEF TypeOK
<1>2. CASE Len(upstream) = 0
  BY <1>1, <1>2 DEF Kept, Alive
<1>3. CASE Len(upstream) # 0
  <2> HIDE DEF E
  <2>1. Len(upstream) \in 1..Len(upstream)
    BY <1>1, <1>3
  <2>2. upstream[Len(upstream)] \in E
    BY <1>1, <2>1
  <2>3. Kept(Len(upstream)) = upstream[Len(upstream)].kept
    BY <1>3 DEF Kept
  <2>4. Alive = upstream[Len(upstream)].alive
    BY <1>3 DEF Alive
  <2> QED
    BY <2>2, <2>3, <2>4 DEF E
<1> QED
  BY <1>2, <1>3

LEMMA TypeInit == Init => TypeOK
  BY Bounds, MinutePipelineAssumption
     DEF Init, TypeOK, Seqs, Files, Deltas, Membership, FilterSteps, DepSteps

LEMMA PipelineInit == Init => PipelineInv
  BY TypeInit, Bounds
     DEF Init, PipelineInv, CursorsOrdered, DeltasRecoverable, Staging, Listed

(* The batch is between the published and the last upstream minute, and    *)
(* within the lead.                                                        *)
LEMMA BatchEndBounds ==
  ASSUME TypeOK
  PROVE  /\ BatchEnd \in Nat
         /\ published < BatchEnd => /\ BatchEnd <= Len(upstream)
                                    /\ BatchEnd <= filter.seen + MaxAhead
<1>1. /\ published \in Nat /\ filter.seen \in Nat /\ Len(upstream) \in Nat
  BY Bounds DEF TypeOK
<1> QED
  BY <1>1, Bounds DEF BatchEnd, NextBatchEnd, Min2

(* The sources publish a minute: no cursor moves.                          *)
LEMMA MinuteArrivesStep ==
  ASSUME PipelineInv, MinuteArrives
  PROVE  PipelineInv'
<1> USE DEF PipelineInv
<1>1. PICK ch \in Changes :
        upstream' = Append(upstream,
            [change |-> ch,
             alive |-> (Alive \union ch.adds) \ ch.drops,
             kept |-> IF Accepted(ch)
                      THEN (Kept(Len(upstream)) \union ch.adds) \ ch.drops
                      ELSE Kept(Len(upstream))])
  BY DEF MinuteArrives
<1>2. ch.adds \subseteq Roots
  BY MinutePipelineAssumption
<1> DEFINE e == [change |-> ch,
                 alive |-> (Alive \union ch.adds) \ ch.drops,
                 kept |-> IF Accepted(ch)
                          THEN (Kept(Len(upstream)) \union ch.adds) \ ch.drops
                          ELSE Kept(Len(upstream))]
           E == [change : Changes, alive : SUBSET Roots, kept : SUBSET Roots]
<1>3. e \in E
  BY <1>2, KeptTyped
<1> HIDE DEF e, E
<1>4. upstream \in Seq(E) /\ upstream' = Append(upstream, e)
  BY <1>1 DEF TypeOK, e, E
<1>5. upstream' \in Seq(E) /\ Len(upstream') = Len(upstream) + 1
  BY <1>3, <1>4
<1> USE DEF MinuteArrives, replicaVars, catalogVars, workingVars
<1>6. TypeOK'
  BY <1>5, Bounds DEF TypeOK, E
<1>7. CursorsOrdered' /\ DeltasRecoverable' /\ Listed'
  BY DEF CursorsOrdered, DeltasRecoverable, Listed
<1>8. Staging'
  BY <1>4, <1>5, Bounds DEF Staging, TypeOK
<1> QED
  BY <1>6, <1>7, <1>8

(* The applier moves the database cursor to a published file.              *)
LEMMA ApplyStep ==
  ASSUME PipelineInv, Apply
  PROVE  PipelineInv'
<1> USE DEF PipelineInv, Apply, replicaVars, catalogVars, workingVars
<1>1. db.cursor + 1 \in Seqs /\ osc[db.cursor + 1] # None
  BY Bounds DEF TypeOK, Staging, Seqs
<1>2. osc[db.cursor + 1] \in [puts : SUBSET Roots, dels : SUBSET Roots]
  BY <1>1 DEF TypeOK, Files
<1>3. db' \in [cursor : 0..MaxSeq, roots : SUBSET Roots, deep : SUBSET Roots]
      /\ db'.cursor = db.cursor + 1
  <2>1. db \in [cursor : 0..MaxSeq, roots : SUBSET Roots, deep : SUBSET Roots]
    BY DEF TypeOK
  <2>2. db.cursor + 1 \in 0..MaxSeq
    BY <1>1, Bounds DEF Seqs
  <2>3. (db.roots \union osc[db.cursor + 1].puts) \ osc[db.cursor + 1].dels
          \in SUBSET Roots
    BY <1>2, <2>1
  <2> HIDE DEF PipelineInv
  <2> QED
    BY <2>1, <2>2, <2>3
<1>4. TypeOK'
  BY <1>3 DEF TypeOK
<1>5. CursorsOrdered' /\ Staging'
  BY <1>3, Bounds DEF TypeOK, CursorsOrdered, Staging
<1>6. DeltasRecoverable' /\ Listed'
  BY DEF DeltasRecoverable, Listed
<1> QED
  BY <1>4, <1>5, <1>6

(* The minute worker takes the lock and reads the database cursor.         *)
LEMMA FilterLocksStep ==
  ASSUME PipelineInv, FilterLocks
  PROVE  PipelineInv'
<1> USE DEF PipelineInv, FilterLocks, catalogVars, workingVars
<1>1. published' = published
  BY Bounds DEF TypeOK, CursorsOrdered
<1>2. TypeOK'
  BY <1>1 DEF TypeOK, FilterSteps
<1>3. CursorsOrdered' /\ DeltasRecoverable' /\ Listed'
  BY <1>1 DEF CursorsOrdered, DeltasRecoverable, Listed
<1>4. filter' = [filter EXCEPT !.pc = "queue", !.seen = db.cursor]
      /\ filter'.pc = "queue" /\ filter'.seen = db.cursor
  BY DEF TypeOK
<1>5. Staging'
  BY <1>1, <1>4, Bounds DEF TypeOK, Staging
<1> QED
  BY <1>2, <1>3, <1>5

LEMMA CommitStep ==
  ASSUME PipelineInv,
         CommitQueues \/ CommitCatalog \/ CommitCursor \/ CommitUnlinks
  PROVE  PipelineInv'
<1> USE DEF PipelineInv, FilterGoto, replicaVars, catalogVars, workingVars
<1>1. CASE CommitQueues
  <2>1. ASSUME NEW r \in Roots, SeenIn(r) # {}
        PROVE  Last(SeenIn(r)) \in Seqs
    <3>1. SeenIn(r) \in SUBSET (0..MaxSeq) /\ SeenIn(r) \subseteq Seqs
      BY Bounds DEF SeenIn, Seqs, TypeOK
    <3> QED
      BY <2>1, <3>1, LastInSet, Bounds
  <2>2. TypeOK'
    BY <1>1, <2>1 DEF TypeOK, CommitQueues, FilterSteps
  <2>3. CursorsOrdered' /\ DeltasRecoverable'
    BY <1>1 DEF CursorsOrdered, DeltasRecoverable, CommitQueues
  <2>4. Staging'
    BY <1>1 DEF Staging, CommitQueues, TypeOK
  <2>5. \A r \in Roots : queue[r] # None => queue'[r] # None
    <3>1. \A n \in Seqs : n # None
      BY MinutePipelineAssumption DEF Seqs
    <3> QED
      BY <1>1, <2>1, <3>1 DEF CommitQueues, TypeOK
  <2>6. Listed'
    BY <1>1, <2>5 DEF Listed, CommitQueues, TypeOK
  <2> QED
    BY <2>2, <2>3, <2>4, <2>6
<1>2. CASE CommitCatalog
  <2>1. StateAfter(catalog, committed + 1, filter.seen) \in Membership
    BY StateAfterTyped, Bounds DEF TypeOK
  <2>2. TypeOK'
    BY <1>2, <2>1 DEF TypeOK, CommitCatalog, FilterSteps
  <2>3. CursorsOrdered' /\ DeltasRecoverable' /\ Listed'
    BY <1>2 DEF CursorsOrdered, DeltasRecoverable, Listed, CommitCatalog
  <2>4. Staging'
    BY <1>2 DEF Staging, CommitCatalog, TypeOK
  <2> QED
    BY <2>2, <2>3, <2>4
<1>3. CASE CommitCursor
  <2>1. TypeOK'
    BY <1>3 DEF TypeOK, CommitCursor, FilterSteps
  <2>2. committed <= filter.seen /\ filter.seen <= db.cursor
    BY <1>3 DEF Staging, CommitCursor
  <2>3. CursorsOrdered' /\ DeltasRecoverable' /\ Listed'
    BY <1>3, <2>2, Bounds, SMTT(30)
       DEF CursorsOrdered, DeltasRecoverable, Listed, CommitCursor, TypeOK
  <2>4. Staging'
    BY <1>3 DEF Staging, CommitCursor, TypeOK
  <2> QED
    BY <2>1, <2>3, <2>4
<1>4. CASE CommitUnlinks
  <2>1. TypeOK'
    BY <1>4 DEF TypeOK, CommitUnlinks, FilterSteps
  <2>2. committed = filter.seen
    BY <1>4 DEF Staging, CommitUnlinks
  <2>3. CursorsOrdered' /\ Listed'
    BY <1>4 DEF CursorsOrdered, Listed, CommitUnlinks
  <2>4. DeltasRecoverable'
    BY <1>4, <2>2, Bounds DEF DeltasRecoverable, CommitUnlinks, TypeOK, Seqs
  <2>5. Staging'
    BY <1>4 DEF Staging, CommitUnlinks, TypeOK
  <2> QED
    BY <2>1, <2>3, <2>4, <2>5
<1> QED
  BY <1>1, <1>2, <1>3, <1>4

(* The worker chooses its batch and stages it file by file.                *)
LEMMA PrepareStep ==
  ASSUME PipelineInv, PrepareWorking
  PROVE  PipelineInv'
<1> USE DEF PipelineInv, replicaVars, catalogVars
<1>1. /\ working' \in Membership /\ through' \in {None} \union 0..MaxSeq
  <2>1. catalog \in Membership /\ working \in Membership
        /\ through \in {None} \union 0..MaxSeq /\ published \in 0..MaxSeq
    BY DEF TypeOK
  <2>2. committed + 1 \in Nat \ {0}
    BY Numbers
  <2>3. StateAfter(catalog, committed + 1, published) \in Membership
    BY <2>1, <2>2, StateAfterTyped
  <2> QED
    BY <2>1, <2>3 DEF PrepareWorking, workingVars
<1>2. /\ filter.pc = "prepare"
      /\ filter' = [filter EXCEPT !.pc = IF published < BatchEnd
                                         THEN "stage" ELSE "idle",
                                  !.next = published + 1, !.last = BatchEnd]
      /\ lock' \in {None, lock}
      /\ UNCHANGED <<upstream, osc, delta, published, db, catalog, committed,
                     queue, dep, crashes>>
  BY DEF PrepareWorking
<1>3. BatchEnd \in 0..MaxSeq
  BY BatchEndBounds, Bounds, SMTT(30) DEF TypeOK, BatchEnd, NextBatchEnd, Min2
<1>4. /\ filter' \in [pc : FilterSteps, seen : 0..MaxSeq,
                       next : 1..(MaxSeq + 1), last : 0..MaxSeq]
      /\ filter'.pc \in {"stage", "idle"}
      /\ filter'.pc = "stage" => published < BatchEnd
      /\ filter'.seen = filter.seen
      /\ filter'.next = published + 1 /\ filter'.last = BatchEnd
  <2>1. published + 1 \in 1..(MaxSeq + 1)
    BY Numbers, Bounds
  <2> QED
    BY <1>2, <1>3, <2>1, FilterTyped DEF FilterSteps
<1>5. TypeOK'
  BY <1>1, <1>2, <1>4 DEF TypeOK
<1>6. CursorsOrdered' /\ DeltasRecoverable' /\ Listed'
  BY <1>2 DEF CursorsOrdered, DeltasRecoverable, Listed
<1>7. Staging'
  <2>1. /\ published <= Len(upstream)
        /\ \A s \in 1..published : osc[s] # None
        /\ filter.seen <= db.cursor
    BY DEF Staging
  <2>2. published + 1 > published /\ (published + 1) - 1 = published
        /\ (published + 1)..published = {}
    BY Numbers
  <2>3. CASE filter'.pc = "idle"
    BY <1>2, <1>4, <2>1, <2>3 DEF Staging
  <2>4. CASE filter'.pc = "stage"
    <3>1. /\ published < BatchEnd /\ BatchEnd <= Len(upstream)
          /\ BatchEnd <= filter.seen + MaxAhead
      BY <1>4, <2>4, BatchEndBounds
    <3>2. published + 1 <= BatchEnd /\ published + 1 <= BatchEnd + 1
      BY <3>1, BatchEndBounds, Numbers
    <3> QED
      BY <1>2, <1>4, <2>1, <2>2, <2>4, <3>1, <3>2 DEF Staging
  <2> QED
    BY <1>4, <2>3, <2>4
<1> QED
  BY <1>5, <1>6, <1>7

LEMMA StageStep ==
  ASSUME PipelineInv, StageFile
  PROVE  PipelineInv'
<1> USE DEF PipelineInv
<1> DEFINE n == filter.next
           ch == upstream[n].change
           E == [change : Changes, alive : SUBSET Roots, kept : SUBSET Roots]
           file == Filtered(working, ch)
           d == [adds |-> ch.adds,
                 state |-> IF Accepted(ch) THEN Updated(working, ch) ELSE None]
<1>1. /\ filter.pc = "stage" /\ n \in Seqs /\ published < n
      /\ n <= filter.last /\ filter.last <= Len(upstream)
      /\ filter.last <= filter.seen + MaxAhead
      /\ filter.seen \in Nat /\ filter.last \in 0..MaxSeq
      /\ published \in Nat /\ Len(upstream) \in Nat
  BY Bounds DEF StageFile, Staging, TypeOK, Seqs
<1>2. ch.adds \subseteq Roots /\ ch.drops \subseteq Roots
  <2>1. upstream \in Seq(E) /\ n \in 1..Len(upstream)
    BY <1>1, Bounds DEF TypeOK, Seqs
  <2> HIDE DEF E, ch
  <2>2. upstream[n] \in E
    BY <2>1
  <2> USE DEF E, ch
  <2>3. ch \in Changes
    BY <2>2
  <2> QED
    BY <2>3, MinutePipelineAssumption
<1>3. file \in Files /\ d \in Deltas
  BY <1>2 DEF Files, Deltas, Filtered, Updated, Membership, TypeOK
<1>4. file # None /\ d # None
  BY <1>3, MinutePipelineAssumption
<1>5. Accepted(ch) => d.state # None
  <2>1. Updated(working, ch) \in Membership
    BY <1>2 DEF Updated, Membership, TypeOK
  <2> QED
    BY <2>1, MinutePipelineAssumption
<1>6. /\ osc' = [osc EXCEPT ![n] = file]
      /\ delta' = [delta EXCEPT ![n] = d]
      /\ filter' = IF Accepted(ch) THEN [filter EXCEPT !.pc = "advance"]
                   ELSE [filter EXCEPT !.pc = AfterFile, !.next = @ + 1]
      /\ UNCHANGED <<upstream, published, db, catalog, committed, queue,
                     working, through, lock, dep, crashes>>
  BY DEF StageFile, catalogVars, workingVars
<1> HIDE DEF ch, file, d
<1>7. osc' \in [Seqs -> {None} \union Files]
      /\ delta' \in [Seqs -> {None} \union Deltas]
      /\ osc'[n] = file /\ delta'[n] = d
      /\ \A s \in Seqs : s # n => osc'[s] = osc[s] /\ delta'[s] = delta[s]
  BY <1>1, <1>3, <1>6 DEF TypeOK
<1>8. \A s \in 1..published : osc'[s] = osc[s] /\ osc[s] # None
  BY <1>1, <1>7, Bounds DEF Staging, Seqs
<1>9. CASE Accepted(ch)
  <2>1. /\ filter' \in [pc : FilterSteps, seen : 0..MaxSeq,
                         next : 1..(MaxSeq + 1), last : 0..MaxSeq]
        /\ filter'.pc = "advance" /\ filter'.seen = filter.seen
        /\ filter'.next = n /\ filter'.last = filter.last
    BY <1>6, <1>9 DEF TypeOK, FilterSteps
  <2>2. TypeOK'
    BY <1>6, <1>7, <2>1 DEF TypeOK
  <2>3. CursorsOrdered' /\ Listed'
    BY <1>6 DEF CursorsOrdered, Listed
  <2>4. DeltasRecoverable'
    BY <1>1, <1>4, <1>6, <1>7, Bounds DEF DeltasRecoverable, TypeOK, Seqs
  <2>5. n <= filter.last + 1
    BY <1>1, Bounds DEF Seqs
  <2>6. Staging'
    BY <1>1, <1>4, <1>5, <1>6, <1>7, <1>9, <1>8, <2>1, <2>5 DEF Staging
  <2> QED
    BY <2>2, <2>3, <2>4, <2>6
<1>10. CASE ~Accepted(ch)
  <2>1. /\ filter' \in [pc : FilterSteps, seen : 0..MaxSeq,
                         next : 1..(MaxSeq + 1), last : 0..MaxSeq]
        /\ filter'.pc = AfterFile /\ filter'.seen = filter.seen
        /\ filter'.next = n + 1 /\ filter'.last = filter.last
    <3>1. n + 1 \in 1..(MaxSeq + 1)
      BY <1>1, Bounds DEF Seqs
    <3>2. AfterFile \in FilterSteps
      BY DEF AfterFile, FilterSteps
    <3>3. filter' = [filter EXCEPT !.pc = AfterFile, !.next = n + 1]
      BY <1>6, <1>10
    <3> QED
      BY <3>1, <3>2, <3>3, FilterTyped
  <2>2. TypeOK'
    BY <1>6, <1>7, <2>1 DEF TypeOK
  <2>3. CursorsOrdered' /\ Listed'
    BY <1>6 DEF CursorsOrdered, Listed
  <2>4. DeltasRecoverable'
    BY <1>1, <1>4, <1>6, <1>7, Bounds DEF DeltasRecoverable, TypeOK, Seqs
  <2>5. Staging'
    <3>1. /\ n + 1 <= filter.last + 1 /\ published < n + 1
          /\ AfterFile \in {"stage", "publish"}
          /\ AfterFile = "stage" => n + 1 <= filter.last
          /\ AfterFile = "publish" => n = filter.last
      BY <1>1 DEF AfterFile, Seqs
    <3>2. \A s \in (published + 1)..n : osc'[s] # None /\ delta'[s] # None
      <4>1. \A s \in (published + 1)..(n - 1) : osc[s] # None /\ delta[s] # None
        BY <1>1 DEF Staging
      <4>2. ASSUME NEW s \in (published + 1)..n
            PROVE  s \in Seqs /\ (s = n \/ s \in (published + 1)..(n - 1))
        BY <1>1, Bounds DEF Seqs
      <4> QED
        BY <1>4, <1>7, <4>1, <4>2
    <3>3. n + 1 - 1 = n
      BY <1>1 DEF Seqs
    <3>4. /\ published <= Len(upstream)
          /\ \A s \in 1..published : osc'[s] # None
          /\ filter.seen <= db.cursor
      BY <1>8 DEF Staging
    <3>5. /\ UNCHANGED <<upstream, published, db, committed>>
          /\ filter'.pc = AfterFile /\ filter'.seen = filter.seen
          /\ filter'.next = n + 1 /\ filter'.last = filter.last
      BY <1>6, <2>1
    <3>6. filter.last <= Len(upstream) /\ filter.last <= filter.seen + MaxAhead
      BY <1>1
    <3>7. n \in Nat /\ filter.last \in Nat
      BY Numbers
    <3> HIDE DEF PipelineInv
    <3>8. CASE AfterFile = "stage"
      BY <3>1, <3>2, <3>3, <3>4, <3>5, <3>6, <3>7, <3>8 DEF Staging
    <3>9. CASE AfterFile = "publish"
      BY <3>1, <3>2, <3>3, <3>4, <3>5, <3>6, <3>7, <3>9 DEF Staging
    <3> QED
      BY <3>1, <3>8, <3>9
  <2> QED
    BY <2>2, <2>3, <2>4, <2>5
<1> QED
  BY <1>9, <1>10

LEMMA AdvanceStep ==
  ASSUME PipelineInv, AdvanceWorking
  PROVE  PipelineInv'
<1> USE DEF PipelineInv, replicaVars, catalogVars
<1>1. /\ filter.pc = "advance" /\ filter.next \in Seqs
      /\ filter.next <= filter.last
      /\ delta[filter.next] # None /\ delta[filter.next].state # None
  BY Bounds DEF AdvanceWorking, Staging, TypeOK, Seqs
<1>2. working' \in Membership
  BY <1>1 DEF AdvanceWorking, TypeOK, Deltas
<1>3. /\ filter' \in [pc : FilterSteps, seen : 0..MaxSeq,
                       next : 1..(MaxSeq + 1), last : 0..MaxSeq]
      /\ filter'.pc = AfterFile /\ filter'.seen = filter.seen
      /\ filter'.next = filter.next + 1 /\ filter'.last = filter.last
  <2>1. filter.next + 1 \in 1..(MaxSeq + 1)
    BY <1>1, Bounds DEF Seqs
  <2>2. AfterFile \in FilterSteps
    BY DEF AfterFile, FilterSteps
  <2> QED
    BY <2>1, <2>2, FilterTyped DEF AdvanceWorking
<1>4. TypeOK'
  BY <1>2, <1>3 DEF AdvanceWorking, TypeOK
<1>5. CursorsOrdered' /\ DeltasRecoverable' /\ Listed'
  BY DEF CursorsOrdered, DeltasRecoverable, Listed, AdvanceWorking
<1>6. Staging'
  <2> DEFINE n == filter.next
  <2>1. /\ n + 1 <= filter.last + 1 /\ published < n + 1 /\ n + 1 - 1 = n
        /\ AfterFile \in {"stage", "publish"}
        /\ AfterFile = "stage" => n + 1 <= filter.last
        /\ AfterFile = "publish" => n = filter.last
    BY <1>1, Numbers DEF AfterFile, Staging
  <2>2. \A s \in (published + 1)..n : osc[s] # None /\ delta[s] # None
    <3>1. /\ \A s \in (published + 1)..(n - 1) : osc[s] # None /\ delta[s] # None
          /\ osc[n] # None /\ delta[n] # None
      BY <1>1 DEF Staging
    <3>2. \A s \in (published + 1)..n : s = n \/ s \in (published + 1)..(n - 1)
      BY Numbers
    <3> QED
      BY <3>1, <3>2
  <2>3. /\ published <= Len(upstream)
        /\ \A s \in 1..published : osc[s] # None
        /\ filter.seen <= db.cursor
        /\ filter.last <= Len(upstream)
        /\ filter.last <= filter.seen + MaxAhead
    BY <1>1 DEF Staging
  <2>4. /\ UNCHANGED <<upstream, osc, delta, published, db, committed>>
        /\ filter'.pc = AfterFile /\ filter'.seen = filter.seen
        /\ filter'.next = n + 1 /\ filter'.last = filter.last
    BY <1>3 DEF AdvanceWorking
  <2>5. n \in Nat /\ filter.last \in Nat
    BY Numbers
  <2> HIDE DEF PipelineInv
  <2>6. CASE AfterFile = "stage"
    BY <2>1, <2>2, <2>3, <2>4, <2>5, <2>6 DEF Staging
  <2>7. CASE AfterFile = "publish"
    BY <2>1, <2>2, <2>3, <2>4, <2>5, <2>7 DEF Staging
  <2> QED
    BY <2>1, <2>6, <2>7
<1> QED
  BY <1>4, <1>5, <1>6

LEMMA PublishStep ==
  ASSUME PipelineInv, PublishBatch \/ RecordWorking \/ FilterRestarts
  PROVE  PipelineInv'
<1> USE DEF PipelineInv, FilterGoto, replicaVars, catalogVars, workingVars
<1>1. CASE PublishBatch
  <2>1. /\ filter.pc = "publish" /\ published < filter.next
        /\ filter.next = filter.last + 1 /\ filter.last <= Len(upstream)
        /\ filter.last <= filter.seen + MaxAhead
        /\ filter.seen <= db.cursor
        /\ \A s \in (published + 1)..(filter.next - 1) :
              osc[s] # None /\ delta[s] # None
    BY <1>1 DEF PublishBatch, Staging
  <2>2. TypeOK'
    BY <1>1 DEF PublishBatch, TypeOK, FilterSteps
  <2>3. CursorsOrdered'
    BY <1>1, <2>1, Bounds DEF PublishBatch, CursorsOrdered, TypeOK
  <2>4. DeltasRecoverable'
    <3>1. published' = filter.last /\ UNCHANGED <<delta, committed>>
      BY <1>1 DEF PublishBatch
    <3>2. \A s \in (committed + 1)..filter.last :
            s \in (committed + 1)..published
              \/ s \in (published + 1)..(filter.next - 1)
      BY <2>1, Numbers
    <3> QED
      BY <2>1, <3>1, <3>2 DEF DeltasRecoverable
  <2>5. Listed'
    BY <1>1 DEF PublishBatch, Listed
  <2>6. Staging'
    BY <1>1, <2>1, Bounds, SMTT(30) DEF PublishBatch, Staging, TypeOK
  <2> QED
    BY <2>2, <2>3, <2>4, <2>5, <2>6
<1>2. CASE RecordWorking
  <2>1. TypeOK'
    BY <1>2 DEF RecordWorking, TypeOK, FilterSteps
  <2>2. CursorsOrdered' /\ DeltasRecoverable' /\ Listed'
    BY <1>2 DEF RecordWorking, CursorsOrdered, DeltasRecoverable, Listed
  <2>3. Staging'
    BY <1>2 DEF RecordWorking, Staging, TypeOK
  <2> QED
    BY <2>1, <2>2, <2>3
<1>3. CASE FilterRestarts
  <2>1. TypeOK'
    BY <1>3, Bounds, SMTT(30) DEF FilterRestarts, TypeOK, FilterSteps
  <2>2. CursorsOrdered' /\ DeltasRecoverable' /\ Listed'
    BY <1>3 DEF FilterRestarts, CursorsOrdered, DeltasRecoverable, Listed
  <2>3. Staging'
    BY <1>3 DEF FilterRestarts, Staging, TypeOK
  <2> QED
    BY <2>1, <2>2, <2>3
<1> QED
  BY <1>1, <1>2, <1>3

(* The dependency worker moves no cursor; it drops tasks it has listed.    *)
LEMMA DependencyStep ==
  ASSUME PipelineInv, DepLocks \/ DepStep \/ DepRestarts
  PROVE  PipelineInv'
<1> USE DEF PipelineInv, DepGoto, replicaVars, catalogVars, workingVars
<1>1. CASE DepLists
  BY <1>1 DEF DepLists, TypeOK, DepSteps, CursorsOrdered, DeltasRecoverable,
              Staging, Listed
<1>2. CASE DepReadsCatalog
  BY <1>2 DEF DepReadsCatalog, TypeOK, DepSteps, CursorsOrdered,
              DeltasRecoverable, Staging, Listed
<1>3. CASE DepDiscards
  <2>1. \A r \in dep.batch : queue[r] \in Seqs
    BY <1>3 DEF DepDiscards, Listed, TypeOK
  <2> DEFINE S == {queue[r] : r \in dep.batch}
  <2>2. dep.batch # {} => Last(S) \in 0..MaxSeq
    <3>1. S \in SUBSET (0..MaxSeq)
      BY <2>1, Bounds DEF Seqs
    <3>2. dep.batch # {} => S # {}
      OBVIOUS
    <3> HIDE DEF S
    <3> QED
      BY <3>1, <3>2, LastInSet, Bounds
  <2>3. TypeOK'
    <3> DEFINE need == IF dep.batch = {} THEN 0 ELSE Last(S)
               D == [pc : DepSteps, tasks : SUBSET Roots, batch : SUBSET Roots,
                     need : 0..MaxSeq, base : Membership, found : SUBSET Roots]
    <3>1. need \in 0..MaxSeq
      BY <2>2, Bounds
    <3>2. dep \in D
      BY DEF TypeOK
    <3>3. dep' = [dep EXCEPT !.pc = IF dep.batch = {} THEN "idle" ELSE "lock",
                             !.need = need]
      BY <1>3 DEF DepDiscards
    <3> HIDE DEF need
    <3>4. dep' \in D
      BY <3>1, <3>2, <3>3 DEF DepSteps
    <3>5. queue' \in [Roots -> {None} \union Seqs]
      BY <1>3 DEF DepDiscards, TypeOK
    <3> HIDE DEF D
    <3> QED
      BY <1>3, <3>4, <3>5 DEF DepDiscards, TypeOK, D
  <2>4. CursorsOrdered' /\ DeltasRecoverable' /\ Staging'
    BY <1>3 DEF DepDiscards, CursorsOrdered, DeltasRecoverable, Staging
  <2>5. Listed'
    BY <1>3 DEF DepDiscards, Listed, TypeOK
  <2> QED
    BY <2>3, <2>4, <2>5
<1>4. CASE DepLocks \/ DepWaits \/ DepFindsNothing
  BY <1>4, SMTT(30) DEF DepLocks, DepWaits, DepFindsNothing, TypeOK, DepSteps,
              CursorsOrdered, DeltasRecoverable, Staging, Listed
<1>5. ASSUME NEW found \in SUBSET Roots, DepRefreshes(found)
      PROVE  PipelineInv'
  <2>1. TypeOK'
    BY <1>5 DEF DepRefreshes, TypeOK, DepSteps
  <2>2. db'.cursor = db.cursor
    BY <1>5 DEF DepRefreshes, TypeOK
  <2>3. CursorsOrdered' /\ DeltasRecoverable' /\ Staging'
    BY <1>5, <2>2 DEF DepRefreshes, CursorsOrdered, DeltasRecoverable, Staging
  <2>4. Listed'
    BY <1>5 DEF DepRefreshes, Listed, TypeOK
  <2> QED
    BY <2>1, <2>3, <2>4
<1>6. CASE DepRecords
  <2>1. TypeOK'
    <3>1. dep.base \in Membership /\ dep.found \subseteq Roots
      BY DEF TypeOK
    <3>2. catalog' \in Membership
      BY <1>6, <3>1 DEF DepRecords, Membership
    <3> QED
      BY <1>6, <3>2 DEF DepRecords, TypeOK, DepSteps
  <2>2. CursorsOrdered' /\ DeltasRecoverable' /\ Staging' /\ Listed'
    BY <1>6 DEF DepRecords, CursorsOrdered, DeltasRecoverable, Staging,
                Listed, TypeOK
  <2> QED
    BY <2>1, <2>2
<1>7. CASE DepUnlinks
  <2>1. TypeOK'
    BY <1>7 DEF DepUnlinks, TypeOK, DepSteps
  <2>2. CursorsOrdered' /\ DeltasRecoverable' /\ Staging' /\ Listed'
    BY <1>7 DEF DepUnlinks, CursorsOrdered, DeltasRecoverable, Staging,
                Listed, TypeOK
  <2> QED
    BY <2>1, <2>2
<1>8. CASE DepRestarts
  <2>1. TypeOK'
    <3>1. crashes' \in 0..MaxCrashes
      BY <1>8, Bounds DEF DepRestarts, TypeOK
    <3>2. lock' \in {None, "minute", "dependency"}
      BY <1>8 DEF DepRestarts, TypeOK
    <3> QED
      BY <1>8, <3>1, <3>2 DEF DepRestarts, TypeOK, DepSteps
  <2>2. CursorsOrdered' /\ DeltasRecoverable' /\ Staging' /\ Listed'
    BY <1>8 DEF DepRestarts, CursorsOrdered, DeltasRecoverable, Staging,
                Listed, TypeOK
  <2> QED
    BY <2>1, <2>2
<1> QED
  BY <1>1, <1>2, <1>3, <1>4, <1>5, <1>6, <1>7, <1>8 DEF DepStep

LEMMA PipelineStep ==
  ASSUME PipelineInv, [Next]_vars
  PROVE  PipelineInv'
<1>1. CASE UNCHANGED vars
  BY <1>1 DEF vars, replicaVars, catalogVars, workingVars, PipelineInv, TypeOK,
              CursorsOrdered, DeltasRecoverable, Staging, Listed
<1> QED
  BY <1>1, MinuteArrivesStep, ApplyStep, FilterLocksStep, CommitStep,
     PrepareStep, StageStep, AdvanceStep, PublishStep, DependencyStep
     DEF Next, FilterStep

(* Every variable keeps its type: the model adds no state the code has not.*)
THEOREM PipelineTypeCorrect == Spec => []TypeOK
<1>1. PipelineInv => TypeOK
  BY DEF PipelineInv
<1> QED
  BY <1>1, PipelineInit, PipelineStep, PTL DEF Spec

(* Whoever stops and restarts when, membership is committed only for       *)
(* applied minutes, minutes are applied only when published, and the lead  *)
(* of the replica directory stays within minute_max_staged_ahead.          *)
THEOREM CursorOrder == Spec => []CursorsOrdered
<1>1. PipelineInv => CursorsOrdered
  BY DEF PipelineInv
<1> QED
  BY <1>1, PipelineInit, PipelineStep, PTL DEF Spec

(* prepare_working_membership finds every delta it reads.                  *)
THEOREM DeltasSuffice == Spec => []DeltasRecoverable
<1>1. PipelineInv => DeltasRecoverable
  BY DEF PipelineInv
<1> QED
  BY <1>1, PipelineInit, PipelineStep, PTL DEF Spec

-----------------------------------------------------------------------------
(* The second invariant follows what `merged' may list through the files.  *)

LEMMA LoadedInit == Init => LoadedInv
  BY Bounds DEF Init, LoadedInv, MergedLoaded, Seqs

(* A state found in the deltas lists loaded dependencies only.             *)
LEMMA StateAfterLoaded ==
  ASSUME LoadedInv, NEW i \in Nat \ {0}, NEW j \in 0..MaxSeq
  PROVE  StateAfter(catalog, i, j).merged \subseteq db.deep
BY StateAfterSource DEF LoadedInv, MergedLoaded

LEMMA LoadedStep ==
  ASSUME PipelineInv, LoadedInv, [Next]_vars
  PROVE  LoadedInv'
<1> USE DEF LoadedInv, MergedLoaded, FilterGoto, DepGoto, replicaVars,
            catalogVars, workingVars
<1>1. TypeOK /\ db.deep \subseteq Roots
  BY DEF PipelineInv, TypeOK
<1>2. committed + 1 \in Nat \ {0} /\ filter.seen \in 0..MaxSeq
      /\ published \in 0..MaxSeq
  BY <1>1, Numbers DEF TypeOK
<1>3. CASE UNCHANGED vars
  BY <1>3 DEF vars
<1>4. CASE MinuteArrives
  BY <1>4 DEF MinuteArrives
<1>5. CASE Apply
  <2>1. db'.deep = db.deep
    BY <1>1, <1>5 DEF Apply, TypeOK
  <2> QED
    BY <1>5, <2>1 DEF Apply
<1>6. CASE FilterLocks
  BY <1>6 DEF FilterLocks
<1>7. CASE CommitQueues \/ CommitCursor
  BY <1>7 DEF CommitQueues, CommitCursor
<1>8. CASE CommitCatalog
  BY <1>2, <1>8, StateAfterLoaded DEF CommitCatalog
<1>9. CASE CommitUnlinks
  BY <1>9 DEF CommitUnlinks
<1>10. CASE PrepareWorking
  BY <1>2, <1>10, StateAfterLoaded DEF PrepareWorking
<1>11. CASE StageFile
  <2> DEFINE n == filter.next
             ch == upstream[n].change
             d == [adds |-> ch.adds,
                   state |-> IF Accepted(ch) THEN Updated(working, ch) ELSE None]
  <2>1. Updated(working, ch).merged = working.merged
    BY <1>1 DEF Updated, TypeOK, Membership
  <2>2. /\ delta' = [delta EXCEPT ![n] = d] /\ dep' = dep
        /\ UNCHANGED <<db, catalog, working>>
    BY <1>11 DEF StageFile
  <2>3. \A s \in Seqs : delta'[s] = IF s = n THEN d ELSE delta[s]
    BY <1>1, <2>2 DEF TypeOK
  <2>4. d.state # None => d.state.merged = working.merged
    BY <2>1
  <2> HIDE DEF d
  <2> QED
    BY <2>2, <2>3, <2>4
<1>12. CASE AdvanceWorking
  <2>1. filter.next \in Seqs /\ delta[filter.next] # None
        /\ delta[filter.next].state # None
    <3>1. /\ filter.next <= filter.last /\ delta[filter.next] # None
          /\ delta[filter.next].state # None
      BY <1>12 DEF AdvanceWorking, PipelineInv, Staging
    <3> QED
      BY <1>1, <3>1, Numbers, Bounds DEF Seqs
  <2> QED
    BY <1>12, <2>1 DEF AdvanceWorking
<1>13. CASE PublishBatch \/ RecordWorking
  BY <1>13 DEF PublishBatch, RecordWorking
<1>14. CASE FilterRestarts
  BY <1>14 DEF FilterRestarts
<1>15. CASE DepLocks \/ DepLists \/ DepReadsCatalog
  BY <1>1, <1>15 DEF DepLocks, DepLists, DepReadsCatalog, TypeOK, DepSteps
<1>16. CASE DepDiscards
  BY <1>1, <1>16 DEF DepDiscards, TypeOK, DepSteps
<1>17. CASE DepWaits \/ DepFindsNothing \/ DepUnlinks
  BY <1>1, <1>17 DEF DepWaits, DepFindsNothing, DepUnlinks, TypeOK, DepSteps
<1>18. ASSUME NEW found \in SUBSET Roots, DepRefreshes(found)
       PROVE  LoadedInv'
  <2>1. /\ db'.deep = db.deep \union found
        /\ dep'.base = catalog /\ dep'.found = found
    BY <1>1, <1>18 DEF DepRefreshes, TypeOK
  <2> QED
    BY <1>18, <2>1 DEF DepRefreshes
<1>19. CASE DepRecords
  BY <1>1, <1>19 DEF DepRecords, TypeOK, DepSteps
<1>20. CASE DepRestarts
  BY <1>1, <1>20 DEF DepRestarts, TypeOK, DepSteps
<1> QED
  BY <1>3, <1>4, <1>5, <1>6, <1>7, <1>8, <1>9, <1>10, <1>11, <1>12, <1>13,
     <1>14, <1>15, <1>16, <1>17, <1>18, <1>19, <1>20
     DEF Next, FilterStep, DepStep

(* The catalog never lists dependencies that were not loaded, whatever     *)
(* membership the minute worker restores over what the dependency worker   *)
(* recorded.                                                               *)
THEOREM MergesAreLoaded == Spec => []MergedLoaded
<1>1. LoadedInv => MergedLoaded
  BY DEF LoadedInv
<1> QED
  BY <1>1, PipelineInit, PipelineStep, LoadedInit, LoadedStep, PTL DEF Spec
=============================================================================
