------------------------- MODULE MinuteConvergence -------------------------
(***************************************************************************)
(* Proofs that database and catalog of MinutePipeline converge, for every  *)
(* set of roots and files, window, lead and number of restarts: unless a   *)
(* restart strikes inside a batch, and as long as the public Overpass does *)
(* not show what is gone.                                                  *)
(***************************************************************************)
EXTENDS MinutePipelineProofs

(* A minute file does not both tag and untag an object: `adds' and `drops' *)
(* are what it amounts to.                                                 *)
NetChanges == \A ch \in Changes : ch.adds \intersect ch.drops = {}
Steady == NetChanges /\ ~Interrupts /\ ~Lingers

-----------------------------------------------------------------------------
(* Minutes.                                                                *)

LEMMA ChangeTyped ==
  ASSUME TypeOK, NEW s \in 1..Len(upstream)
  PROVE  /\ upstream[s].change \in Changes
         /\ upstream[s].change.adds \subseteq Roots
         /\ upstream[s].change.drops \subseteq Roots
<1> DEFINE E == [change : Changes, alive : SUBSET Roots, kept : SUBSET Roots]
<1>1. upstream \in Seq(E)
  BY DEF TypeOK
<1> HIDE DEF E
<1>2. upstream[s] \in E
  BY <1>1
<1> QED
  BY <1>2, MinutePipelineAssumption DEF E

LEMMA SoonMember ==
  ASSUME NEW c, NEW s \in c..Len(upstream), NEW r \in Kept(s)
  PROVE  r \in Soon(c)
BY DEF Soon

LEMMA SoonShrinks ==
  ASSUME TypeOK, NEW c \in Nat, NEW d \in Nat, c <= d
  PROVE  Soon(d) \subseteq Soon(c)
<1>1. ASSUME NEW r \in Soon(d) PROVE r \in Soon(c)
  <2>1. PICK s \in d..Len(upstream) : r \in Kept(s)
    BY DEF Soon
  <2>2. s \in c..Len(upstream)
    BY Numbers
  <2> QED
    BY <2>1, <2>2, SoonMember
<1> QED
  BY <1>1

(* At the last minute nothing is shown early.                              *)
LEMMA MatchesLast ==
  ASSUME TypeOK, NEW R, Matches(R, Len(upstream))
  PROVE  R = Kept(Len(upstream))
<1>1. \A s \in Len(upstream)..Len(upstream) : s = Len(upstream)
  BY Numbers
<1> QED
  BY <1>1 DEF Matches, Soon

(* From one minute to the next: the objects tagged enter, and of those     *)
(* dropped at least the ones that were kept leave.                         *)
LEMMA MatchesNext ==
  ASSUME TypeOK, History, NetChanges,
         NEW s \in 1..Len(upstream), NEW R, NEW D,
         Matches(R, s - 1),
         D \subseteq upstream[s].change.drops,
         IF Accepted(upstream[s].change)
         THEN upstream[s].change.drops \intersect Kept(s - 1) \subseteq D
         ELSE D = {}
  PROVE  Matches((R \union upstream[s].change.adds) \ D, s)
<1> DEFINE ch == upstream[s].change
           R1 == (R \union ch.adds) \ D
<1>1. ch.adds \intersect ch.drops = {}
  BY ChangeTyped DEF NetChanges
<1>2. Kept(s) = IF Accepted(ch) THEN (Kept(s - 1) \union ch.adds) \ ch.drops
                ELSE Kept(s - 1)
  BY DEF History
<1>3. Accepted(ch) <=> ch.adds # {}
  BY DEF Accepted
<1> HIDE DEF ch
<1>4. Kept(s) \subseteq R1
  BY <1>1, <1>2, <1>3 DEF Matches, ch
<1>5. ASSUME NEW r \in R1 PROVE r \in Soon(s)
  <2>1. s \in s..Len(upstream)
    BY Numbers
  <2>2. CASE r \in ch.adds
    BY <1>1, <1>2, <1>3, <2>1, <2>2, SoonMember
  <2>3. CASE r \in R
    <3>1. PICK t \in (s - 1)..Len(upstream) : r \in Kept(t)
      BY <2>3 DEF Matches, Soon
    <3>2. CASE t = s - 1
      <4>1. r \in Kept(s)
        BY <1>2, <3>1, <3>2 DEF ch
      <4> QED
        BY <2>1, <4>1, SoonMember
    <3>3. CASE t # s - 1
      <4>1. t \in s..Len(upstream)
        BY <3>3, Numbers
      <4> QED
        BY <3>1, <4>1, SoonMember
    <3> QED
      BY <3>2, <3>3
  <2> QED
    BY <2>2, <2>3
<1> QED
  BY <1>4, <1>5 DEF Matches, ch

LEMMA FirstInSet ==
  ASSUME NEW S \in SUBSET Nat, S # {}
  PROVE  \E m \in S : \A t \in S : m <= t
<1>1. PICK x \in S : \A y \in S : ~(<<y, x>> \in OpToRel(<, Nat))
  BY NatLessThanWellFounded, WFMin, Zenon
<1>2. ASSUME NEW t \in S PROVE x <= t
  <2>1. ~(t < x)
    BY <1>1 DEF OpToRel
  <2> QED
    BY <2>1
<1> QED
  BY <1>2

(* What matched before some minutes that the pre-filter drops still does   *)
(* after them.                                                             *)
LEMMA MatchesQuiet ==
  ASSUME TypeOK, History, NetChanges, NEW R,
         NEW i \in 0..Len(upstream), NEW j \in i..Len(upstream),
         \A s \in (i + 1)..j : ~Accepted(upstream[s].change),
         Matches(R, i)
  PROVE  Matches(R, j)
<1> DEFINE S == {s \in i..j : ~Matches(R, s)}
<1>1. S = {}
  <2> SUFFICES ASSUME S # {} PROVE FALSE
    OBVIOUS
  <2>1. S \in SUBSET Nat
    BY Numbers
  <2> HIDE DEF S
  <2>2. PICK m \in S : \A t \in S : m <= t
    BY <2>1, FirstInSet
  <2> USE DEF S
  <2>3. m \in (i + 1)..j /\ m \in 1..Len(upstream) /\ m - 1 \in i..j
    BY <2>2, Numbers
  <2>4. Matches(R, m - 1)
    BY <2>2, <2>3
  <2>5. ~Accepted(upstream[m].change) /\ upstream[m].change.adds = {}
    BY <2>3 DEF Accepted
  <2>6. Matches((R \union upstream[m].change.adds) \ {}, m)
    BY <2>3, <2>4, <2>5, MatchesNext
  <2>7. (R \union upstream[m].change.adds) \ {} = R
    BY <2>5
  <2> QED
    BY <2>2, <2>6, <2>7
<1>2. j \in i..j
  BY Numbers
<1> QED
  BY <1>1, <1>2

-----------------------------------------------------------------------------
(* What the deltas say of the minutes.                                     *)

LEMMA StateAfterMatches ==
  ASSUME PipelineInv, ConvergeInv, NetChanges, NEW p \in filter.seen..published
  PROVE  Matches(StateAfter(catalog, committed + 1, p).roots, p)
<1> DEFINE W == WithState(committed + 1, p)
<1>1. TypeOK /\ History /\ Staged
  BY DEF PipelineInv, ConvergeInv
<1>2. PICK q \in committed..filter.seen : Matches(catalog.roots, q)
  BY DEF ConvergeInv, CatalogMatches
<1>3. /\ p \in 0..MaxSeq /\ p \in Nat /\ p <= Len(upstream)
      /\ committed <= q /\ q <= p /\ q \in Nat
      /\ \A s \in (committed + 1)..p :
           /\ s \in Seqs /\ s \in 1..Len(upstream)
           /\ s \in (committed + 1)..published
  <2>1. published <= Len(upstream)
    BY DEF PipelineInv, Staging
  <2> QED
    BY <1>1, <2>1, Numbers, Bounds DEF Seqs
<1>4. \A s \in (committed + 1)..p :
        /\ delta[s] # None
        /\ s \in W <=> Accepted(upstream[s].change)
        /\ s \in W => Matches(delta[s].state.roots, s)
  BY <1>1, <1>3 DEF PipelineInv, DeltasRecoverable, Staged,
     DeltaMatches, WithState
<1>5. CASE W = {}
  <2>1. \A s \in (q + 1)..p : s \in (committed + 1)..p
    BY <1>1, <1>3, Numbers
  <2>2. Matches(catalog.roots, p)
    <3> HIDE DEF W
    <3>1. \A s \in (q + 1)..p : ~Accepted(upstream[s].change)
      BY <1>4, <1>5, <2>1
    <3>2. q \in 0..Len(upstream) /\ p \in q..Len(upstream)
      BY <1>1, <1>3, Numbers
    <3> QED
      BY <1>1, <1>2, <3>1, <3>2, MatchesQuiet
  <2> QED
    BY <1>5, <2>2 DEF StateAfter
<1>6. CASE W # {}
  <2>1. W \in SUBSET (0..p) /\ W \subseteq (committed + 1)..p
    BY <1>1, <1>3, Numbers DEF WithState
  <2>2. Last(W) \in W /\ \A t \in W : t <= Last(W)
    BY <1>3, <1>6, <2>1, LastInSet
  <2>3. StateAfter(catalog, committed + 1, p) = delta[Last(W)].state
    BY <1>6 DEF StateAfter
  <2> HIDE DEF W
  <2> DEFINE l == Last(W)
  <2>4. l \in (committed + 1)..p /\ Matches(delta[l].state.roots, l)
    BY <1>4, <2>1, <2>2
  <2>5. \A s \in (l + 1)..p : s \in (committed + 1)..p /\ ~(s <= l)
    BY <1>1, <1>3, <2>4, Numbers
  <2>6. \A s \in (l + 1)..p : ~Accepted(upstream[s].change)
    BY <1>4, <2>2, <2>5
  <2>7. l \in 0..Len(upstream) /\ p \in l..Len(upstream)
    BY <1>1, <1>3, <2>4, Numbers
  <2> HIDE DEF l
  <2>8. Matches(delta[l].state.roots, p)
    BY <1>1, <2>4, <2>6, <2>7, MatchesQuiet
  <2> QED
    BY <2>3, <2>8 DEF l
<1> QED
  BY <1>5, <1>6

-----------------------------------------------------------------------------
(* The steps.                                                              *)

LEMMA ConvergeInit == Init => ConvergeInv
<1> SUFFICES ASSUME Init PROVE ConvergeInv
  OBVIOUS
<1>1. Len(upstream) = 0 /\ 0 \in 0..0 /\ Kept(0) = Initial /\ Alive = Initial
  BY DEF Init, Kept, Alive
<1>2. Matches(Initial, 0)
  BY <1>1 DEF Matches, Soon
<1>3. History /\ Locking /\ Staged
  BY <1>1, MinutePipelineAssumption
     DEF Init, History, Locking, Staged
<1>4. WorkingMatches /\ CatalogMatches
  BY <1>1, <1>2, MinutePipelineAssumption
     DEF Init, WorkingMatches, CatalogMatches
<1> QED
  BY <1>2, <1>3, <1>4 DEF ConvergeInv, Init

LEMMA SameMinutes ==
  ASSUME UNCHANGED upstream
  PROVE  /\ \A R, c : Matches(R, c)' <=> Matches(R, c)
         /\ \A c : Kept(c)' = Kept(c) /\ Soon(c)' = Soon(c)
         /\ History' <=> History
BY DEF Matches, Soon, Kept, History, Alive

LEMMA MinuteArrivesKeeps ==
  ASSUME PipelineInv, MinuteArrives
  PROVE  /\ Len(upstream') = Len(upstream) + 1
         /\ \A s \in 1..Len(upstream) : upstream'[s] = upstream[s]
         /\ \A c \in 0..Len(upstream) : Kept(c)' = Kept(c)
         /\ \A c \in Nat : Soon(c) \subseteq Soon(c)'
         /\ \A R : \A c \in 0..Len(upstream) : Matches(R, c) => Matches(R, c)'
<1>1. PICK e : upstream' = Append(upstream, e)
  BY DEF MinuteArrives
<1>2. /\ Len(upstream') = Len(upstream) + 1 /\ Len(upstream) \in Nat
      /\ \A s \in 1..Len(upstream) : upstream'[s] = upstream[s]
  BY <1>1 DEF PipelineInv, TypeOK
<1>3. \A c \in 0..Len(upstream) : Kept(c)' = Kept(c)
  BY <1>2 DEF Kept
<1>4. ASSUME NEW c \in Nat PROVE Soon(c) \subseteq Soon(c)'
  <2>1. ASSUME NEW r \in Soon(c) PROVE r \in Soon(c)'
    <3>1. PICK s \in c..Len(upstream) : r \in Kept(s)
      BY DEF Soon
    <3>2. s \in 0..Len(upstream) /\ s \in c..Len(upstream')
      BY <1>2
    <3>3. r \in Kept(s)'
      BY <1>3, <3>1, <3>2
    <3> QED
      BY <3>2, <3>3 DEF Soon
  <2> QED
    BY <2>1
<1>5. \A R : \A c \in 0..Len(upstream) : Matches(R, c) => Matches(R, c)'
  BY <1>2, <1>3, <1>4 DEF Matches
<1> QED
  BY <1>2, <1>3, <1>4, <1>5

(* A new minute adds to what may be shown early, and changes nothing else. *)
LEMMA MinuteArrivesConverge ==
  ASSUME PipelineInv, ConvergeInv, MinuteArrives
  PROVE  ConvergeInv'
<1>1. PICK ch \in Changes :
        upstream' = Append(upstream,
            [change |-> ch,
             alive |-> (Alive \union ch.adds) \ ch.drops,
             kept |-> IF Accepted(ch)
                      THEN (Kept(Len(upstream)) \union ch.adds) \ ch.drops
                      ELSE Kept(Len(upstream))])
  BY DEF MinuteArrives
<1>2. PICK n \in Nat : n = Len(upstream) /\ n <= MaxSeq
  BY Numbers DEF PipelineInv
<1> DEFINE keeps == IF Accepted(ch) THEN (Kept(n) \union ch.adds) \ ch.drops
                    ELSE Kept(n)
           lives == (Alive \union ch.adds) \ ch.drops
<1>3. /\ upstream'[n + 1] = [change |-> ch, alive |-> lives, kept |-> keeps]
      /\ Len(upstream') = n + 1 /\ upstream' # <<>>
  BY <1>1, <1>2 DEF PipelineInv, TypeOK
<1>4. UNCHANGED <<osc, delta, published, db, catalog, committed, queue, working,
                  through, lock, filter, dep, crashes>>
  BY DEF MinuteArrives, replicaVars, catalogVars, workingVars
<1>5. History'
  <2>1. Kept(n + 1)' = keeps /\ Alive' = lives
    BY <1>2, <1>3, MinuteArrivesKeeps DEF Kept, Alive
  <2>2. Alive' \subseteq Kept(n + 1)'
    <3>1. Alive \subseteq Kept(n)
      BY <1>2 DEF ConvergeInv, History
    <3> QED
      BY <2>1, <3>1 DEF Accepted
  <2>3. ASSUME NEW s \in 1..Len(upstream')
        PROVE  LET c == upstream'[s].change
               IN Kept(s)' = IF Accepted(c)
                             THEN (Kept(s - 1)' \union c.adds) \ c.drops
                             ELSE Kept(s - 1)'
    <3>1. CASE s = n + 1
      <4>1. s - 1 = n
        BY <3>1
      <4>2. Kept(s - 1)' = Kept(n)
        BY <1>2, <4>1, MinuteArrivesKeeps
      <4>3. Kept(s)' = keeps /\ upstream'[s].change = ch
        BY <1>3, <2>1, <3>1
      <4> QED
        BY <1>2, <4>2, <4>3
    <3>2. CASE s # n + 1
      <4>1. s \in 1..n /\ s \in 0..n /\ s - 1 \in 0..n
        BY <1>2, <1>3, <3>2
      <4> QED
        BY <1>2, <4>1, MinuteArrivesKeeps DEF ConvergeInv, History
    <3> QED
      BY <3>1, <3>2
  <2> QED
    BY <1>3, <2>2, <2>3 DEF History, Accepted
<1>6. Locking'
  BY <1>4 DEF ConvergeInv, Locking
<1>7. Staged'
  <2>1. ASSUME NEW s \in Seqs, osc[s] # None PROVE FileMatches(s)'
    <3>1. FileMatches(s) /\ s \in 1..n /\ s - 1 \in 0..n
      BY <1>2, <2>1 DEF ConvergeInv, Staged, FileMatches, Seqs
    <3> QED
      BY <1>2, <1>3, <1>4, <3>1, MinuteArrivesKeeps DEF FileMatches, Accepted
  <2>2. ASSUME NEW s \in Seqs, delta[s] # None PROVE DeltaMatches(s)'
    <3>1. DeltaMatches(s) /\ s \in 1..n /\ s \in 0..n
      BY <1>2, <2>2 DEF ConvergeInv, Staged, DeltaMatches, Seqs
    <3> QED
      BY <1>2, <1>3, <1>4, <3>1, MinuteArrivesKeeps DEF DeltaMatches, Accepted
  <2> QED
    BY <1>4, <2>1, <2>2 DEF Staged
<1>8. WorkingMatches'
  <2>1. published \in 0..n
    BY <1>2, Numbers DEF PipelineInv, Staging
  <2>2. filter.pc \in {"stage", "advance", "publish"} =>
          /\ filter.next - 1 \in 0..n
          /\ HalfStaged => HalfStaged'
    <3> SUFFICES ASSUME filter.pc \in {"stage", "advance", "publish"}
                 PROVE  /\ filter.next - 1 \in 0..n
                        /\ HalfStaged => HalfStaged'
      OBVIOUS
    <3>1. filter.next - 1 \in 0..n
      BY <1>2, Numbers DEF PipelineInv, Staging
    <3>2. \A s \in (published + 1)..(filter.next - 1) : upstream'[s] = upstream[s]
      BY <1>2, <2>1, <3>1, MinuteArrivesKeeps
    <3> QED
      BY <1>4, <3>1, <3>2 DEF HalfStaged, Accepted
  <2> QED
    BY <1>2, <1>4, <2>1, <2>2, MinuteArrivesKeeps DEF ConvergeInv, WorkingMatches
<1>9. CatalogMatches' /\ Matches(db.roots, db.cursor)'
  <2>1. filter.seen \in Nat /\ filter.seen <= n /\ db.cursor \in 0..n
        /\ \A q \in committed..filter.seen : q \in 0..n
    BY <1>2, Numbers DEF PipelineInv, Staging, CursorsOrdered
  <2> QED
    BY <1>2, <1>4, <2>1, MinuteArrivesKeeps DEF ConvergeInv, CatalogMatches
<1> QED
  BY <1>5, <1>6, <1>7, <1>8, <1>9 DEF ConvergeInv

(* The applier takes the database from the cursor's minute to the next.    *)
LEMMA ApplyConverge ==
  ASSUME PipelineInv, ConvergeInv, NetChanges, Apply
  PROVE  ConvergeInv'
<1>1. UNCHANGED <<upstream, osc, delta, published, catalog, committed, queue,
                  working, through, lock, filter, dep>>
  BY DEF Apply, replicaVars, catalogVars, workingVars
<1>2. History' /\ Locking' /\ Staged' /\ WorkingMatches' /\ CatalogMatches'
  BY <1>1, SameMinutes DEF ConvergeInv, Locking, Staged, FileMatches, DeltaMatches,
     WorkingMatches, HalfStaged, CatalogMatches
<1>3. PICK s \in 1..Len(upstream) : s = db.cursor + 1 /\ s \in Seqs
  <2>1. db.cursor + 1 \in 1..Len(upstream) /\ db.cursor + 1 \in Seqs
    BY Numbers, Bounds DEF Apply, PipelineInv, Staging, Seqs
  <2> QED
    BY <2>1
<1>4. FileMatches(s)
  <2>1. osc[s] # None
    BY <1>3, Numbers DEF Apply, PipelineInv, Staging
  <2> QED
    BY <1>3, <2>1 DEF ConvergeInv, Staged
<1>5. /\ db'.cursor = s
      /\ db'.roots = (db.roots \union upstream[s].change.adds) \ osc[s].dels
  BY <1>3, <1>4 DEF Apply, FileMatches, PipelineInv, TypeOK
<1>6. Matches(db.roots, s - 1)
  <2>1. s - 1 = db.cursor
    BY <1>3, Numbers DEF PipelineInv
  <2> QED
    BY <2>1 DEF ConvergeInv
<1>7. Matches((db.roots \union upstream[s].change.adds) \ osc[s].dels, s)
  BY <1>4, <1>6, MatchesNext DEF FileMatches, PipelineInv, ConvergeInv
<1> QED
  BY <1>1, <1>2, <1>5, <1>7, SameMinutes DEF ConvergeInv

(* While the filter holds the lock the dependency worker does not.         *)
LEMMA FilterAlone ==
  ASSUME Locking, filter.pc # "idle" \/ lock = None
  PROVE  dep.pc \notin {"refresh", "record", "unlink"}
BY MinutePipelineAssumption DEF Locking

LEMMA FilterLocksConverge ==
  ASSUME PipelineInv, ConvergeInv, FilterLocks
  PROVE  ConvergeInv'
<1>1. /\ UNCHANGED <<upstream, osc, delta, published, db, catalog, committed,
                     queue, working, through, dep>>
      /\ filter.pc = "idle" /\ lock = None /\ lock' = "minute"
      /\ filter'.pc = "queue" /\ filter'.seen = db.cursor
  BY Numbers DEF FilterLocks, PipelineInv, TypeOK, CursorsOrdered, catalogVars,
     workingVars
<1>2. dep.pc \notin {"refresh", "record", "unlink"}
  BY <1>1, FilterAlone DEF ConvergeInv
<1>3. History' /\ Staged' /\ WorkingMatches' /\ Matches(db.roots, db.cursor)'
  BY <1>1, SameMinutes DEF ConvergeInv, Staged, FileMatches, DeltaMatches,
     WorkingMatches
<1>4. Locking'
  BY <1>1, <1>2 DEF Locking
<1>5. CatalogMatches'
  <2>1. \A q \in committed..filter.seen : q \in committed..filter'.seen
    BY <1>1, Numbers DEF PipelineInv, Staging
  <2> QED
    BY <1>1, <1>2, <2>1, SameMinutes DEF ConvergeInv, CatalogMatches
<1> QED
  BY <1>3, <1>4, <1>5 DEF ConvergeInv

(* What is committed is what the deltas say of the database's minute.      *)
LEMMA CommitConverge ==
  ASSUME PipelineInv, ConvergeInv, NetChanges,
         CommitQueues \/ CommitCatalog \/ CommitCursor \/ CommitUnlinks
  PROVE  ConvergeInv'
<1> USE DEF FilterGoto, CommitQueues, CommitCatalog, CommitCursor, CommitUnlinks,
            replicaVars, catalogVars, workingVars
<1>1. /\ UNCHANGED <<upstream, osc, published, db, working, through, lock, dep>>
      /\ filter.pc \in {"queue", "catalog", "cursor", "unlink"}
      /\ filter'.pc \in {"catalog", "cursor", "unlink", "prepare"}
      /\ filter'.seen = filter.seen
  BY DEF PipelineInv, TypeOK
<1>2. dep.pc \notin {"refresh", "record", "unlink"}
  BY <1>1, FilterAlone DEF ConvergeInv
<1>3. History' /\ Locking' /\ WorkingMatches' /\ Matches(db.roots, db.cursor)'
  BY <1>1, SameMinutes DEF ConvergeInv, Locking, WorkingMatches
<1>4. Staged'
  <2>1. \A s \in Seqs : delta'[s] \in {None, delta[s]}
    BY DEF PipelineInv, TypeOK
  <2> QED
    BY <1>1, <2>1, SameMinutes DEF ConvergeInv, Staged, FileMatches, DeltaMatches
<1>5. CatalogMatches'
  <2>1. CASE CommitQueues \/ CommitUnlinks
    BY <1>1, <1>2, <2>1, SameMinutes DEF ConvergeInv, CatalogMatches, PipelineInv,
       TypeOK
  <2>2. CASE CommitCatalog
    <3>1. filter.seen \in filter.seen..published
          /\ filter.seen \in committed..filter.seen
      BY <2>2, Numbers DEF PipelineInv, Staging, CursorsOrdered
    <3>2. Matches(catalog'.roots, filter.seen)
      BY <2>2, <3>1, StateAfterMatches
    <3> QED
      BY <1>1, <1>2, <2>2, <3>1, <3>2, SameMinutes DEF CatalogMatches
  <2>3. CASE CommitCursor
    <3>1. Matches(catalog.roots, filter.seen)
      BY <2>3 DEF ConvergeInv, CatalogMatches
    <3>2. committed' = filter.seen /\ filter.seen \in filter.seen..filter.seen
      BY <2>3, Numbers DEF PipelineInv
    <3> QED
      BY <1>1, <1>2, <2>3, <3>1, <3>2, SameMinutes DEF CatalogMatches, PipelineInv,
         TypeOK
  <2> QED
    BY <2>1, <2>2, <2>3
<1> QED
  BY <1>3, <1>4, <1>5 DEF ConvergeInv

(* The working membership is reused only if it is that of the published    *)
(* minute, and read from the deltas otherwise.                             *)
LEMMA PrepareConverge ==
  ASSUME PipelineInv, ConvergeInv, NetChanges, PrepareWorking
  PROVE  ConvergeInv'
<1>1. /\ UNCHANGED <<upstream, osc, delta, published, db, catalog, committed,
                     queue, dep>>
      /\ filter.pc = "prepare"
      /\ filter'.pc = IF published < BatchEnd THEN "stage" ELSE "idle"
      /\ filter'.next = published + 1 /\ filter'.seen = filter.seen
      /\ lock' = IF published < BatchEnd THEN lock ELSE None
  BY DEF PrepareWorking, replicaVars, catalogVars, PipelineInv, TypeOK
<1>2. dep.pc \notin {"refresh", "record", "unlink"} /\ lock = "minute"
  BY <1>1, FilterAlone DEF ConvergeInv, Locking
<1>3. Matches(working'.roots, published) /\ through' = published
  <2>1. CASE through = published
    BY <1>1, <2>1 DEF PrepareWorking, workingVars, ConvergeInv, WorkingMatches
  <2>2. CASE through # published
    <3>1. published \in filter.seen..published
      BY Numbers DEF PipelineInv, Staging, CursorsOrdered
    <3>2. working' = StateAfter(catalog, committed + 1, published)
          /\ through' = published
      BY <2>2 DEF PrepareWorking
    <3> QED
      BY <3>1, <3>2, StateAfterMatches
  <2> QED
    BY <2>1, <2>2
<1>4. History' /\ Staged' /\ CatalogMatches' /\ Matches(db.roots, db.cursor)'
  BY <1>1, SameMinutes DEF ConvergeInv, Staged, FileMatches, DeltaMatches,
     CatalogMatches
<1>5. Locking'
  BY <1>1, <1>2, MinutePipelineAssumption DEF Locking
<1>6. WorkingMatches'
  <2>1. published \in Nat /\ published + 1 - 1 = published
    BY Numbers DEF PipelineInv
  <2> QED
    BY <1>1, <1>3, <2>1, SameMinutes DEF WorkingMatches
<1> QED
  BY <1>4, <1>5, <1>6 DEF ConvergeInv

(* A file is filtered against a membership that knows what the minute      *)
(* before it keeps.                                                        *)
LEMMA StageConverge ==
  ASSUME PipelineInv, ConvergeInv, NetChanges, StageFile
  PROVE  ConvergeInv'
<1>1. PICK n \in 1..Len(upstream) :
        n = filter.next /\ n \in Seqs /\ published < n /\ n <= filter.last
  <2>1. filter.next \in 1..Len(upstream) /\ filter.next \in Seqs
        /\ published < filter.next /\ filter.next <= filter.last
    BY Numbers, Bounds DEF StageFile, PipelineInv, Staging, Seqs
  <2> QED
    BY <2>1
<1> DEFINE ch == upstream[n].change
           file == Filtered(working, ch)
           d == [adds |-> ch.adds,
                 state |-> IF Accepted(ch) THEN Updated(working, ch) ELSE None]
<1>2. /\ UNCHANGED <<upstream, published, db, catalog, committed, queue, working,
                     through, lock, dep>>
      /\ filter.pc = "stage" /\ filter'.seen = filter.seen
      /\ osc' = [osc EXCEPT ![n] = file] /\ delta' = [delta EXCEPT ![n] = d]
      /\ IF Accepted(ch) THEN filter'.pc = "advance" /\ filter'.next = n
         ELSE filter'.pc = AfterFile /\ filter'.next = n + 1
      /\ AfterFile \in {"stage", "publish"}
  BY <1>1 DEF StageFile, AfterFile, catalogVars, workingVars, PipelineInv, TypeOK
<1>3. /\ Matches(working.roots, n - 1)
      /\ HalfStaged \/ Matches(working.roots, published)
      /\ TypeOK /\ History
  BY <1>1, <1>2 DEF ConvergeInv, WorkingMatches, PipelineInv
<1>4. /\ file.puts = ch.adds /\ file.dels \subseteq ch.drops
      /\ IF Accepted(ch) THEN ch.drops \intersect Kept(n - 1) \subseteq file.dels
         ELSE file.dels = {}
  BY <1>3 DEF Filtered, Accepted, Matches
<1>5. Accepted(ch) => Matches(Updated(working, ch).roots, n)
                      /\ Updated(working, ch) \in Membership
  <2> SUFFICES ASSUME Accepted(ch)
               PROVE  /\ Matches(Updated(working, ch).roots, n)
                      /\ Updated(working, ch) \in Membership
    OBVIOUS
  <2>1. /\ Updated(working, ch).roots = (working.roots \union ch.adds) \ ch.drops
        /\ Updated(working, ch) \in Membership
    BY <1>3, ChangeTyped DEF Updated, TypeOK, Membership
  <2>2. Matches((working.roots \union ch.adds) \ ch.drops, n)
    BY <1>3, MatchesNext
  <2> QED
    BY <2>1, <2>2
<1>6. ~Accepted(ch) => Matches(working.roots, n)
  <2> SUFFICES ASSUME ~Accepted(ch) PROVE Matches(working.roots, n)
    OBVIOUS
  <2>1. ch.adds = {}
    BY DEF Accepted
  <2>2. Matches((working.roots \union ch.adds) \ {}, n)
    BY <1>3, MatchesNext
  <2>3. (working.roots \union ch.adds) \ {} = working.roots
    BY <2>1
  <2> QED
    BY <2>2, <2>3
<1>7. History' /\ CatalogMatches' /\ Matches(db.roots, db.cursor)' /\ Locking'
  BY <1>2, SameMinutes DEF ConvergeInv, CatalogMatches, Locking
<1>8. Staged'
  <2>1. ASSUME NEW s \in Seqs, osc'[s] # None PROVE FileMatches(s)'
    <3>1. CASE s = n
      BY <1>1, <1>2, <1>3, <1>4, <3>1, SameMinutes DEF FileMatches, TypeOK, Accepted
    <3>2. CASE s # n
      <4>1. osc'[s] = osc[s]
        BY <1>2, <1>3, <3>2 DEF TypeOK
      <4>2. FileMatches(s)
        BY <2>1, <4>1 DEF ConvergeInv, Staged
      <4> QED
        BY <1>2, <4>1, <4>2, SameMinutes DEF FileMatches
    <3> QED
      BY <3>1, <3>2
  <2>2. ASSUME NEW s \in Seqs, delta'[s] # None PROVE DeltaMatches(s)'
    <3>1. CASE s = n
      <4>1. delta'[s] = d
        BY <1>2, <1>3, <3>1 DEF TypeOK
      <4>2. Accepted(ch) => Updated(working, ch) # None
        BY <1>5, MinutePipelineAssumption
      <4> QED
        BY <1>1, <1>2, <1>5, <3>1, <4>1, <4>2, SameMinutes DEF DeltaMatches, Accepted
    <3>2. CASE s # n
      <4>1. delta'[s] = delta[s]
        BY <1>2, <1>3, <3>2 DEF TypeOK
      <4>2. DeltaMatches(s)
        BY <2>2, <4>1 DEF ConvergeInv, Staged
      <4> QED
        BY <1>2, <4>1, <4>2, SameMinutes DEF DeltaMatches
    <3> QED
      BY <3>1, <3>2
  <2> QED
    BY <2>1, <2>2 DEF Staged
<1>9. WorkingMatches'
  <2>1. through # None => through <= published
    BY DEF ConvergeInv, WorkingMatches
  <2>2. n + 1 - 1 = n
    BY <1>1
  <2>3. HalfStaged => HalfStaged'
    <3> SUFFICES ASSUME HalfStaged PROVE HalfStaged'
      OBVIOUS
    <3>1. PICK s \in (published + 1)..(n - 1) : Accepted(upstream[s].change)
      BY <1>1 DEF HalfStaged
    <3>2. s \in (published + 1)..(filter'.next - 1)
      BY <1>1, <1>2, <1>3, Numbers
    <3> QED
      BY <1>2, <3>1, <3>2 DEF HalfStaged, Accepted
  <2>4. CASE Accepted(ch)
    BY <1>1, <1>2, <1>3, <2>1, <2>3, <2>4, SameMinutes DEF WorkingMatches
  <2>5. CASE ~Accepted(ch)
    BY <1>2, <1>3, <1>6, <2>1, <2>2, <2>3, <2>5, SameMinutes DEF WorkingMatches
  <2> QED
    BY <2>4, <2>5
<1> QED
  BY <1>2, <1>7, <1>8, <1>9 DEF ConvergeInv

LEMMA AdvanceConverge ==
  ASSUME PipelineInv, ConvergeInv, AdvanceWorking
  PROVE  ConvergeInv'
<1>1. PICK n \in Seqs :
        /\ n = filter.next /\ published < n /\ n <= Len(upstream)
        /\ delta[n] # None /\ delta[n].state # None
  <2>1. /\ filter.next \in Seqs
        /\ published < filter.next /\ filter.next <= Len(upstream)
        /\ delta[filter.next] # None /\ delta[filter.next].state # None
    BY Numbers, Bounds DEF AdvanceWorking, PipelineInv, Staging, Seqs
  <2> QED
    BY <2>1
<1>2. /\ UNCHANGED <<upstream, osc, delta, published, db, catalog, committed,
                     queue, through, lock, dep>>
      /\ filter.pc = "advance" /\ filter'.seen = filter.seen
      /\ filter'.pc = AfterFile /\ filter'.next = n + 1
      /\ AfterFile \in {"stage", "publish"}
      /\ working' = delta[n].state
  BY <1>1 DEF AdvanceWorking, AfterFile, replicaVars, catalogVars, PipelineInv,
     TypeOK
<1>3. Matches(delta[n].state.roots, n) /\ Accepted(upstream[n].change)
  BY <1>1 DEF ConvergeInv, Staged, DeltaMatches
<1>4. /\ History' /\ Staged' /\ CatalogMatches' /\ Matches(db.roots, db.cursor)'
      /\ Locking'
  BY <1>2, SameMinutes DEF ConvergeInv, Staged, FileMatches, DeltaMatches,
     CatalogMatches, Locking
<1>5. HalfStaged'
  <2>1. n \in (published + 1)..(n + 1 - 1)
    BY <1>1, Numbers DEF PipelineInv, Seqs
  <2> QED
    BY <1>2, <1>3, <2>1 DEF HalfStaged, Accepted
<1>6. WorkingMatches'
  <2>1. /\ filter'.next - 1 = n /\ filter'.pc \in {"stage", "publish"}
        /\ through' # None => through' <= published'
    BY <1>1, <1>2 DEF ConvergeInv, WorkingMatches, Seqs
  <2>2. PICK R : R = working'.roots
    OBVIOUS
  <2>3. Matches(R, n)'
    BY <1>2, <1>3, <2>2, SameMinutes
  <2> QED
    BY <1>5, <2>1, <2>2, <2>3 DEF WorkingMatches
<1> QED
  BY <1>4, <1>6 DEF ConvergeInv

(* A restart finds the working membership of the published minute unless   *)
(* it struck in the middle of a batch.                                     *)
LEMMA PublishConverge ==
  ASSUME PipelineInv, ConvergeInv, ~Interrupts,
         PublishBatch \/ RecordWorking \/ FilterRestarts
  PROVE  ConvergeInv'
<1> USE DEF FilterGoto, PublishBatch, RecordWorking, FilterRestarts, replicaVars,
            catalogVars, workingVars
<1>1. /\ UNCHANGED <<upstream, osc, delta, db, catalog, committed, queue,
                     working, dep>>
      /\ filter'.seen = filter.seen
      /\ filter.pc # "idle" /\ filter'.pc \in {"record", "idle"}
  BY DEF PipelineInv, TypeOK
<1>2. dep.pc \notin {"refresh", "record", "unlink"} /\ lock = "minute"
  BY <1>1, FilterAlone DEF ConvergeInv, Locking
<1>3. History' /\ Staged' /\ CatalogMatches' /\ Matches(db.roots, db.cursor)'
  BY <1>1, SameMinutes DEF ConvergeInv, Staged, FileMatches, DeltaMatches,
     CatalogMatches
<1>4. Locking'
  BY <1>1, <1>2, MinutePipelineAssumption DEF Locking, PipelineInv, TypeOK
<1>5. WorkingMatches'
  <2>1. CASE PublishBatch
    <3>1. /\ published' = filter.last /\ filter'.last = filter.last
          /\ filter'.pc = "record" /\ through' = through
          /\ filter.pc = "publish" /\ filter.next - 1 = filter.last
          /\ published <= filter.last
      <4>1. filter' = [filter EXCEPT !.pc = "record"] /\ filter.pc = "publish"
            /\ published' = filter.last /\ through' = through
        BY <2>1
      <4>2. filter'.pc = "record" /\ filter'.last = filter.last
        BY <4>1, FilterTyped DEF PipelineInv
      <4> QED
        BY <4>1, <4>2, Numbers DEF PipelineInv, Staging
    <3>2. Matches(working.roots, filter.last)
      BY <3>1 DEF ConvergeInv, WorkingMatches
    <3>3. through # None => through <= filter.last
      <4>1. through # None => through <= published /\ through \in Nat
        BY DEF ConvergeInv, WorkingMatches, PipelineInv, TypeOK
      <4> QED
        BY <3>1, <4>1, Numbers DEF PipelineInv
    <3>4. Matches(working.roots, filter.last)' /\ working' = working
      BY <1>1, <3>1, <3>2, SameMinutes
    <3> HIDE DEF PublishBatch, RecordWorking, FilterRestarts
    <3> QED
      BY <3>1, <3>3, <3>4 DEF WorkingMatches
  <2>2. CASE RecordWorking
    <3>1. published = filter.last /\ Matches(working.roots, published)
      BY <2>2 DEF ConvergeInv, WorkingMatches
    <3>2. /\ through' = filter.last /\ UNCHANGED <<published, working>>
          /\ filter'.pc = "idle"
      BY <2>2, FilterTyped DEF PipelineInv
    <3>3. Matches(working.roots, published)' /\ published \in Nat
      BY <1>1, <3>1, <3>2, SameMinutes, Numbers DEF PipelineInv
    <3> HIDE DEF PublishBatch, RecordWorking, FilterRestarts
    <3> QED
      BY <3>1, <3>2, <3>3 DEF WorkingMatches
  <2>3. CASE FilterRestarts
    <3>1. filter'.pc = "idle" /\ UNCHANGED <<published, through>>
      BY <2>3 DEF PipelineInv, TypeOK
    <3>2. filter.pc \in {"stage", "advance", "publish", "record"} =>
            Matches(working.roots, published)
      BY <2>3 DEF ConvergeInv, WorkingMatches
    <3> QED
      BY <1>1, <3>1, <3>2, SameMinutes DEF ConvergeInv, WorkingMatches
  <2> QED
    BY <2>1, <2>2, <2>3
<1> QED
  BY <1>1, <1>3, <1>4, <1>5 DEF ConvergeInv

(* What is alive upstream may be shown at every minute so far.             *)
LEMMA AliveSoon ==
  ASSUME TypeOK, History, NEW c \in Nat, c <= Len(upstream)
  PROVE  Alive \subseteq Soon(c)
<1>1. Len(upstream) \in c..Len(upstream)
  BY Numbers
<1> QED
  BY <1>1, SoonMember DEF History

(* Without lingering objects a refresh loads only what is alive upstream:  *)
(* the database shows it before its minute is applied, at worst.           *)
LEMMA DependencyConverge ==
  ASSUME PipelineInv, ConvergeInv, ~Lingers, DepLocks \/ DepStep \/ DepRestarts
  PROVE  ConvergeInv'
<1> USE DEF DepGoto, replicaVars, catalogVars, workingVars
<1>1. /\ UNCHANGED <<upstream, osc, delta, published, committed, working,
                     through, filter>>
      /\ filter.seen \in Nat /\ filter.seen <= Len(upstream)
      /\ db.cursor \in Nat /\ db.cursor <= Len(upstream)
      /\ TypeOK /\ History
  <2>1. UNCHANGED <<upstream, osc, delta, published, committed, working,
                    through, filter>>
    BY DEF DepLocks, DepStep, DepRestarts, DepLists, DepReadsCatalog, DepDiscards,
       DepWaits, DepRefreshes, DepFindsNothing, DepRecords, DepUnlinks
  <2> QED
    BY <2>1, Numbers DEF PipelineInv, Staging, CursorsOrdered, ConvergeInv
<1>2. History' /\ Staged' /\ WorkingMatches'
  BY <1>1, SameMinutes DEF ConvergeInv, Staged, FileMatches, DeltaMatches,
     WorkingMatches, HalfStaged
<1>3. SUFFICES Locking' /\ CatalogMatches' /\ Matches(db.roots, db.cursor)'
  BY <1>2 DEF ConvergeInv
<1>4. CASE DepLists \/ DepReadsCatalog \/ DepDiscards \/ DepWaits
  <2>1. /\ UNCHANGED <<db, catalog, lock>>
        /\ {dep.pc, dep'.pc} \subseteq {"idle", "read", "discard", "lock"}
    BY <1>1, <1>4 DEF DepLists, DepReadsCatalog, DepDiscards, DepWaits, TypeOK
  <2> QED
    BY <1>1, <2>1, SameMinutes DEF ConvergeInv, Locking, CatalogMatches
<1>5. CASE DepLocks
  <2>1. /\ UNCHANGED <<db, catalog>>
        /\ lock = None /\ lock' = "dependency" /\ dep'.pc = "refresh"
    BY <1>1, <1>5 DEF DepLocks, TypeOK
  <2>2. Locking'
    BY <1>1, <2>1, MinutePipelineAssumption DEF ConvergeInv, Locking
  <2> QED
    BY <1>1, <2>1, <2>2, SameMinutes DEF ConvergeInv, CatalogMatches
<1>6. ASSUME NEW found \in SUBSET Roots, DepRefreshes(found)
      PROVE  Locking' /\ CatalogMatches' /\ Matches(db.roots, db.cursor)'
  <2>1. /\ UNCHANGED <<catalog, lock>>
        /\ db'.cursor = db.cursor /\ db'.roots = db.roots \union found
        /\ dep.pc = "refresh" /\ dep'.pc = "record"
        /\ dep'.base = catalog /\ dep'.found = found
        /\ found \subseteq Alive
    BY <1>1, <1>6 DEF DepRefreshes, TypeOK
  <2>2. found \subseteq Soon(filter.seen) /\ found \subseteq Soon(db.cursor)
    BY <1>1, <2>1, AliveSoon
  <2>3. Locking'
    BY <1>1, <2>1 DEF ConvergeInv, Locking
  <2>4. CatalogMatches'
    BY <1>1, <2>1, <2>2, SameMinutes DEF ConvergeInv, CatalogMatches
  <2>5. Matches(db.roots \union found, db.cursor)
    BY <2>2 DEF ConvergeInv, Matches
  <2> QED
    BY <1>1, <2>1, <2>3, <2>4, <2>5, SameMinutes
<1>7. CASE DepRecords
  <2>1. /\ UNCHANGED <<db, lock>>
        /\ catalog'.roots = dep.base.roots \union dep.found
        /\ dep.pc = "record" /\ dep'.pc = "unlink"
    BY <1>1, <1>7 DEF DepRecords, TypeOK
  <2>2. dep.base = catalog /\ dep.found \subseteq Soon(filter.seen)
    BY <2>1 DEF ConvergeInv, CatalogMatches
  <2>3. filter.pc = "idle"
    BY <2>1 DEF ConvergeInv, Locking
  <2>4. PICK q \in committed..filter.seen : Matches(catalog.roots, q)
    BY DEF ConvergeInv, CatalogMatches
  <2>5. Soon(filter.seen) \subseteq Soon(q)
    BY <1>1, Numbers, SoonShrinks
  <2>6. Matches(catalog'.roots, q)
    BY <2>1, <2>2, <2>4, <2>5 DEF Matches
  <2>7. CatalogMatches'
    BY <1>1, <2>1, <2>3, <2>6, SameMinutes DEF CatalogMatches
  <2> QED
    BY <1>1, <2>1, <2>7, SameMinutes DEF ConvergeInv, Locking
<1>8. CASE DepFindsNothing \/ DepUnlinks
  <2>1. /\ UNCHANGED <<db, catalog>> /\ lock' = None
        /\ dep.pc \in {"refresh", "unlink"} /\ dep'.pc = "idle"
    BY <1>1, <1>8 DEF DepFindsNothing, DepUnlinks, TypeOK
  <2>2. Locking'
    BY <1>1, <2>1, MinutePipelineAssumption DEF ConvergeInv, Locking
  <2> QED
    BY <1>1, <2>1, <2>2, SameMinutes DEF ConvergeInv, CatalogMatches
<1>9. CASE DepRestarts
  <2>1. /\ UNCHANGED <<db, catalog>> /\ dep'.pc = "idle"
        /\ lock' = IF dep.pc \in {"refresh", "record", "unlink"} THEN None
                   ELSE lock
    BY <1>1, <1>9 DEF DepRestarts, TypeOK
  <2>2. Locking'
    BY <1>1, <2>1, MinutePipelineAssumption DEF ConvergeInv, Locking
  <2> QED
    BY <1>1, <2>1, <2>2, SameMinutes DEF ConvergeInv, CatalogMatches
<1> QED
  BY <1>4, <1>5, <1>6, <1>7, <1>8, <1>9 DEF DepStep

LEMMA ConvergeStep ==
  ASSUME PipelineInv, ConvergeInv, Steady, [Next]_vars
  PROVE  ConvergeInv'
<1>1. CASE UNCHANGED vars
  <2>1. UNCHANGED <<upstream, osc, delta, published, db, catalog, committed,
                    working, through, lock, filter, dep>>
    BY <1>1 DEF vars, replicaVars, catalogVars, workingVars
  <2> QED
    BY <2>1, SameMinutes DEF ConvergeInv, Locking, Staged, FileMatches,
       DeltaMatches, WorkingMatches, HalfStaged, CatalogMatches
<1> QED
  BY <1>1, MinuteArrivesConverge, ApplyConverge, FilterLocksConverge,
     CommitConverge, PrepareConverge, StageConverge, AdvanceConverge,
     PublishConverge, DependencyConverge
     DEF Next, FilterStep, Steady

LEMMA ConvergeAlways ==
  ASSUME Steady PROVE Spec => [](PipelineInv /\ ConvergeInv)
<1>1. ASSUME PipelineInv, ConvergeInv, [Next]_vars PROVE ConvergeInv'
  BY <1>1, ConvergeStep
<1> QED
  BY <1>1, PipelineInit, PipelineStep, ConvergeInit, PTL DEF Spec

(* When a batch is about to be staged, the filter knows every root that    *)
(* the published files leave in the database.                              *)
THEOREM FilterKnowsEveryRoot ==
  ASSUME Steady PROVE Spec => []FilterKnowsRoots
<1>1. PipelineInv /\ ConvergeInv => FilterKnowsRoots
  <2>1. ASSUME PipelineInv, published + 1 = filter.next
        PROVE  filter.next - 1 = published
    BY <2>1, Numbers DEF PipelineInv
  <2> QED
    BY <2>1 DEF ConvergeInv, WorkingMatches, Matches, FilterKnowsRoots
<1> QED
  BY <1>1, ConvergeAlways, PTL

(* Once it has applied every minute, the database holds exactly the roots  *)
(* it should.                                                              *)
THEOREM DatabaseConverged ==
  ASSUME Steady PROVE Spec => []DatabaseConverges
<1>1. PipelineInv /\ ConvergeInv => DatabaseConverges
  BY MatchesLast DEF PipelineInv, ConvergeInv, DatabaseConverges
<1> QED
  BY <1>1, ConvergeAlways, PTL

(* So does the catalog once it is committed that far.                      *)
THEOREM CatalogConverged ==
  ASSUME Steady PROVE Spec => []CatalogConverges
<1>1. ASSUME PipelineInv, ConvergeInv, committed = Len(upstream)
      PROVE  catalog.roots = Kept(committed)
  <2>1. PICK q \in committed..filter.seen : Matches(catalog.roots, q)
    BY <1>1 DEF ConvergeInv, CatalogMatches
  <2>2. q = Len(upstream)
    BY <1>1, <2>1, Numbers DEF PipelineInv, Staging, CursorsOrdered
  <2> QED
    BY <1>1, <2>1, <2>2, MatchesLast DEF PipelineInv
<1>2. PipelineInv /\ ConvergeInv => CatalogConverges
  BY <1>1 DEF CatalogConverges
<1> QED
  BY <1>2, ConvergeAlways, PTL

(* The database gains a root only if a minute it has yet to reach, or has  *)
(* just reached, keeps it: a refresh brings nothing back that is gone.     *)
THEOREM RemovedStaysRemoved ==
  ASSUME Steady PROVE Spec => RefreshSparesRemoved
<1>1. ASSUME PipelineInv, ConvergeInv, ConvergeInv', [Next]_vars,
             NEW r \in Roots, r \notin db.roots, r \in db'.roots
      PROVE  \E s \in 1..Len(upstream) : s >= db.cursor /\ r \in Kept(s)
  <2>1. upstream' = upstream /\ db'.cursor \in {db.cursor, db.cursor + 1}
    <3> USE <1>1 DEF PipelineInv, TypeOK, replicaVars, catalogVars, workingVars,
                     FilterGoto, DepGoto
    <3>1. CASE Apply
      BY <3>1 DEF Apply
    <3>2. ASSUME NEW found \in SUBSET Roots, DepRefreshes(found)
          PROVE  upstream' = upstream /\ db'.cursor = db.cursor
      BY <3>2 DEF DepRefreshes
    <3>3. ~MinuteArrives /\ db' # db
      BY DEF MinuteArrives
    <3>4. ~(FilterLocks \/ FilterStep \/ FilterRestarts)
      BY <3>3 DEF FilterLocks, FilterStep, FilterRestarts, CommitQueues,
         CommitCatalog, CommitCursor, CommitUnlinks, PrepareWorking, StageFile,
         AdvanceWorking, PublishBatch, RecordWorking
    <3>5. ~(DepLocks \/ DepRestarts \/ UNCHANGED vars)
      BY <3>3 DEF DepLocks, DepRestarts, vars
    <3>6. CASE DepStep
      BY <3>2, <3>3, <3>6 DEF DepStep, DepLists, DepReadsCatalog, DepDiscards,
         DepWaits, DepFindsNothing, DepRecords, DepUnlinks
    <3> QED
      BY <3>1, <3>3, <3>4, <3>5, <3>6 DEF Next
  <2>2. PICK s \in db'.cursor..Len(upstream) : r \in Kept(s)
    <3>1. r \in Soon(db'.cursor)
      BY <1>1, <2>1, SameMinutes DEF ConvergeInv, Matches
    <3> QED
      BY <3>1 DEF Soon
  <2>3. s \in Nat /\ db.cursor \in Nat /\ db.cursor <= s
    BY <1>1, <2>1, Numbers DEF PipelineInv
  <2>4. s # 0
    <3> SUFFICES ASSUME s = 0 PROVE FALSE
      OBVIOUS
    <3>1. s = db.cursor
      BY <2>3
    <3> QED
      BY <1>1, <2>2, <3>1 DEF ConvergeInv, Matches
  <2> QED
    BY <1>1, <2>2, <2>3, <2>4, Numbers DEF PipelineInv
<1>2. ASSUME PipelineInv, ConvergeInv, ConvergeInv', [Next]_vars
      PROVE  \A r \in Roots : r \notin db.roots /\ r \in db'.roots =>
               \E s \in 1..Len(upstream) : s >= db.cursor /\ r \in Kept(s)
  BY <1>1, <1>2
<1> QED
  BY <1>2, ConvergeAlways, PTL DEF Spec, RefreshSparesRemoved
=============================================================================
