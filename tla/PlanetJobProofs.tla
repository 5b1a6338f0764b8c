--------------------------- MODULE PlanetJobProofs ---------------------------
(* Proofs about PlanetJob, for any snapshots, jobs and faults.               *)
EXTENDS PlanetJob, TLAPS

(* Snapshot numbers that are known are out, and no time lies ahead of the   *)
(* clock.                                                                   *)
Known == 1 .. latest \cup {None}
Fetched ==
  /\ Taken[latest] < now
  /\ part \in Known /\ torrent \in Known /\ incoming \subseteq 1 .. latest
  /\ \A j \in Job : job[j].new \in Known
  /\ \A j \in Job : job[j].pc \in {"update", "export"} => job[j].base # None
  /\ planet # None => planet.time <= now
  /\ filtered # None => filtered <= now

PlanetType == TypeOK /\ Fetched

LEMMA TakenType ==
  /\ Len(Taken) \in Nat /\ Snapshot = 1 .. Len(Taken) /\ 1 \in Snapshot
  /\ \A s \in Snapshot : Taken[s] \in Nat
  /\ \A s, t \in Snapshot : s <= t => Taken[s] <= Taken[t]
<1>1. Taken \in Seq(Nat) /\ Taken # <<>>
  BY PlanetAssumption
<1>2. Len(Taken) \in Nat /\ Snapshot = 1 .. Len(Taken) /\ \A s \in Snapshot : Taken[s] \in Nat
  BY <1>1 DEF Snapshot
<1>3. Len(Taken) # 0
  BY <1>1
<1>4. ASSUME NEW s \in Snapshot, NEW t \in Snapshot, s <= t PROVE Taken[s] <= Taken[t]
  BY <1>2, <1>4, PlanetAssumption DEF Snapshot
<1> QED
  BY <1>2, <1>3, <1>4

LEMMA PlanetTypeInit == Init => PlanetType
<1> SUFFICES ASSUME Init PROVE PlanetType
  OBVIOUS
<1>1. now \in 0 .. MaxTime /\ latest \in Snapshot /\ Taken[1] < now
  BY TakenType, PlanetAssumption DEF Init
<1>2. planet \in Planet \cup {None}
  BY PlanetAssumption DEF Init, Planet
<1>3. job = [j \in Job |-> Idle]
  BY DEF Init
<1>4. faults \in 0 .. MaxFaults /\ manual \in 0 .. MaxManual
  BY PlanetAssumption DEF Init
<1>5. TypeOK
  <2>1. job \in [Job -> Memory]
    BY <1>3 DEF Idle, Memory
  <2>2. /\ part \in Snapshot \cup {None} /\ torrent \in Snapshot \cup {None}
        /\ incoming \subseteq Snapshot /\ metadata \in Metadata \cup {None}
        /\ lock \in Job \cup {None} /\ snapshot \in 0 .. MaxTime \cup {None}
        /\ filtered \in 0 .. MaxTime \cup {None}
    BY DEF Init
  <2>3. initialized \in BOOLEAN /\ overlapped \in BOOLEAN
    BY DEF Init
  <2> QED
    BY <1>1, <1>2, <1>4, <2>1, <2>2, <2>3 DEF TypeOK
<1>6. planet # None => planet.time <= now
  BY <1>1, PlanetAssumption DEF Init
<1> QED
  BY <1>1, <1>3, <1>5, <1>6 DEF PlanetType, Fetched, Init, Known, Idle, At

LEMMA PlanetTypeStep == ASSUME PlanetType, [Next]_vars PROVE TypeOK'
<1> USE PlanetAssumption
    DEF TypeOK, Memory, world, bootstrapped, results, starts, Go, At, Idle
<1>0. TypeOK /\ Fetched
  BY DEF PlanetType
<1>1. CASE Tick
  BY <1>0, <1>1 DEF Tick
<1>2. CASE SnapshotAppears
  BY <1>0, <1>2 DEF SnapshotAppears
<1>3. ASSUME NEW j \in Job, JobStarts(j) PROVE TypeOK'
  <2>1. manual' \in 0 .. MaxManual
    BY <1>0, <1>3 DEF JobStarts
  <2> QED
    BY <1>0, <1>3, <2>1 DEF JobStarts
<1>4. ASSUME NEW j \in Job, FetchTorrent(j) PROVE TypeOK'
  BY <1>0, <1>4, ZenonT(40) DEF FetchTorrent
<1>5. ASSUME NEW j \in Job, NotInitialized(j) PROVE TypeOK'
  BY <1>0, <1>5 DEF NotInitialized
<1>6. ASSUME NEW j \in Job, RemovePlanet(j) PROVE TypeOK'
  BY <1>0, <1>6 DEF RemovePlanet
<1>7. ASSUME NEW j \in Job, RemoveMetadata(j) PROVE TypeOK'
  BY <1>0, <1>7 DEF RemoveMetadata
<1>8. ASSUME NEW j \in Job, KeepPlanet(j) PROVE TypeOK'
  BY <1>0, <1>8, ZenonT(40) DEF KeepPlanet
<1>9. ASSUME NEW j \in Job, ReplacePlanet(j) PROVE TypeOK'
  BY <1>0, <1>9 DEF ReplacePlanet
<1>10. ASSUME NEW j \in Job, RefreshMetadata(j) PROVE TypeOK'
  <2>1. metadata' \in Metadata
    BY <1>0, <1>10 DEF RefreshMetadata, Metadata
  <2> QED
    BY <1>0, <1>10, <2>1 DEF RefreshMetadata
<1>11. ASSUME NEW j \in Job, MoveTorrent(j) PROVE TypeOK'
  BY <1>0, <1>11 DEF MoveTorrent
<1>12. ASSUME NEW j \in Job, Download(j) PROVE TypeOK'
  BY <1>0, <1>12 DEF Download
<1>13. ASSUME NEW j \in Job, InstallPlanet(j) PROVE TypeOK'
  <2>1. job[j].new \in 1 .. latest
    BY <1>0, <1>13 DEF InstallPlanet, Fetched
  <2>2. job[j].new \in Snapshot /\ Taken[job[j].new] \in 0 .. MaxTime
    BY <1>0, <2>1, TakenType, SMTT(30) DEF Fetched
  <2>3. planet' \in Planet
    BY <1>13, <2>2 DEF InstallPlanet, Planet
  <2> QED
    BY <1>0, <1>13, <2>3 DEF InstallPlanet
<1>14. ASSUME NEW j \in Job, WriteMetadata(j) PROVE TypeOK'
  <2>1. metadata' \in Metadata
    BY <1>0, <1>14 DEF WriteMetadata, Metadata
  <2> QED
    BY <1>0, <1>14, <2>1 DEF WriteMetadata
<1>15. ASSUME NEW j \in Job, MarkInitialized(j) PROVE TypeOK'
  BY <1>0, <1>15 DEF MarkInitialized
<1>16. ASSUME NEW j \in Job, RunLocked(j) PROVE TypeOK'
  BY <1>0, <1>16 DEF RunLocked
<1>17. ASSUME NEW j \in Job, UpdateStarts(j) PROVE TypeOK'
  BY <1>0, <1>17, ZenonT(40) DEF UpdateStarts
<1>18. ASSUME NEW j \in Job, UpdateEnds(j) PROVE TypeOK'
  <2>1. job[j].base \in Planet
    BY <1>0, <1>18 DEF UpdateEnds, Fetched
  <2>2. PICK time \in job[j].base.time .. now : planet' = [job[j].base EXCEPT !.time = time]
    BY <1>18 DEF UpdateEnds
  <2>3. planet' \in Planet
    <3>1. time \in 0 .. MaxTime
      BY <1>0, <2>1 DEF Planet
    <3> QED
      BY <2>1, <2>2, <3>1 DEF Planet
  <2>4. job' \in [Job -> Memory]
    <3>1. PICK pc \in {"record", "start"} :
            job' = [job EXCEPT ![j].base = None, ![j].pc = pc]
      BY <1>18 DEF UpdateEnds
    <3> QED
      BY <1>0, <3>1, ZenonT(40)
  <2> QED
    BY <1>0, <1>18, <2>3, <2>4 DEF UpdateEnds
<1>19. ASSUME NEW j \in Job, RecordPlanet(j) PROVE TypeOK'
  <2>1. metadata' \in Metadata
    BY <1>0, <1>19 DEF RecordPlanet, Metadata
  <2> QED
    BY <1>0, <1>19, <2>1 DEF RecordPlanet
<1>20. ASSUME NEW j \in Job, RecordSnapshot(j) PROVE TypeOK'
  <2>1. snapshot' \in 0 .. MaxTime
    BY <1>0, <1>20 DEF RecordSnapshot, Metadata, Planet
  <2> QED
    BY <1>0, <1>20, <2>1 DEF RecordSnapshot
<1>21. ASSUME NEW j \in Job, ExtractFiltered(j) PROVE TypeOK'
  <2>1. filtered' \in 0 .. MaxTime
    BY <1>0, <1>21 DEF ExtractFiltered, Planet
  <2> QED
    BY <1>0, <1>21, <2>1 DEF ExtractFiltered
<1>22. ASSUME NEW j \in Job, JobEnds(j) PROVE TypeOK'
  BY <1>0, <1>22 DEF JobEnds
<1>23. ASSUME NEW j \in Job, Fails(j) \/ FindsMissing(j) PROVE TypeOK'
  BY <1>0, <1>23, SMTT(30) DEF Fails, FindsMissing, Abort
<1>24. CASE UNCHANGED vars
  BY <1>0, <1>24 DEF vars
<1> QED
  BY <1>1, <1>2, <1>3, <1>4, <1>5, <1>6, <1>7, <1>8, <1>9, <1>10, <1>11, <1>12, <1>13, <1>14, <1>15, <1>16, <1>17, <1>18, <1>19, <1>20, <1>21, <1>22, <1>23, <1>24
     DEF Next, Step, Bootstrap, Rebuild

LEMMA FetchedStep == ASSUME PlanetType, [Next]_vars PROVE Fetched'
<1> USE PlanetAssumption
    DEF Fetched, Known, Memory, world, bootstrapped, results, starts, Go, At, Idle
<1>0. /\ Fetched /\ job \in [Job -> Memory] /\ latest \in Nat /\ now \in Nat
      /\ planet \in Planet \cup {None} /\ 1 \in 1 .. latest
      /\ filtered # None => filtered \in Nat
      /\ planet # None => planet.time \in Nat
  BY TakenType DEF PlanetType, TypeOK, Planet
<1>1. CASE Tick
  BY <1>0, <1>1, TakenType, SMTT(30) DEF Tick, PlanetType, TypeOK
<1>2. CASE SnapshotAppears
  BY <1>0, <1>2 DEF SnapshotAppears
<1>3. ASSUME NEW j \in Job, JobStarts(j) PROVE Fetched'
  BY <1>0, <1>3 DEF JobStarts
<1>4. ASSUME NEW j \in Job, FetchTorrent(j) PROVE Fetched'
  BY <1>0, <1>4 DEF FetchTorrent
<1>5. ASSUME NEW j \in Job, NotInitialized(j) PROVE Fetched'
  BY <1>0, <1>5 DEF NotInitialized
<1>6. ASSUME NEW j \in Job, RemovePlanet(j) PROVE Fetched'
  BY <1>0, <1>6 DEF RemovePlanet
<1>7. ASSUME NEW j \in Job, RemoveMetadata(j) PROVE Fetched'
  BY <1>0, <1>7 DEF RemoveMetadata
<1>8. ASSUME NEW j \in Job, KeepPlanet(j) PROVE Fetched'
  BY <1>0, <1>8 DEF KeepPlanet
<1>9. ASSUME NEW j \in Job, ReplacePlanet(j) PROVE Fetched'
  BY <1>0, <1>9 DEF ReplacePlanet
<1>10. ASSUME NEW j \in Job, RefreshMetadata(j) PROVE Fetched'
  BY <1>0, <1>10 DEF RefreshMetadata
<1>11. ASSUME NEW j \in Job, MoveTorrent(j) PROVE Fetched'
  BY <1>0, <1>11 DEF MoveTorrent
<1>12. ASSUME NEW j \in Job, Download(j) PROVE Fetched'
  BY <1>0, <1>12 DEF Download
<1>13. ASSUME NEW j \in Job, InstallPlanet(j) PROVE Fetched'
  <2>1. job[j].new \in 1 .. latest /\ job[j].new \in Snapshot /\ latest \in Snapshot
    BY <1>0, <1>13, TakenType DEF InstallPlanet, PlanetType, TypeOK
  <2>2. Taken[job[j].new] <= Taken[latest] /\ Taken[job[j].new] \in Nat /\ Taken[latest] \in Nat
    BY <2>1, TakenType
  <2>3. planet'.time <= now
    BY <1>0, <1>13, <2>2 DEF InstallPlanet
  <2> QED
    BY <1>0, <1>13, <2>3 DEF InstallPlanet
<1>14. ASSUME NEW j \in Job, WriteMetadata(j) PROVE Fetched'
  BY <1>0, <1>14 DEF WriteMetadata
<1>15. ASSUME NEW j \in Job, MarkInitialized(j) PROVE Fetched'
  BY <1>0, <1>15 DEF MarkInitialized
<1>16. ASSUME NEW j \in Job, RunLocked(j) PROVE Fetched'
  BY <1>0, <1>16 DEF RunLocked
<1>17. ASSUME NEW j \in Job, UpdateStarts(j) PROVE Fetched'
  BY <1>0, <1>17 DEF UpdateStarts
<1>18. ASSUME NEW j \in Job, UpdateEnds(j) PROVE Fetched'
  BY <1>0, <1>18 DEF UpdateEnds
<1>19. ASSUME NEW j \in Job, RecordPlanet(j) PROVE Fetched'
  BY <1>0, <1>19 DEF RecordPlanet
<1>20. ASSUME NEW j \in Job, RecordSnapshot(j) PROVE Fetched'
  BY <1>0, <1>20 DEF RecordSnapshot
<1>21. ASSUME NEW j \in Job, ExtractFiltered(j) PROVE Fetched'
  BY <1>0, <1>21 DEF ExtractFiltered
<1>22. ASSUME NEW j \in Job, JobEnds(j) PROVE Fetched'
  BY <1>0, <1>22 DEF JobEnds
<1>23. ASSUME NEW j \in Job, Fails(j) \/ FindsMissing(j) PROVE Fetched'
  <2>1. /\ job' = [job EXCEPT ![j] = Idle]
        /\ UNCHANGED <<now, latest, part, torrent, incoming, planet, filtered>>
    BY <1>23 DEF Fails, FindsMissing, Abort
  <2> QED
    BY <1>0, <2>1
<1>24. CASE UNCHANGED vars
  BY <1>0, <1>24 DEF vars
<1> QED
  BY <1>1, <1>2, <1>3, <1>4, <1>5, <1>6, <1>7, <1>8, <1>9, <1>10, <1>11, <1>12, <1>13, <1>14, <1>15, <1>16, <1>17, <1>18, <1>19, <1>20, <1>21, <1>22, <1>23, <1>24
     DEF Next, Step, Bootstrap, Rebuild

(* Every reachable state is well typed, for any snapshots, jobs and faults. *)
THEOREM PlanetTypeCorrect == Spec => []TypeOK
<1>1. PlanetType /\ [Next]_vars => PlanetType'
  BY PlanetTypeStep, FetchedStep DEF PlanetType
<1>2. PlanetType => TypeOK
  BY DEF PlanetType
<1> QED
  BY PlanetTypeInit, <1>1, <1>2, PTL DEF Spec

(***************************************************************************)
(* One job at a time                                                       *)
(***************************************************************************)
Alone == \A j, k \in Job : ~At(j, "idle") /\ ~At(k, "idle") => j = k

(* What the files say when no job has ever overlapped with another: the     *)
(* metadata may lag behind the planet file, which may lag behind the        *)
(* torrent.                                                                 *)
InOrder ==
  /\ initialized => planet # None /\ metadata # None
  /\ metadata # None => /\ metadata.source # None /\ torrent # None
                        /\ metadata.source <= torrent
  /\ metadata # None /\ planet # None =>
       metadata.source <= planet.source /\ planet.source <= torrent

True(j) == /\ planet # None /\ metadata # None
           /\ metadata = [source |-> planet.source, of |-> planet]

(* What a job can rely on at each of its steps. *)
Relies(j) ==
  /\ job[j].pc \in {"check", "wipe", "forget", "move"} =>
       /\ part = job[j].new /\ part # None
       /\ torrent # None => torrent <= part
  /\ job[j].pc \in {"wipe", "forget"} => ~initialized
  /\ job[j].pc \in {"download", "install", "describe"} =>
       job[j].new # None /\ torrent = job[j].new
  /\ job[j].pc = "describe" => planet # None /\ planet.source = job[j].new
  /\ job[j].pc = "refresh" =>
       planet # None /\ metadata # None /\ metadata.source = planet.source
  /\ job[j].pc \in {"mark", "flock"} => True(j)
  /\ job[j].pc \in {"start", "update", "record", "export", "extract"} =>
       planet # None /\ metadata # None
  /\ job[j].pc = "update" => job[j].base = planet
  /\ job[j].pc \in {"record", "export", "extract"} /\ filtered # None =>
       filtered <= planet.time

JobInv == Alone /\ InOrder /\ \A j \in Job : Relies(j)

Acts(j) == Step(j) \/ Fails(j)

LEMMA OthersIdle ==
  ASSUME PlanetType, Alone, NEW j \in Job, Acts(j), ~overlapped'
  PROVE  /\ ~overlapped
         /\ \A k \in Job : k # j => job'[k].pc = "idle"
<1> USE DEF At, Go, starts, results, bootstrapped, Idle
<1>0. job \in [Job -> Memory] /\ overlapped \in BOOLEAN
  BY DEF PlanetType, TypeOK
<1>1. CASE JobStarts(j)
  BY <1>0, <1>1 DEF JobStarts, Memory
<1>2. CASE ~JobStarts(j)
  <2>1. /\ ~At(j, "idle") /\ UNCHANGED overlapped
        /\ \A k \in Job : k # j => job'[k] = job[k]
    <3>1. CASE Bootstrap(j)
      BY <1>0, <3>1 DEF Bootstrap, FetchTorrent, NotInitialized, RemovePlanet, RemoveMetadata,
         KeepPlanet, ReplacePlanet, RefreshMetadata, MoveTorrent, Download, InstallPlanet,
         WriteMetadata, MarkInitialized
    <3>2. CASE Rebuild(j)
      BY <1>0, <3>2 DEF Rebuild, RunLocked, UpdateStarts, UpdateEnds, RecordPlanet,
         RecordSnapshot, ExtractFiltered, JobEnds
    <3>3. CASE Fails(j) \/ FindsMissing(j)
      BY <1>0, <3>3 DEF Fails, FindsMissing, Abort
    <3> QED
      BY <1>2, <3>1, <3>2, <3>3 DEF Acts, Step
  <2> QED
    BY <2>1 DEF Alone
<1> QED
  BY <1>1, <1>2

(* None is none of the files. *)
LEMMA NoneIsNone ==
  /\ \A s \in Snapshot : s \in Nat /\ s # None
  /\ \A p \in Planet : p # None
  /\ \A s \in Snapshot \cup {None}, p \in Planet : [source |-> s, of |-> p] # None
<1>1. \A s \in Snapshot \cup {None}, p \in Planet : [source |-> s, of |-> p] \in Metadata
  BY DEF Metadata
<1>2. /\ \A n \in Nat : n # None
      /\ \A p \in Planet : p # None
      /\ \A d \in Metadata : d # None
  BY PlanetAssumption
<1>3. \A s \in Snapshot : s \in Nat
  BY TakenType
<1> QED
  BY <1>1, <1>2, <1>3

(* One step of the only job that runs. *)
LEMMA ActsStep ==
  ASSUME PlanetType, PlanetType', JobInv, NEW j \in Job, Acts(j), ~overlapped'
  PROVE  InOrder' /\ Relies(j)'
<1> USE DEF JobInv, InOrder, Relies, True, At, Go, world, starts, results, bootstrapped, Idle
<1>0. /\ TypeOK /\ TypeOK' /\ Fetched /\ job \in [Job -> Memory] /\ Relies(j)
  BY DEF PlanetType, TypeOK
<1>23. /\ latest \in Nat /\ latest # None
       /\ torrent # None => torrent \in 1 .. latest
       /\ job[j].new # None => job[j].new \in 1 .. latest
       /\ part # None => part \in 1 .. latest
  <2>1. latest \in Snapshot
    BY <1>0 DEF TypeOK
  <2> QED
    BY <1>0, <2>1, NoneIsNone DEF Fetched, Known
<1>24. planet # None => planet \in Planet /\ planet.source \in Nat /\ planet.time \in Nat
  BY <1>0, TakenType, SMTT(30) DEF TypeOK, Planet
<1>25. metadata # None =>
        /\ metadata \in Metadata
        /\ metadata.source # None => metadata.source \in Nat
        /\ metadata = [source |-> metadata.source, of |-> metadata.of]
  BY <1>0, TakenType DEF TypeOK, Metadata
<1>1. CASE JobStarts(j)
  BY <1>0, <1>1 DEF JobStarts, Memory
<1>2. CASE FetchTorrent(j)
  <2>1. /\ job'[j].pc = "check" /\ job'[j].new = latest /\ part' = latest
        /\ UNCHANGED <<planet, torrent, metadata, initialized>>
    BY <1>0, <1>2 DEF FetchTorrent, Memory
  <2> QED
    BY <1>0, <1>23, <2>1
<1>3. CASE NotInitialized(j)
  BY <1>0, <1>3 DEF NotInitialized, Initialized, Memory
<1>4. CASE RemovePlanet(j)
  BY <1>0, <1>4 DEF RemovePlanet, Memory
<1>5. CASE RemoveMetadata(j)
  <2>1. /\ job'[j].pc = "move" /\ job'[j].new = job[j].new /\ metadata' = None /\ torrent' = None
        /\ UNCHANGED <<planet, part, initialized>> /\ job[j].pc = "forget"
    BY <1>0, <1>5 DEF RemoveMetadata, Memory
  <2> QED
    BY <1>0, <2>1
<1>6. CASE KeepPlanet(j)
  <2>1. /\ job[j].pc = "check" /\ job'[j].pc = (IF metadata.of = planet THEN "flock" ELSE "refresh")
        /\ UNCHANGED <<planet, metadata, torrent, initialized>>
        /\ initialized /\ torrent = job[j].new /\ metadata.source = job[j].new
    BY <1>0, <1>6 DEF KeepPlanet, Memory, Initialized, Unchanged
  <2>2. planet # None /\ metadata # None /\ metadata.source = planet.source
    <3>1. /\ planet # None /\ metadata # None /\ metadata.source # None
          /\ metadata.source <= planet.source /\ planet.source <= metadata.source
      BY <2>1
    <3>2. metadata.source \in Nat /\ planet.source \in Nat
      BY <1>24, <1>25, <3>1
    <3> HIDE DEF InOrder, Relies, JobInv
    <3> QED
      BY <3>1, <3>2
  <2>3. ASSUME metadata.of = planet PROVE True(j)
    <3>1. metadata = [source |-> metadata.source, of |-> metadata.of]
      BY <1>25, <2>2
    <3> QED
      BY <2>2, <2>3, <3>1
  <2> QED
    BY <1>0, <2>1, <2>2, <2>3
<1>7. CASE ReplacePlanet(j)
  BY <1>0, <1>7 DEF ReplacePlanet, Memory
<1>8. CASE RefreshMetadata(j)
  <2>1. /\ job[j].pc = "refresh" /\ job'[j].pc = "flock"
        /\ metadata # None /\ planet # None /\ metadata.source = planet.source
        /\ metadata' = [source |-> metadata.source, of |-> planet]
        /\ UNCHANGED <<planet, torrent, initialized>>
    BY <1>0, <1>8 DEF RefreshMetadata, Memory
  <2>2. metadata' # None /\ metadata'.source = metadata.source
    <3>1. metadata.source \in Snapshot \cup {None} /\ planet \in Planet
      BY <1>24, <1>25, <2>1 DEF Metadata
    <3> QED
      BY <2>1, <3>1, NoneIsNone
  <2> QED
    BY <1>0, <2>1, <2>2
<1>9. CASE MoveTorrent(j)
  <2>1. /\ job[j].pc = "move" /\ job'[j].pc = "download" /\ job'[j].new = job[j].new
        /\ torrent' = part /\ part = job[j].new /\ part # None
        /\ torrent # None => torrent <= part
        /\ UNCHANGED <<planet, metadata, initialized>>
    BY <1>0, <1>9 DEF MoveTorrent, Memory
  <2>2. /\ metadata # None => /\ torrent # None /\ metadata.source <= part
                              /\ metadata.source # None
        /\ metadata # None /\ planet # None =>
             metadata.source <= planet.source /\ planet.source <= part
    BY <1>23, <1>24, <1>25, <2>1
  <2>3. InOrder'
    BY <2>1, <2>2
  <2>4. Relies(j)'
    BY <2>1
  <2> QED
    BY <2>3, <2>4
<1>10. CASE Download(j)
  BY <1>0, <1>10 DEF Download, Memory
<1>11. CASE InstallPlanet(j)
  <2>1. /\ job[j].pc = "install" /\ job'[j].pc = "describe" /\ job'[j].new = job[j].new
        /\ torrent = job[j].new /\ job[j].new \in 1 .. latest
        /\ planet' = [source |-> job[j].new, time |-> Taken[job[j].new]]
        /\ UNCHANGED <<torrent, metadata, initialized>>
    BY <1>0, <1>23, <1>11 DEF InstallPlanet, Memory
  <2>2. planet' # None /\ planet'.source = torrent
    <3>1. /\ job[j].new \in Snapshot /\ Taken[job[j].new] \in Nat /\ Taken[latest] \in Nat
          /\ Taken[job[j].new] <= Taken[latest]
      BY <1>0, <2>1, TakenType DEF TypeOK
    <3>2. Taken[job[j].new] \in 0 .. MaxTime
      <4>1. Taken[latest] < now /\ now \in 0 .. MaxTime /\ MaxTime \in Nat
        BY <1>0, PlanetAssumption DEF TypeOK, Fetched
      <4> HIDE DEF JobInv, InOrder, Relies, True
      <4> QED
        BY <3>1, <4>1
    <3>3. planet' \in Planet
      BY <2>1, <3>1, <3>2 DEF Planet
    <3> QED
      BY <2>1, <3>3, NoneIsNone
  <2>3. metadata # None => metadata.source # None /\ metadata.source <= torrent
    BY <1>0
  <2>4. InOrder'
    BY <1>23, <2>1, <2>2, <2>3
  <2>5. Relies(j)'
    BY <1>0, <2>1, <2>2
  <2> QED
    BY <2>4, <2>5
<1>12. CASE WriteMetadata(j)
  <2>1. /\ job[j].pc = "describe" /\ job'[j].pc = "mark"
        /\ planet # None /\ torrent = job[j].new /\ torrent # None /\ planet.source = torrent
        /\ metadata' = [source |-> torrent, of |-> planet]
        /\ UNCHANGED <<planet, torrent, initialized>>
    BY <1>0, <1>12 DEF WriteMetadata, Memory
  <2>2. torrent \in Snapshot /\ planet \in Planet
    BY <1>0, <2>1 DEF TypeOK
  <2>3. metadata' # None
    BY <2>1, <2>2, NoneIsNone
  <2> QED
    BY <1>0, <1>23, <2>1, <2>3
<1>13. CASE MarkInitialized(j)
  BY <1>0, <1>13 DEF MarkInitialized, Memory
<1>14. CASE RunLocked(j)
  BY <1>0, <1>14 DEF RunLocked, Memory
<1>15. CASE UpdateStarts(j)
  BY <1>0, <1>15 DEF UpdateStarts, Memory
<1>16. CASE UpdateEnds(j)
  <2>1. /\ job[j].pc = "update" /\ job[j].base = planet /\ planet # None /\ metadata # None
        /\ UNCHANGED <<torrent, metadata, initialized, filtered, now>>
    BY <1>0, <1>16 DEF UpdateEnds
  <2>2. PICK time \in planet.time .. now :
            /\ planet' = [planet EXCEPT !.time = time]
            /\ job' = [job EXCEPT ![j].base = None,
                                  ![j].pc = IF time = now THEN "record" ELSE "start"]
    BY <2>1, <1>16 DEF UpdateEnds
  <2>3. planet' # None /\ planet'.source = planet.source /\ planet'.time = time
    <3>1. planet \in Planet /\ time \in 0 .. MaxTime
      BY <1>0, <1>24, <2>1, <2>2, PlanetAssumption DEF TypeOK
    <3>2. planet' \in Planet /\ planet'.source = planet.source /\ planet'.time = time
      BY <2>2, <3>1 DEF Planet
    <3> QED
      BY <3>2, NoneIsNone
  <2>4. job'[j].pc = IF time = now THEN "record" ELSE "start"
    BY <1>0, <2>2 DEF Memory
  <2>5. time = now /\ filtered # None => filtered <= planet'.time
    BY <1>0, <2>3 DEF Fetched
  <2> QED
    BY <1>0, <2>1, <2>3, <2>4, <2>5
<1>17. CASE RecordPlanet(j)
  <2>1. /\ job[j].pc = "record" /\ job'[j].pc = "export"
        /\ metadata # None /\ planet # None
        /\ metadata' = [source |-> metadata.source, of |-> planet]
        /\ UNCHANGED <<planet, torrent, initialized, filtered>>
    BY <1>0, <1>17 DEF RecordPlanet, Memory
  <2>2. metadata' # None /\ metadata'.source = metadata.source
    <3>1. metadata.source \in Snapshot \cup {None} /\ planet \in Planet
      BY <1>24, <1>25, <2>1 DEF Metadata
    <3> QED
      BY <2>1, <3>1, NoneIsNone
  <2> QED
    BY <1>0, <2>1, <2>2
<1>18. CASE RecordSnapshot(j)
  BY <1>0, <1>18 DEF RecordSnapshot, Memory
<1>19. CASE ExtractFiltered(j)
  BY <1>0, <1>19 DEF ExtractFiltered, Memory
<1>20. CASE JobEnds(j)
  BY <1>0, <1>20 DEF JobEnds, Memory
<1>21. CASE Fails(j) \/ FindsMissing(j)
  BY <1>0, <1>21 DEF Fails, FindsMissing, Abort
<1> QED
  BY <1>1, <1>2, <1>3, <1>4, <1>5, <1>6, <1>7, <1>8, <1>9, <1>10, <1>11, <1>12, <1>13, <1>14, <1>15, <1>16, <1>17, <1>18, <1>19, <1>20, <1>21
     DEF Acts, Step, Bootstrap, Rebuild

LEMMA JobInvStep ==
  ASSUME PlanetType, PlanetType', JobInv, [Next]_vars, ~overlapped'
  PROVE  JobInv'
<1>1. ASSUME NEW j \in Job, Acts(j) PROVE JobInv'
  <2>1. InOrder' /\ Relies(j)' /\ \A k \in Job : k # j => job'[k].pc = "idle"
    BY <1>1, ActsStep, OthersIdle DEF JobInv
  <2> QED
    BY <2>1 DEF JobInv, Alone, Relies, At
<1>2. CASE Tick \/ SnapshotAppears
  BY <1>2 DEF Tick, SnapshotAppears, bootstrapped, results, starts, JobInv, Alone, InOrder,
     Relies, True, At
<1>3. CASE UNCHANGED vars
  BY <1>3 DEF vars, JobInv, Alone, InOrder, Relies, True, At
<1> QED
  BY <1>1, <1>2, <1>3 DEF Next, Acts

LEMMA JobInvInit == Init => JobInv
  BY DEF Init, JobInv, Alone, InOrder, Relies, At, Idle

(* Only a start makes jobs overlap, and nothing mends it; only               *)
(* ExtractFiltered touches the extract; the mark stays.                      *)
LEMMA WhatStays ==
  ASSUME PlanetType, [Next]_vars
  PROVE  /\ overlapped => overlapped'
         /\ overlapped' = overlapped \/ UNCHANGED <<planet, filtered>>
         /\ initialized => initialized'
         /\ UNCHANGED filtered \/ \E j \in Job : ExtractFiltered(j)
<1> USE DEF world, starts, results, bootstrapped
<1>1. ASSUME NEW j \in Job, Step(j) \/ Fails(j)
      PROVE  /\ overlapped => overlapped'
             /\ overlapped' = overlapped \/ UNCHANGED <<planet, filtered>>
             /\ initialized => initialized'
             /\ UNCHANGED filtered \/ ExtractFiltered(j)
  <2>1. CASE Bootstrap(j)
    BY <2>1 DEF Bootstrap, FetchTorrent, NotInitialized, RemovePlanet, RemoveMetadata,
       KeepPlanet, ReplacePlanet, RefreshMetadata, MoveTorrent, Download, InstallPlanet,
       WriteMetadata, MarkInitialized
  <2>2. CASE RunLocked(j) \/ UpdateStarts(j) \/ UpdateEnds(j) \/ RecordPlanet(j)
             \/ RecordSnapshot(j) \/ JobEnds(j)
    BY <2>2 DEF RunLocked, UpdateStarts, UpdateEnds, RecordPlanet, RecordSnapshot, JobEnds
  <2>3. CASE ExtractFiltered(j)
    BY <2>3 DEF ExtractFiltered
  <2>4. CASE Fails(j) \/ FindsMissing(j)
    BY <2>4 DEF Fails, FindsMissing, Abort
  <2>5. CASE JobStarts(j)
    BY <2>5 DEF JobStarts
  <2> QED
    BY <1>1, <2>1, <2>2, <2>3, <2>4, <2>5 DEF Step, Rebuild
<1>2. CASE Tick \/ SnapshotAppears \/ UNCHANGED vars
  BY <1>2 DEF Tick, SnapshotAppears, vars
<1> QED
  BY <1>1, <1>2 DEF Next

(* The inductive invariant: once two jobs have overlapped, nothing more is  *)
(* said of the files than their types.                                      *)
PlanetInv == PlanetType /\ (~overlapped => JobInv)

LEMMA PlanetInvariant == Spec => []PlanetInv
<1>1. Init => PlanetInv
  BY PlanetTypeInit, JobInvInit DEF PlanetInv
<1>2. ASSUME PlanetInv, [Next]_vars PROVE PlanetInv'
  <2>1. PlanetType /\ PlanetType'
    BY <1>2, PlanetTypeStep, FetchedStep DEF PlanetInv, PlanetType
  <2>2. ASSUME ~overlapped' PROVE JobInv'
    <3>1. JobInv
      BY <1>2, <2>1, <2>2, WhatStays DEF PlanetInv
    <3> QED
      BY <1>2, <2>1, <2>2, <3>1, JobInvStep
  <2> QED
    BY <2>1, <2>2 DEF PlanetInv
<1> QED
  BY <1>1, <1>2, PTL DEF Spec

(* When the rebuild starts, planet-download.json is true of the planet file *)
(* at hand, unless jobs overlap.                                            *)
THEOREM MetadataIsTrue == Spec => []MetadataTrue
<1>1. PlanetInv => MetadataTrue
  BY DEF PlanetInv, JobInv, Relies, True, MetadataTrue, At
<1> QED
  BY PlanetInvariant, <1>1, PTL

(* After the first initialization no job is ever without a planet file,     *)
(* unless jobs overlap.                                                     *)
THEOREM PlanetIsKept == Spec => PlanetKept
<1>1. ASSUME PlanetInv, PlanetInv', [Next]_vars
      PROVE  initialized /\ ~overlapped => planet' # None
  <2> SUFFICES ASSUME initialized, ~overlapped PROVE planet' # None
    OBVIOUS
  <2>1. initialized' /\ (overlapped' = overlapped \/ UNCHANGED planet) /\ planet # None
    BY <1>1, WhatStays DEF PlanetInv, JobInv, InOrder
  <2>2. CASE ~overlapped'
    BY <1>1, <2>1, <2>2 DEF PlanetInv, JobInv, InOrder
  <2> QED
    BY <2>1, <2>2
<1> QED
  BY PlanetInvariant, <1>1, PTL DEF Spec, PlanetKept

(* The extract never goes back in time, although a new snapshot is older    *)
(* than the planet file it replaces, unless jobs overlap.                   *)
THEOREM ExtractGoesForward == Spec => ExtractForward
<1>1. ASSUME PlanetInv, [Next]_vars
      PROVE  filtered # None /\ ~overlapped => filtered' # None /\ filtered' >= filtered
  <2> SUFFICES ASSUME filtered # None, ~overlapped
               PROVE  filtered' # None /\ filtered' >= filtered
    OBVIOUS
  <2>1. filtered \in Nat
    BY <1>1 DEF PlanetInv, PlanetType, TypeOK
  <2>2. ASSUME NEW j \in Job, ExtractFiltered(j)
        PROVE  filtered' # None /\ filtered' >= filtered
    <3>1. filtered' = planet.time /\ planet # None /\ filtered <= planet.time
      BY <1>1, <2>2 DEF ExtractFiltered, PlanetInv, JobInv, Relies, At
    <3>2. planet.time \in Nat
      BY <1>1, <3>1 DEF PlanetInv, PlanetType, TypeOK, Planet
    <3> QED
      BY <2>1, <3>1, <3>2, PlanetAssumption
  <2> QED
    BY <1>1, <2>1, <2>2, WhatStays DEF PlanetInv
<1> QED
  BY PlanetInvariant, <1>1, PTL DEF Spec, ExtractForward
=============================================================================
