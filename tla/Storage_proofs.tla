--------------------------- MODULE Storage_proofs ---------------------------
(***************************************************************************)
(* Proofs about module Storage, for any applications, configurations,      *)
(* desires and bounds.                                                     *)
(***************************************************************************)
EXTENDS MCStorage, TLAPS

Labels == {"none", "sync", "volumes", "lock", "get", "copy", "rmdir", "store",
           "read", "apply", "done"}
Routines == [pc : Labels, todo : SUBSET Cfgs, cur : SUBSET Cfgs, ino : SUBSET Apps]
Reports == [apps : SUBSET Apps, finished : SUBSET Jobs]
Cleanings == [pc : {"idle", "configs", "apps", "delete"}, desire : SUBSET Apps, report : Reports,
              cfgs : SUBSET Cfgs, dels : SUBSET Cfgs, cur : SUBSET Cfgs]

NodeTypes == /\ desire \subseteq Apps /\ OneVersion(desire) /\ report \in Reports
             /\ running \subseteq Apps /\ OneVersion(running) /\ finished \subseteq Jobs
DiskTypes == /\ apps \subseteq Apps /\ cfgs \subseteq Cfgs
             /\ file \in [Cfgs -> {"absent", "partial", "good"}]
             /\ lock \in [Cfgs -> SUBSET Apps]

\* TypeOK with the record of the cleaning goroutine.
StorageTypes == /\ NodeTypes /\ DiskTypes
                /\ eng \in {"idle", "recycle", "collect", "apply"}
                /\ gor \in [Apps -> Routines]
                /\ cln \in Cleanings

\* A report names one version of an application, with its record in the
\* store, and only jobs of it as finished.
Backed(r) == r.apps \subseteq apps /\ OneVersion(r.apps) /\ r.finished \subseteq r.apps

\* What is listed, or is about to be, has its record in the store.
Recorded == /\ running \subseteq apps /\ finished \subseteq running
            /\ Backed(report) /\ Backed(cln.report)
            /\ \A a \in Apps : gor[a].pc \in {"read", "apply"} => a \in apps

\* What cleaning is about to delete spares the settled applications.
Spared == /\ cln.pc # "delete" => cln.dels = {} /\ cln.cur = {}
          /\ \A c \in cln.dels \cup cln.cur : \A a \in Settled : c \in Uses[a] => Shadowed(c)

StorageInv == StorageTypes /\ Recorded /\ Spared

-----------------------------------------------------------------------------
(* The actions and the goroutines of the applications.                     *)

Loads(a, c) == \/ OpenLock(a, c) \/ KeepObject(a, c) \/ GetObject(a, c) \/ StartCopy(a, c)
               \/ EndCopy(a, c) \/ DownloadFails(a, c) \/ RemoveDir(a, c) \/ StoreConfig(a, c)
Works(a) == SyncResource(a) \/ StoreApplication(a) \/ ReadRecords(a) \/ ApplyApp(a) \/ RoutineFails(a)

\* The actions, as the proofs take them.
LEMMA Actions ==
  ASSUME Next
  PROVE  \/ NewDesire \/ Pressure \/ Recycle \/ Collect \/ JoinApply
         \/ CleanGet \/ CleanConfigs \/ CleanApps \/ CleanDone \/ Crash
         \/ \E a \in Apps : Works(a) \/ JobSucceeds(a) \/ \E c \in Cfgs : Loads(a, c) \/ Panic(a, c)
         \/ \E c \in Cfgs : CleanRecord(c) \/ CleanFile(c)
  BY DEF Next, EngineStep, CleanStep, RoutineStep, Works, Loads

\* The goroutine of a goes on with record r.
GoesOn(a) == \E r \in Routines : /\ gor' = [gor EXCEPT ![a] = r]
                                 /\ (r.pc \in {"read", "apply"} => a \in apps')

\* Records of goroutines.
LEMMA RoutineTypes ==
  /\ NoRoutine \in Routines /\ NoRoutine.pc = "none"
  /\ \A l \in Labels : [NoRoutine EXCEPT !.pc = l] \in Routines /\ [NoRoutine EXCEPT !.pc = l].pc = l
<1>1. NoRoutine \in Routines /\ NoRoutine.pc = "none"
  BY DEF NoRoutine, Routines, Labels
<1> QED
  BY <1>1 DEF Routines

\* A goroutine that goes on keeps types and records.
LEMMA GoesOnKeeps ==
  ASSUME gor \in [Apps -> Routines], NEW a \in Apps, GoesOn(a), apps \subseteq apps',
         \A b \in Apps : gor[b].pc \in {"read", "apply"} => b \in apps
  PROVE  /\ gor' \in [Apps -> Routines]
         /\ \A b \in Apps : gor'[b].pc \in {"read", "apply"} => b \in apps'
<1>1. PICK r \in Routines : /\ gor' = [gor EXCEPT ![a] = r]
                            /\ (r.pc \in {"read", "apply"} => a \in apps')
  BY DEF GoesOn
<1>2. gor' \in [Apps -> Routines] /\ gor'[a] = r /\ \A b \in Apps \ {a} : gor'[b] = gor[b]
  BY <1>1
<1>3. ASSUME NEW b \in Apps, gor'[b].pc \in {"read", "apply"} PROVE b \in apps'
  <2>1. CASE b = a
    BY <1>1, <1>2, <1>3, <2>1
  <2>2. CASE b # a
    BY <1>2, <1>3, <2>2
  <2> QED
    BY <2>1, <2>2
<1> QED
  BY <1>2, <1>3

\* A goroutine while it downloads.
LEMMA LoadFacts ==
  ASSUME StorageTypes, NEW a \in Apps, NEW c \in Cfgs, Loads(a, c)
  PROVE  /\ UNCHANGED <<desire, report, running, finished, apps, eng, cln>>
         /\ DiskTypes' /\ GoesOn(a)
<1>1. UNCHANGED <<desire, report, running, finished, apps, eng, cln>>
  BY DEF Loads, OpenLock, KeepObject, GetObject, StartCopy, EndCopy, DownloadFails, RemoveDir,
         StoreConfig, shadow, ami, disk
<1>2. /\ gor[a] \in Routines /\ {c} \in SUBSET Cfgs /\ {} \in SUBSET Cfgs /\ {} \in SUBSET Apps
      /\ lock \in [Cfgs -> SUBSET Apps] /\ lock[c] \in SUBSET Apps /\ {a} \in SUBSET Apps
  BY DEF StorageTypes, DiskTypes
<1>3. DiskTypes'
  <2>1. /\ cfgs' \subseteq Cfgs /\ apps' \subseteq Apps
    BY <1>1 DEF Loads, OpenLock, KeepObject, GetObject, StartCopy, EndCopy, DownloadFails, RemoveDir,
           StoreConfig, disk, StorageTypes, DiskTypes
  <2>2. file' \in [Cfgs -> {"absent", "partial", "good"}]
    <3>1. \/ UNCHANGED file
          \/ \E f \in {"absent", "partial", "good"} : file' = [file EXCEPT ![c] = f]
      BY DEF Loads, OpenLock, KeepObject, GetObject, StartCopy, EndCopy, DownloadFails, RemoveDir,
             StoreConfig, disk, StorageTypes, DiskTypes, Copied
    <3> QED
      BY <3>1 DEF StorageTypes, DiskTypes
  <2>3. lock' \in [Cfgs -> SUBSET Apps]
    <3>1. UNCHANGED lock \/ \E i \in SUBSET Apps : lock' = [lock EXCEPT ![c] = i]
      BY <1>2 DEF Loads, OpenLock, KeepObject, GetObject, StartCopy, EndCopy, DownloadFails, RemoveDir,
             StoreConfig, disk, Unlock
    <3> QED
      BY <1>2, <3>1
  <2> QED
    BY <2>1, <2>2, <2>3 DEF DiskTypes
<1>4. ASSUME NEW r \in Routines, gor' = [gor EXCEPT ![a] = r], r.pc \notin {"read", "apply"}
      PROVE  GoesOn(a)
  BY <1>4 DEF GoesOn
<1>5. ASSUME OpenLock(a, c) PROVE GoesOn(a)
  <2>1. PICK i : i = IF lock[c] = {} THEN {a} ELSE lock[c]
    OBVIOUS
  <2>2. i \in SUBSET Apps
    BY <1>2, <2>1
  <2>3. PICK r : r = [gor[a] EXCEPT !.pc = "lock", !.cur = {c}, !.ino = i]
    OBVIOUS
  <2>4. r \in Routines /\ r.pc = "lock"
    BY <1>2, <2>2, <2>3 DEF Routines, Labels
  <2>5. gor' = [gor EXCEPT ![a] = r]
    BY <1>5, <2>1, <2>3 DEF OpenLock, Routine
  <2> QED
    BY <1>4, <2>4, <2>5
<1>6. ASSUME NEW l \in Labels \ {"read", "apply"},
             gor' = [gor EXCEPT ![a] = [gor[a] EXCEPT !.pc = l, !.ino = {}]]
      PROVE  GoesOn(a)
  <2>1. PICK r : r = [gor[a] EXCEPT !.pc = l, !.ino = {}]
    OBVIOUS
  <2>2. r \in Routines /\ r.pc = l
    BY <1>2, <2>1 DEF Routines
  <2> QED
    BY <1>4, <1>6, <2>1, <2>2
<1>7. ASSUME NEW l \in Labels \ {"read", "apply"},
             gor' = [gor EXCEPT ![a] = [gor[a] EXCEPT !.pc = l]]
      PROVE  GoesOn(a)
  <2>1. PICK r : r = [gor[a] EXCEPT !.pc = l]
    OBVIOUS
  <2>2. r \in Routines /\ r.pc = l
    BY <1>2, <2>1 DEF Routines
  <2> QED
    BY <1>4, <1>7, <2>1, <2>2
<1>8. {"store", "rmdir", "get", "copy", "done"} \subseteq Labels \ {"read", "apply"}
  BY DEF Labels
<1>9. ASSUME KeepObject(a, c) \/ DownloadFails(a, c) PROVE GoesOn(a)
  BY <1>6, <1>8, <1>9 DEF KeepObject, DownloadFails, Routine
<1>10. ASSUME GetObject(a, c) \/ StartCopy(a, c) PROVE GoesOn(a)
  BY <1>7, <1>8, <1>10 DEF GetObject, StartCopy, Routine
<1>11. ASSUME EndCopy(a, c) PROVE GoesOn(a)
  <2>1. PICK f : gor' = [gor EXCEPT ![a] =
                    [gor[a] EXCEPT !.pc = IF c \in Md5 /\ f = "partial" THEN "rmdir" ELSE "store",
                                   !.ino = {}]]
    BY <1>11 DEF EndCopy, Routine
  <2>2. PICK l : l = IF c \in Md5 /\ f = "partial" THEN "rmdir" ELSE "store"
    OBVIOUS
  <2>3. l \in Labels \ {"read", "apply"} /\ gor' = [gor EXCEPT ![a] = [gor[a] EXCEPT !.pc = l, !.ino = {}]]
    BY <1>8, <2>1, <2>2
  <2> QED
    BY <1>6, <2>3
<1>12. ASSUME RemoveDir(a, c) PROVE GoesOn(a)
  <2>1. PICK r : r = [NoRoutine EXCEPT !.pc = "done", !.cur = {c}]
    OBVIOUS
  <2>2. r \in Routines /\ r.pc = "done"
    BY <1>2, <2>1 DEF NoRoutine, Routines, Labels
  <2>3. gor' = [gor EXCEPT ![a] = r]
    BY <1>12, <2>1 DEF RemoveDir, Routine
  <2> QED
    BY <1>4, <2>2, <2>3
<1>13. ASSUME StoreConfig(a, c) PROVE GoesOn(a)
  <2>1. PICK r : r = [gor[a] EXCEPT !.pc = "volumes", !.cur = {}, !.todo = gor[a].todo \ {c}]
    OBVIOUS
  <2>2. r \in Routines /\ r.pc = "volumes"
    BY <1>2, <2>1 DEF Routines, Labels
  <2>3. gor' = [gor EXCEPT ![a] = r]
    BY <1>13, <2>1 DEF StoreConfig, Routine
  <2> QED
    BY <1>4, <2>2, <2>3
<1> QED
  BY <1>1, <1>3, <1>5, <1>9, <1>10, <1>11, <1>12, <1>13 DEF Loads

\* A goroutine before and after its downloads.
LEMMA WorkFacts ==
  ASSUME StorageTypes, Recorded, NEW a \in Apps, Works(a)
  PROVE  /\ UNCHANGED <<desire, report, cfgs, file, lock, eng, cln>>
         /\ (apps' = apps \/ apps' = apps \cup {a})
         /\ GoesOn(a)
         /\ \/ UNCHANGED <<running, finished>>
            \/ /\ a \in apps
               /\ running' = {b \in running : b.name # a.name} \cup {a}
               /\ finished' = {b \in finished : b.name # a.name}
<1>1. /\ UNCHANGED <<desire, report, cfgs, file, lock, eng, cln>>
      /\ (apps' = apps \/ apps' = apps \cup {a})
  BY DEF Works, SyncResource, StoreApplication, ReadRecords, ApplyApp, RoutineFails, shadow, ami, disk
<1>2. \/ UNCHANGED <<running, finished>>
      \/ /\ a \in apps
         /\ running' = {b \in running : b.name # a.name} \cup {a}
         /\ finished' = {b \in finished : b.name # a.name}
  BY DEF Works, SyncResource, StoreApplication, ReadRecords, ApplyApp, RoutineFails, ami, Recorded
<1>3. gor[a] \in Routines /\ Uses[a] \in SUBSET Cfgs
  BY UsesAssumption DEF StorageTypes
<1>4. ASSUME NEW r \in Routines, gor' = [gor EXCEPT ![a] = r],
             r.pc \in {"read", "apply"} => a \in apps'
      PROVE  GoesOn(a)
  BY <1>4 DEF GoesOn
<1>5. ASSUME SyncResource(a) PROVE GoesOn(a)
  <2>1. PICK r : r = [gor[a] EXCEPT !.pc = "volumes", !.todo = Uses[a]]
    OBVIOUS
  <2>2. r \in Routines /\ r.pc = "volumes"
    BY <1>3, <2>1 DEF Routines, Labels
  <2>3. gor' = [gor EXCEPT ![a] = r]
    BY <1>5, <2>1 DEF SyncResource, Routine
  <2> QED
    BY <1>4, <2>2, <2>3
<1>6. ASSUME StoreApplication(a) PROVE GoesOn(a)
  <2>1. PICK r : r = [gor[a] EXCEPT !.pc = "read"]
    OBVIOUS
  <2>2. r \in Routines
    BY <1>3, <2>1 DEF Routines, Labels
  <2>3. gor' = [gor EXCEPT ![a] = r] /\ a \in apps'
    BY <1>6, <2>1 DEF StoreApplication, Routine
  <2> QED
    BY <1>4, <2>2, <2>3
<1>7. ASSUME ReadRecords(a) PROVE GoesOn(a)
  <2>1. PICK l : l = IF Uses[a] \subseteq cfgs THEN "apply" ELSE "done"
    OBVIOUS
  <2>2. l \in Labels
    BY <2>1 DEF Labels
  <2>3. PICK r : r = [gor[a] EXCEPT !.pc = l]
    OBVIOUS
  <2>4. r \in Routines
    BY <1>3, <2>2, <2>3 DEF Routines
  <2>5. gor' = [gor EXCEPT ![a] = r] /\ a \in apps'
    BY <1>7, <2>1, <2>3 DEF ReadRecords, Routine, Recorded, disk
  <2> QED
    BY <1>4, <2>4, <2>5
<1>8. ASSUME ApplyApp(a) \/ RoutineFails(a) PROVE GoesOn(a)
  <2>1. PICK r : r = [NoRoutine EXCEPT !.pc = "done"]
    OBVIOUS
  <2>2. r \in Routines /\ r.pc = "done"
    BY <2>1, RoutineTypes DEF Labels
  <2>3. gor' = [gor EXCEPT ![a] = r]
    BY <1>8, <2>1 DEF ApplyApp, RoutineFails, Routine
  <2> QED
    BY <1>4, <2>2, <2>3
<1> QED
  BY <1>1, <1>2, <1>5, <1>6, <1>7, <1>8 DEF Works

-----------------------------------------------------------------------------
(* The cleaning goroutine.                                                 *)

\* Its record at rest.
LEMMA NoCleanTypes ==
  /\ NoClean \in Cleanings /\ NoClean.pc = "idle" /\ NoClean.dels = {} /\ NoClean.cur = {}
  /\ NoClean.report.apps = {} /\ NoClean.report.finished = {}
  BY DEF NoClean, Cleanings, Reports

\* What getUsedObjectCfgs does not keep is used by no settled application,
\* or shadowed by another version.
LEMMA CleanAppsSpares ==
  ASSUME StorageTypes, Recorded,
         NEW occ, occ = apps \cap Occupied(cln.desire, cln.report.apps),
         NEW done, done = getFinishedJobs(occ, cln.report.finished),
         NEW u \in getUsedObjectCfgs(occ, done),
         NEW a \in Settled, NEW c \in Uses[a], c \notin u
  PROVE  Shadowed(c)
<1>1. a \in cln.desire /\ a \in cln.report.apps /\ a \notin Jobs \cap cln.report.finished
  BY DEF Settled
<1>2. a \in occ
  BY <1>1 DEF Occupied, Recorded, Backed
<1>3. a \notin done
  <2>1. ASSUME NEW b \in cln.report.finished, b.name = a.name PROVE b = a
    BY <1>1, <2>1 DEF Recorded, Backed, OneVersion
  <2> QED
    BY <1>1, <2>1 DEF getFinishedJobs
<1>4. c \in usedBy(occ, done)
  BY <1>2, <1>3 DEF usedBy
<1>5. PICK d \in u : d.name = c.name
  BY <1>4 DEF getUsedObjectCfgs
<1>6. d # c /\ d \in usedBy(occ, done)
  BY <1>5 DEF getUsedObjectCfgs
<1>7. PICK b \in occ : d \in Uses[b]
  BY <1>6 DEF usedBy
<1>8. b \in cln.desire \cup cln.report.apps
  BY <1>7 DEF Occupied
<1> QED
  BY <1>5, <1>6, <1>7, <1>8 DEF Shadowed

\* Its steps.
Cleaning == \/ CleanGet \/ CleanConfigs \/ CleanApps \/ CleanDone
            \/ \E c \in Cfgs : CleanRecord(c) \/ CleanFile(c)

\* A step of the cleaning goroutine keeps the invariant.
LEMMA CleaningOK ==
  ASSUME StorageInv, Cleaning
  PROVE  StorageInv'
<1>1. /\ UNCHANGED <<desire, report, running, finished, apps, eng, gor>>
  BY DEF Cleaning, CleanGet, CleanConfigs, CleanApps, CleanDone, CleanRecord, CleanFile,
         shadow, ami, disk
<1>2. DiskTypes'
  BY <1>1 DEF Cleaning, CleanGet, CleanConfigs, CleanApps, CleanDone, CleanRecord, CleanFile,
         disk, Unlock, StorageInv, StorageTypes, DiskTypes
<1>3. NodeTypes'
  BY <1>1 DEF StorageInv, StorageTypes, NodeTypes, OneVersion
<1>4. ASSUME cln' \in Cleanings, Backed(cln.report)', Spared' PROVE StorageInv'
  BY <1>1, <1>2, <1>3, <1>4 DEF StorageInv, StorageTypes, Recorded, Backed
<1>5. cln \in Cleanings /\ report \in Reports /\ Backed(report) /\ Backed(cln.report)
  BY DEF StorageInv, StorageTypes, NodeTypes, Recorded
<1>6. CASE CleanGet
  <2>1. cln' = [NoClean EXCEPT !.pc = "configs", !.desire = desire, !.report = report]
    BY <1>6 DEF CleanGet
  <2>2. /\ cln' \in Cleanings /\ cln'.report = report /\ cln'.pc = "configs"
        /\ cln'.dels = {} /\ cln'.cur = {}
    BY <1>5, <2>1, NoCleanTypes DEF Cleanings, StorageInv, StorageTypes, NodeTypes
  <2>3. Backed(cln.report)'
    BY <1>1, <1>5, <2>2 DEF Backed
  <2>4. Spared'
    BY <2>2 DEF Spared
  <2> QED
    BY <1>4, <2>2, <2>3, <2>4
<1>7. CASE CleanConfigs
  <2>1. cln' = [cln EXCEPT !.pc = "apps", !.cfgs = cfgs] /\ cln.pc = "configs"
    BY <1>7 DEF CleanConfigs
  <2>2. cfgs \in SUBSET Cfgs
    BY DEF StorageInv, StorageTypes, DiskTypes
  <2>3. /\ cln' \in Cleanings /\ cln'.report = cln.report /\ cln'.pc = "apps"
        /\ cln'.dels = cln.dels /\ cln'.cur = cln.cur
    BY <1>5, <2>1, <2>2 DEF Cleanings
  <2>4. Backed(cln.report)'
    BY <1>1, <1>5, <2>3 DEF Backed
  <2>5. Spared'
    BY <2>1, <2>3 DEF Spared, StorageInv
  <2> QED
    BY <1>4, <2>3, <2>4, <2>5
<1>8. CASE CleanApps
  <2>1. PICK occ : occ = apps \cap Occupied(cln.desire, cln.report.apps)
    OBVIOUS
  <2>2. PICK done : done = getFinishedJobs(occ, cln.report.finished)
    OBVIOUS
  <2>3. PICK u \in getUsedObjectCfgs(occ, done) :
          \E auto : cln' = [cln EXCEPT !.pc = "delete", !.dels = (cln.cfgs \ u) \cap auto]
    BY <1>8, <2>1, <2>2 DEF CleanApps
  <2>4. PICK D : /\ cln' = [cln EXCEPT !.pc = "delete", !.dels = D]
                 /\ \E auto : D = (cln.cfgs \ u) \cap auto
    BY <2>3
  <2>5. D \in SUBSET Cfgs
    BY <1>5, <2>4 DEF Cleanings
  <2>6. /\ cln' \in Cleanings /\ cln'.report = cln.report /\ cln'.desire = cln.desire
        /\ cln'.pc = "delete" /\ cln'.dels = D /\ cln'.cur = cln.cur
    BY <1>5, <2>4, <2>5 DEF Cleanings
  <2>7. Backed(cln.report)'
    BY <1>1, <1>5, <2>6 DEF Backed
  <2>8. cln.cur = {}
    BY <1>8 DEF CleanApps, StorageInv, Spared
  <2>9. Settled' = Settled /\ \A c \in Cfgs : Shadowed(c)' <=> Shadowed(c)
    BY <2>6 DEF Settled, Shadowed
  <2>10. ASSUME NEW c \in D, NEW a \in Settled, c \in Uses[a] PROVE Shadowed(c)
    <3>1. c \notin u
      BY <2>4, <2>10
    <3> QED
      BY <2>1, <2>2, <2>10, <3>1, CleanAppsSpares DEF StorageInv
  <2>11. Spared'
    BY <2>5, <2>6, <2>8, <2>9, <2>10 DEF Spared
  <2> QED
    BY <1>4, <2>6, <2>7, <2>11
<1>9. CASE CleanDone
  <2>1. cln' = NoClean
    BY <1>9 DEF CleanDone
  <2>2. Backed(cln.report)' /\ Spared'
    BY <2>1, NoCleanTypes DEF Backed, Spared, OneVersion
  <2> QED
    BY <1>4, <2>1, <2>2, NoCleanTypes
<1>10. ASSUME NEW c \in Cfgs, CleanRecord(c) \/ CleanFile(c) PROVE StorageInv'
  <2>1. cln.pc = "delete"
    BY <1>10 DEF CleanRecord, CleanFile
  <2>2. /\ cln' \in Cleanings /\ cln'.report = cln.report /\ cln'.desire = cln.desire
        /\ cln'.pc = "delete" /\ cln'.dels \cup cln'.cur \subseteq cln.dels \cup cln.cur
    <3>1. ASSUME CleanRecord(c)
          PROVE  /\ cln' = [cln EXCEPT !.cur = {c}, !.dels = cln.dels \ {c}] /\ c \in cln.dels
      BY <3>1 DEF CleanRecord
    <3>2. ASSUME CleanFile(c) PROVE cln' = [cln EXCEPT !.cur = {}]
      BY <3>2 DEF CleanFile
    <3>3. CASE CleanRecord(c)
      <4>1. PICK D : D = cln.dels \ {c}
        OBVIOUS
      <4>2. /\ cln' = [cln EXCEPT !.cur = {c}, !.dels = D] /\ c \in cln.dels
            /\ D \in SUBSET Cfgs /\ {c} \in SUBSET Cfgs
        BY <1>5, <3>1, <3>3, <4>1 DEF Cleanings
      <4>3. /\ cln' \in Cleanings /\ cln'.report = cln.report /\ cln'.desire = cln.desire
            /\ cln'.pc = cln.pc /\ cln'.dels = D /\ cln'.cur = {c}
        BY <1>5, <4>2 DEF Cleanings
      <4> QED
        BY <2>1, <4>1, <4>2, <4>3
    <3>4. CASE CleanFile(c)
      BY <1>5, <2>1, <3>2, <3>4 DEF Cleanings
    <3> QED
      BY <1>10, <3>3, <3>4
  <2>3. Backed(cln.report)'
    BY <1>1, <1>5, <2>2 DEF Backed
  <2>4. Settled' = Settled /\ \A e \in Cfgs : Shadowed(e)' <=> Shadowed(e)
    BY <2>2 DEF Settled, Shadowed
  <2>5. Spared'
    <3>1. cln.dels \cup cln.cur \subseteq Cfgs
      BY <1>5 DEF Cleanings
    <3> QED
      BY <2>2, <2>4, <3>1 DEF Spared, StorageInv
  <2> QED
    BY <1>4, <2>2, <2>3, <2>5
<1> QED
  BY <1>6, <1>7, <1>8, <1>9, <1>10 DEF Cleaning

-----------------------------------------------------------------------------
(* The engine goroutine and the applications.                              *)

\* A step that leaves the cleaning goroutine alone and forgets no record.
LEMMA CleanFrame ==
  ASSUME StorageInv, UNCHANGED cln, apps \subseteq apps'
  PROVE  cln' \in Cleanings /\ Backed(cln.report)' /\ Spared'
<1>1. Spared'
  BY DEF StorageInv, Spared, Settled, Shadowed
<1> QED
  BY <1>1 DEF StorageInv, StorageTypes, Recorded, Backed

\* All other steps keep the invariant.
LEMMA EngineOK ==
  ASSUME StorageInv, Next, ~Cleaning
  PROVE  StorageInv'
<1>1. /\ NodeTypes /\ DiskTypes /\ eng \in {"idle", "recycle", "collect", "apply"}
      /\ gor \in [Apps -> Routines] /\ report \in Reports /\ StorageTypes /\ Recorded
  BY DEF StorageInv, StorageTypes, NodeTypes
<1>2. ASSUME NodeTypes', DiskTypes', eng' \in {"idle", "recycle", "collect", "apply"},
             gor' \in [Apps -> Routines], cln' \in Cleanings, Recorded', Spared'
      PROVE  StorageInv'
  BY <1>2 DEF StorageInv, StorageTypes
<1>3. CASE NewDesire
  <2>1. /\ UNCHANGED <<report, running, finished, apps, cfgs, file, lock, eng, gor, cln>>
        /\ desire' \in Desires
    BY <1>3 DEF NewDesire, ami, disk
  <2>2. NodeTypes'
    BY <1>1, <2>1, DesiresAssumption DEF NodeTypes, OneVersion
  <2>3. DiskTypes' /\ Recorded'
    BY <1>1, <2>1, CleanFrame DEF DiskTypes, Recorded, Backed
  <2> QED
    BY <1>1, <1>2, <2>1, <2>2, <2>3, CleanFrame
<1>4. CASE Pressure
  <2>1. /\ UNCHANGED <<desire, report, running, finished, apps, cfgs, file, lock, gor, cln>>
        /\ eng' = "recycle"
    BY <1>4 DEF Pressure, shadow, ami, disk
  <2>2. NodeTypes' /\ DiskTypes' /\ Recorded'
    BY <1>1, <2>1, CleanFrame DEF NodeTypes, OneVersion, DiskTypes, Recorded, Backed
  <2> QED
    BY <1>1, <1>2, <2>1, <2>2, CleanFrame
<1>5. CASE Recycle
  <2>1. /\ UNCHANGED <<desire, report, running, finished, apps, gor, cln>>
        /\ eng' = "collect" /\ cfgs' \subseteq cfgs
    BY <1>5 DEF Recycle, shadow, ami
  <2>2. PICK gone : /\ file' = [c \in Cfgs |-> IF c \in gone THEN "absent" ELSE file[c]]
                    /\ lock' = [c \in Cfgs |-> IF c \in gone THEN {} ELSE lock[c]]
    BY <1>5 DEF Recycle
  <2>3. DiskTypes'
    BY <1>1, <2>1, <2>2 DEF DiskTypes
  <2>4. NodeTypes' /\ Recorded'
    BY <1>1, <2>1, CleanFrame DEF NodeTypes, OneVersion, Recorded, Backed
  <2> QED
    BY <1>1, <1>2, <2>1, <2>3, <2>4, CleanFrame
<1>6. CASE Collect
  <2>1. /\ UNCHANGED <<desire, apps, cfgs, file, lock, cln>> /\ eng' = "apply"
        /\ report' = [apps |-> running, finished |-> finished]
        /\ running' \subseteq running /\ finished' = finished \cap running'
    BY <1>6 DEF Collect, disk
  <2>2. /\ running \subseteq Apps /\ OneVersion(running) /\ finished \subseteq Jobs
        /\ running \subseteq apps /\ finished \subseteq running
    BY <1>1 DEF NodeTypes, Recorded
  <2>3. report' \in Reports /\ report'.apps = running /\ report'.finished = finished
    BY <2>1, <2>2 DEF Reports
  <2>4. NodeTypes'
    BY <1>1, <2>1, <2>2, <2>3 DEF NodeTypes, OneVersion
  <2>5. DiskTypes'
    BY <1>1, <2>1 DEF DiskTypes
  <2>6. /\ gor' \in [Apps -> Routines]
        /\ \A a \in Apps : gor'[a].pc \notin {"read", "apply"}
    <3>1. gor' = [a \in Apps |-> IF a \in desire \ running
                                 THEN [NoRoutine EXCEPT !.pc = "sync"] ELSE NoRoutine]
      BY <1>6 DEF Collect
    <3>2. PICK s : s = [NoRoutine EXCEPT !.pc = "sync"]
      OBVIOUS
    <3>3. s \in Routines /\ s.pc = "sync"
      BY <3>2, RoutineTypes DEF Labels
    <3> QED
      BY <3>1, <3>2, <3>3, RoutineTypes
  <2>7. Recorded'
    BY <2>1, <2>2, <2>3, <2>6, CleanFrame DEF Recorded, Backed, OneVersion
  <2> QED
    BY <1>2, <2>1, <2>4, <2>5, <2>6, <2>7, CleanFrame
<1>7. ASSUME JoinApply PROVE StorageInv'
  <2>1. /\ UNCHANGED <<desire, report, running, finished, apps, cfgs, file, lock, cln>>
        /\ eng' = "idle" /\ gor' = [a \in Apps |-> NoRoutine]
    BY <1>7 DEF JoinApply, shadow, ami, disk
  <2>2. gor' \in [Apps -> Routines] /\ \A a \in Apps : gor'[a].pc = "none"
    BY <2>1, RoutineTypes
  <2>3. NodeTypes' /\ DiskTypes' /\ Recorded'
    BY <1>1, <2>1, <2>2, CleanFrame DEF NodeTypes, OneVersion, DiskTypes, Recorded, Backed
  <2> QED
    BY <1>2, <2>1, <2>2, <2>3, CleanFrame
<1>8. ASSUME Restarted PROVE StorageInv'
  <2>1. /\ UNCHANGED <<desire, report, running, finished, apps, cfgs, file, lock>>
        /\ eng' = "idle" /\ gor' = [a \in Apps |-> NoRoutine] /\ cln' = NoClean
    BY <1>8 DEF Restarted, shadow, ami, disk
  <2>2. gor' \in [Apps -> Routines] /\ \A a \in Apps : gor'[a].pc = "none"
    BY <2>1, RoutineTypes
  <2>3. cln' \in Cleanings /\ Spared' /\ Backed(cln.report)'
    BY <2>1, NoCleanTypes DEF Spared, Backed, OneVersion
  <2>4. NodeTypes' /\ DiskTypes' /\ Recorded'
    BY <1>1, <2>1, <2>2, <2>3 DEF NodeTypes, OneVersion, DiskTypes, Recorded, Backed
  <2> QED
    BY <1>2, <2>1, <2>2, <2>3, <2>4
<1>9. ASSUME NEW a \in Apps, JobSucceeds(a) PROVE StorageInv'
  <2>1. /\ UNCHANGED <<desire, report, running, apps, cfgs, file, lock, eng, gor, cln>>
        /\ a \in running /\ a \in Jobs /\ finished' = finished \cup {a}
    BY <1>9 DEF JobSucceeds, shadow, disk
  <2>2. NodeTypes' /\ DiskTypes' /\ Recorded'
    BY <1>1, <2>1, CleanFrame DEF NodeTypes, OneVersion, DiskTypes, Recorded, Backed
  <2> QED
    BY <1>1, <1>2, <2>1, <2>2, CleanFrame
<1>10. ASSUME NEW a \in Apps, NEW c \in Cfgs, Loads(a, c) PROVE StorageInv'
  <2>1. /\ UNCHANGED <<desire, report, running, finished, apps, eng, cln>>
        /\ DiskTypes' /\ GoesOn(a)
    BY <1>1, <1>10, LoadFacts
  <2>2. /\ gor' \in [Apps -> Routines]
        /\ \A b \in Apps : gor'[b].pc \in {"read", "apply"} => b \in apps'
    BY <1>1, <2>1, GoesOnKeeps DEF Recorded
  <2>3. NodeTypes' /\ Recorded'
    BY <1>1, <2>1, <2>2, CleanFrame DEF NodeTypes, OneVersion, Recorded, Backed
  <2> QED
    BY <1>1, <1>2, <2>1, <2>2, <2>3, CleanFrame
<1>11. ASSUME NEW a \in Apps, Works(a) PROVE StorageInv'
  <2>1. /\ UNCHANGED <<desire, report, cfgs, file, lock, eng, cln>>
        /\ (apps' = apps \/ apps' = apps \cup {a})
        /\ GoesOn(a)
    BY <1>1, <1>11, WorkFacts
  <2>2. \/ UNCHANGED <<running, finished>>
        \/ /\ a \in apps
           /\ running' = {b \in running : b.name # a.name} \cup {a}
           /\ finished' = {b \in finished : b.name # a.name}
    BY <1>1, <1>11, WorkFacts
  <2>3. /\ gor' \in [Apps -> Routines]
        /\ \A b \in Apps : gor'[b].pc \in {"read", "apply"} => b \in apps'
    BY <1>1, <2>1, GoesOnKeeps DEF Recorded
  <2>4. NodeTypes'
    BY <1>1, <2>1, <2>2 DEF NodeTypes, OneVersion
  <2>5. DiskTypes'
    BY <1>1, <2>1 DEF DiskTypes
  <2>6. running' \subseteq apps' /\ finished' \subseteq running'
    BY <1>1, <2>1, <2>2 DEF Recorded
  <2>7. Recorded'
    BY <1>1, <2>1, <2>3, <2>6, CleanFrame DEF Recorded, Backed
  <2> QED
    BY <1>1, <1>2, <2>1, <2>3, <2>4, <2>5, <2>7, CleanFrame
<1>12. Crash \/ (\E a \in Apps, c \in Cfgs : Panic(a, c)) => Restarted
  BY DEF Crash, Panic
<1> QED
  BY <1>3, <1>4, <1>5, <1>6, <1>7, <1>8, <1>9, <1>10, <1>11, <1>12, Actions DEF Cleaning

-----------------------------------------------------------------------------
(* The downloads: who has opened and who holds which lock file.            *)

Bounds == [updates : Nat, cleans : Nat, pressure : Nat, downloads : Nat, faults : Nat]
Loading == {"lock", "get", "copy"}
Holding == {"get", "copy"}
At(a, S, c) == gor[a].pc \in S /\ gor[a].cur = {c}

\* Nothing cleans.
Quiet == cln.pc = "idle" /\ left \in Bounds /\ left.cleans = 0

\* No goroutine outlives its cycle.
Cycle == eng # "apply" => \A a \in Apps : gor[a].pc = "none"

\* What a goroutine has taken up is still to be done.
ShapeOK(a) ==
  /\ gor[a].todo \subseteq Uses[a]
  /\ gor[a].pc \in {"lock", "get", "copy", "store", "rmdir"} =>
       \E c \in gor[a].todo : gor[a].cur = {c}
  /\ gor[a].pc \in {"read", "apply"} => gor[a].todo = {}

\* The goroutine of x has, or has found, the object of c.
Through(x, c) == /\ c \in Uses[x] /\ gor[x].pc \notin {"none", "sync", "rmdir", "done"}
                 /\ c \notin gor[x].todo \/ At(x, {"store"}, c)

\* The download of c by the goroutine of x has failed, and takes the object
\* away.
GivesUp(x, c) == At(x, {"rmdir", "done"}, c)
Spoiled(c) == \E x \in Apps : GivesUp(x, c)

\* The object is whole and nobody writes it.
Kept(c) == file[c] = "good" /\ \A a \in Apps : ~At(a, Holding, c)

\* Nobody has the object yet: the lock file is still the one that everybody
\* who waits for it or holds it has opened, and one goroutine holds it.
Fresh(c) == /\ \A a \in Apps : ~Through(a, c)
            /\ \A a \in Apps : At(a, Loading, c) => lock[c] # {} /\ gor[a].ino = lock[c]
            /\ \A a, b \in Apps : At(a, Holding, c) /\ At(b, Holding, c) => a = b

\* The lock file is unlinked, so that the lock no longer excludes, only when
\* the object is whole or a download has failed.
DownloadInv == /\ Quiet /\ Cycle /\ \A a \in Apps : ShapeOK(a)
               /\ \A c \in Md5 : Spoiled(c) \/ Kept(c) \/ Fresh(c)

\* The bounds that are spent are not those of cleaning.
LEMMA SpendKeeps ==
  ASSUME Quiet, NEW b \in {"updates", "pressure", "downloads", "faults"}, Spend(b)
  PROVE  left' \in Bounds /\ left'.cleans = 0
<1>1. left \in Bounds /\ left.cleans = 0
  BY DEF Quiet
<1>2. left[b] \in Nat /\ left[b] > 0 /\ left' = [left EXCEPT ![b] = left[b] - 1]
  BY <1>1 DEF Spend, Bounds
<1>3. PICK n \in Nat : n = left[b] - 1
  BY <1>2
<1>4. left' = [left EXCEPT ![b] = n]
  BY <1>2, <1>3
<1>5. CASE b = "updates"
  BY <1>1, <1>4, <1>5 DEF Bounds
<1>6. CASE b = "pressure"
  BY <1>1, <1>4, <1>6 DEF Bounds
<1>7. CASE b = "downloads"
  BY <1>1, <1>4, <1>7 DEF Bounds
<1>8. CASE b = "faults"
  BY <1>1, <1>4, <1>8 DEF Bounds
<1> QED
  BY <1>5, <1>6, <1>7, <1>8

\* With bounds for no cleaning, none begins.
LEMMA NoCleaning ==
  ASSUME Quiet
  PROVE  ~Cleaning
<1>1. left.cleans = 0 /\ cln.pc = "idle"
  BY DEF Quiet
<1>2. ~CleanGet
  BY <1>1 DEF CleanGet, Spend
<1> QED
  BY <1>1, <1>2 DEF Cleaning, CleanConfigs, CleanApps, CleanDone, CleanRecord, CleanFile

\* What a step of the goroutine of a does to the object of c ...
MovesAt(a, c) == /\ GivesUp(a, c) => GivesUp(a, c)'
                 /\ \/ GivesUp(a, c)'
                    \/ (Kept(c) => Kept(c)') /\ (Fresh(c) => Kept(c)' \/ Fresh(c)')

\* ... and to the rest.
Moves(a) == /\ gor[a].pc \notin {"none", "done"}
            /\ \A b \in Apps \ {a} : gor'[b] = gor[b]
            /\ UNCHANGED <<eng, cln>>
            /\ left' \in Bounds /\ left'.cleans = 0
            /\ ShapeOK(a)'
            /\ \A c \in Md5 : MovesAt(a, c)

\* Such a step keeps what the other goroutines rely on.
LEMMA MovesKeep ==
  ASSUME DownloadInv, NEW a \in Apps, Moves(a)
  PROVE  DownloadInv'
<1>1. /\ Quiet /\ Cycle
      /\ \A b \in Apps \ {a} : gor'[b] = gor[b]
  BY DEF DownloadInv, Moves
<1>2. Quiet'
  BY <1>1 DEF Quiet, Moves
<1>3. Cycle'
  BY <1>1 DEF Cycle, Moves
<1>4. \A b \in Apps : ShapeOK(b)'
  BY <1>1 DEF ShapeOK, Moves, DownloadInv
<1>5. ASSUME NEW c \in Md5 PROVE Spoiled(c)' \/ Kept(c)' \/ Fresh(c)'
  <2>1. (Spoiled(c) \/ Kept(c) \/ Fresh(c)) /\ MovesAt(a, c)
    BY DEF DownloadInv, Moves
  <2>2. \A x \in Apps : GivesUp(x, c) => GivesUp(x, c)'
    BY <1>1, <2>1 DEF GivesUp, At, MovesAt
  <2>3. Spoiled(c) \/ GivesUp(a, c)' => Spoiled(c)'
    BY <2>2 DEF Spoiled
  <2> QED
    BY <2>1, <2>3 DEF MovesAt
<1> QED
  BY <1>2, <1>3, <1>4, <1>5 DEF DownloadInv

\* A step of the goroutine of a leaves the object of c as it is.
Still(a, c) == /\ lock'[c] = lock[c] /\ file'[c] = file[c]
               /\ GivesUp(a, c) => GivesUp(a, c)'
               /\ ~At(a, Loading, c)'
               /\ Through(a, c)' => Through(a, c)

\* The goroutine of a goes on with record r, and nothing else of the engine.
Turns(a, r) == /\ r \in Routines /\ gor' = [gor EXCEPT ![a] = r]
               /\ gor[a].pc \notin {"none", "done"}
               /\ UNCHANGED <<eng, cln>>
               /\ left' = left \/ Spend("downloads") \/ Spend("faults")

\* What is known of such a step.
LEMMA TurnFacts ==
  ASSUME StorageTypes, DownloadInv, NEW a \in Apps, NEW r, Turns(a, r)
  PROVE  /\ gor'[a] = r /\ \A b \in Apps \ {a} : gor'[b] = gor[b]
         /\ ShapeOK(a) /\ gor[a] \in Routines
         /\ left' \in Bounds /\ left'.cleans = 0
<1>1. gor \in [Apps -> Routines] /\ gor' = [gor EXCEPT ![a] = r]
  BY DEF StorageTypes, Turns
<1>2. ShapeOK(a) /\ Quiet
  BY DEF DownloadInv
<1>3. left' \in Bounds /\ left'.cleans = 0
  BY <1>2, SpendKeeps DEF Turns, Quiet
<1> QED
  BY <1>1, <1>2, <1>3

\* An object that a step leaves as it is keeps its state.
LEMMA StillMoves ==
  ASSUME NEW a \in Apps, NEW c \in Md5, Still(a, c), \A b \in Apps \ {a} : gor'[b] = gor[b]
  PROVE  MovesAt(a, c)
<1>1. ~At(a, Loading, c)' /\ ~At(a, Holding, c)'
  BY DEF Still, At, Loading, Holding
<1>2. \A b \in Apps \ {a} : \A S : At(b, S, c)' <=> At(b, S, c)
  BY DEF At
<1>3. \A b \in Apps \ {a} : Through(b, c)' <=> Through(b, c)
  BY <1>2 DEF Through
<1>4. Kept(c) => Kept(c)'
  BY <1>1, <1>2 DEF Kept, Still
<1>5. Fresh(c) => Fresh(c)'
  BY <1>1, <1>2, <1>3 DEF Fresh, Still
<1> QED
  BY <1>4, <1>5 DEF MovesAt, Still

\* The step as a whole.
LEMMA TurnMoves ==
  ASSUME StorageTypes, DownloadInv, NEW a \in Apps, NEW r, Turns(a, r),
         ShapeOK(a)', \A c \in Md5 : Still(a, c) \/ MovesAt(a, c)
  PROVE  Moves(a)
<1>1. /\ gor'[a] = r /\ \A b \in Apps \ {a} : gor'[b] = gor[b]
      /\ left' \in Bounds /\ left'.cleans = 0
  BY TurnFacts
<1>2. \A c \in Md5 : MovesAt(a, c)
  BY <1>1, StillMoves
<1>3. gor[a].pc \notin {"none", "done"} /\ UNCHANGED <<eng, cln>>
  BY DEF Turns
<1> QED
  BY <1>1, <1>2, <1>3 DEF Moves

\* A goroutine requests its application from the cloud.
LEMMA SyncResourceMoves ==
  ASSUME StorageTypes, DownloadInv, NEW a \in Apps, SyncResource(a)
  PROVE  Moves(a)
<1>1. PICK r : r = [gor[a] EXCEPT !.pc = "volumes", !.todo = Uses[a]]
  OBVIOUS
<1>2. gor[a] \in Routines /\ gor[a].pc = "sync" /\ Uses[a] \in SUBSET Cfgs
  BY UsesAssumption DEF StorageTypes, SyncResource
<1>3. r \in Routines /\ r.pc = "volumes" /\ r.todo = Uses[a]
  BY <1>1, <1>2 DEF Routines, Labels
<1>4. Turns(a, r) /\ UNCHANGED <<file, lock>>
  BY <1>1, <1>2, <1>3 DEF Turns, SyncResource, Routine, shadow, ami, disk
<1>5. gor'[a] = r /\ \A b \in Apps \ {a} : gor'[b] = gor[b]
  BY <1>4, TurnFacts
<1>6. ShapeOK(a)'
  BY <1>3, <1>5 DEF ShapeOK
<1>7. \A c \in Md5 : Still(a, c)
  BY <1>2, <1>3, <1>4, <1>5 DEF Still, Through, GivesUp, At, Loading
<1> QED
  BY <1>4, <1>6, <1>7, TurnMoves

\* A goroutine opens a lock file, or creates it.
LEMMA OpenLockMoves ==
  ASSUME StorageTypes, DownloadInv, NEW a \in Apps, NEW e \in Cfgs, OpenLock(a, e)
  PROVE  Moves(a)
<1>1. PICK i : i = IF lock[e] = {} THEN {a} ELSE lock[e]
  OBVIOUS
<1>2. PICK r : r = [gor[a] EXCEPT !.pc = "lock", !.cur = {e}, !.ino = i]
  OBVIOUS
<1>3. /\ gor[a] \in Routines /\ gor[a].pc = "volumes" /\ e \in gor[a].todo
      /\ lock \in [Cfgs -> SUBSET Apps] /\ i \in SUBSET Apps /\ i # {} /\ {e} \in SUBSET Cfgs
  BY <1>1 DEF StorageTypes, DiskTypes, OpenLock
<1>4. r \in Routines /\ r.pc = "lock" /\ r.todo = gor[a].todo /\ r.cur = {e} /\ r.ino = i
  BY <1>2, <1>3 DEF Routines, Labels
<1>5. Turns(a, r) /\ UNCHANGED file /\ lock' = [lock EXCEPT ![e] = i]
  BY <1>1, <1>2, <1>3, <1>4 DEF Turns, OpenLock, Routine, shadow, ami
<1>6. gor'[a] = r /\ ShapeOK(a) /\ \A b \in Apps \ {a} : gor'[b] = gor[b]
  BY <1>5, TurnFacts
<1>7. ShapeOK(a)'
  BY <1>3, <1>4, <1>6 DEF ShapeOK
<1>8. ASSUME NEW c \in Md5, c # e PROVE Still(a, c)
  <2>1. lock'[c] = lock[c]
    BY <1>3, <1>5, <1>8, KindsAssumption
  <2> QED
    BY <1>3, <1>4, <1>5, <1>6, <1>8, <2>1 DEF Still, Through, GivesUp, At, Loading
<1>9. MovesAt(a, e)
  <2>1. lock'[e] = i /\ (lock[e] = {} \/ lock'[e] = lock[e]) /\ file'[e] = file[e]
    BY <1>1, <1>3, <1>5
  <2>2. ~Through(a, e)' /\ ~GivesUp(a, e) /\ ~At(a, Holding, e)'
    BY <1>3, <1>4, <1>6 DEF Through, GivesUp, At, Holding
  <2>3. \A b \in Apps \ {a} : \A S : At(b, S, e)' <=> At(b, S, e)
    BY <1>6 DEF At
  <2>4. Kept(e) => Kept(e)'
    BY <2>1, <2>2, <2>3 DEF Kept
  <2>5. ASSUME Fresh(e) PROVE Fresh(e)'
    <3>1. \A b \in Apps : ~Through(b, e)'
      BY <1>6, <2>2, <2>3, <2>5 DEF Fresh, Through
    <3>2. ASSUME NEW b \in Apps, At(b, Loading, e)' PROVE lock'[e] # {} /\ gor'[b].ino = lock'[e]
      BY <1>3, <1>4, <1>6, <2>1, <2>3, <2>5, <3>2 DEF Fresh
    <3> QED
      BY <2>2, <2>3, <2>5, <3>1, <3>2 DEF Fresh
  <2> QED
    BY <2>2, <2>4, <2>5 DEF MovesAt
<1> QED
  BY <1>5, <1>7, <1>8, <1>9, TurnMoves

\* A goroutine goes from its lock to the end of it, for the object of e:
\* what the steps with the lock file have in common.
Lets(a, e, r) == /\ r.todo = gor[a].todo /\ r.cur = {e} /\ gor[a].cur = {e}
                 /\ r.pc \in {"get", "copy", "store", "rmdir"}
                 /\ gor[a].pc \in Loading
                 /\ \A c \in Cfgs \ {e} : lock'[c] = lock[c] /\ file'[c] = file[c]

\* The other objects stay as they are.
LEMMA LetsStill ==
  ASSUME StorageTypes, DownloadInv, NEW a \in Apps, NEW e \in Cfgs, NEW r, Turns(a, r), Lets(a, e, r)
  PROVE  /\ ShapeOK(a)' /\ e \in Uses[a] /\ e \in gor[a].todo
         /\ ~Through(a, e) /\ ~GivesUp(a, e)
         /\ \A c \in Md5 \ {e} : Still(a, c)
<1>1. gor'[a] = r /\ ShapeOK(a)
  BY TurnFacts
<1>2. e \in gor[a].todo /\ e \in Uses[a]
  BY <1>1 DEF ShapeOK, Lets, Loading
<1>3. ShapeOK(a)'
  BY <1>1, <1>2 DEF ShapeOK, Lets
<1>4. ~Through(a, e) /\ ~GivesUp(a, e)
  BY <1>2 DEF Lets, Through, GivesUp, At, Loading
<1>5. ASSUME NEW c \in Md5 \ {e} PROVE Still(a, c)
  <2>1. lock'[c] = lock[c] /\ file'[c] = file[c] /\ {c} # {e}
    BY KindsAssumption DEF Lets
  <2>2. GivesUp(a, c) => GivesUp(a, c)'
    BY <1>1, <2>1 DEF Lets, GivesUp, At, Loading
  <2>3. ~At(a, Loading, c)' /\ (Through(a, c)' => Through(a, c))
    BY <1>1, <2>1 DEF Lets, At, Through, Loading
  <2> QED
    BY <2>1, <2>2, <2>3 DEF Still
<1> QED
  BY <1>2, <1>3, <1>4, <1>5

\* A goroutine finds the object and releases the lock.
LEMMA KeepObjectMoves ==
  ASSUME StorageTypes, DownloadInv, NEW a \in Apps, NEW e \in Cfgs, KeepObject(a, e)
  PROVE  Moves(a)
<1>1. PICK r : r = [gor[a] EXCEPT !.pc = "store", !.ino = {}]
  OBVIOUS
<1>2. /\ gor[a] \in Routines /\ gor[a].pc = "lock" /\ gor[a].cur = {e}
      /\ lock \in [Cfgs -> SUBSET Apps] /\ lock' = [lock EXCEPT ![e] = {}]
  BY DEF StorageTypes, DiskTypes, KeepObject, Unlock
<1>3. r \in Routines /\ r.pc = "store" /\ r.todo = gor[a].todo /\ r.cur = {e}
  BY <1>1, <1>2 DEF Routines, Labels
<1>4. Turns(a, r) /\ UNCHANGED file
  BY <1>1, <1>2, <1>3 DEF Turns, KeepObject, Routine, shadow, ami
<1>5. Lets(a, e, r)
  BY <1>2, <1>3, <1>4 DEF Lets, Loading
<1>6. gor'[a] = r /\ \A b \in Apps \ {a} : gor'[b] = gor[b]
  BY <1>4, TurnFacts
<1>7. /\ ShapeOK(a)' /\ e \in Uses[a] /\ ~Through(a, e) /\ ~GivesUp(a, e)
      /\ \A c \in Md5 \ {e} : Still(a, c)
  BY <1>4, <1>5, LetsStill
<1>8. ASSUME e \in Md5 PROVE MovesAt(a, e)
  <2>1. \A b \in Apps \ {a} : \A S : At(b, S, e)' <=> At(b, S, e)
    BY <1>6 DEF At
  <2>2. file'[e] = "good"
    BY <1>4, <1>8 DEF KeepObject, Present
  <2>3. ASSUME Fresh(e), NEW b \in Apps, At(b, Holding, e) PROVE FALSE
    <3>1. At(a, Loading, e) /\ At(b, Loading, e) /\ gor[b].pc \in {"get", "copy"} /\ gor[b].cur = {e}
      BY <1>2, <2>3 DEF At, Loading, Holding
    <3>2. Locked(e, gor[a].ino)
      BY <2>3, <3>1 DEF Fresh, Locked
    <3> QED
      BY <3>2 DEF KeepObject
  <2>4. ~At(a, Holding, e)'
    BY <1>3, <1>6 DEF At, Holding
  <2> QED
    BY <1>7, <2>1, <2>2, <2>3, <2>4 DEF MovesAt, Kept
<1> QED
  BY <1>4, <1>7, <1>8, TurnMoves

\* A goroutine gets the lock and requests the object.
LEMMA GetObjectMoves ==
  ASSUME StorageTypes, DownloadInv, NEW a \in Apps, NEW e \in Cfgs, GetObject(a, e)
  PROVE  Moves(a)
<1>1. PICK r : r = [gor[a] EXCEPT !.pc = "get"]
  OBVIOUS
<1>2. gor[a] \in Routines /\ gor[a].pc = "lock" /\ gor[a].cur = {e} /\ UNCHANGED <<lock, file>>
  BY DEF StorageTypes, GetObject, disk
<1>3. r \in Routines /\ r.pc = "get" /\ r.todo = gor[a].todo /\ r.cur = {e} /\ r.ino = gor[a].ino
  BY <1>1, <1>2 DEF Routines, Labels
<1>4. Turns(a, r)
  BY <1>1, <1>2, <1>3 DEF Turns, GetObject, Routine, shadow, ami
<1>5. Lets(a, e, r)
  BY <1>2, <1>3, <1>4 DEF Lets, Loading
<1>6. gor'[a] = r /\ \A b \in Apps \ {a} : gor'[b] = gor[b]
  BY <1>4, TurnFacts
<1>7. /\ ShapeOK(a)' /\ e \in gor[a].todo /\ ~Through(a, e) /\ ~GivesUp(a, e)
      /\ \A c \in Md5 \ {e} : Still(a, c)
  BY <1>4, <1>5, LetsStill
<1>8. ASSUME e \in Md5 PROVE MovesAt(a, e)
  <2>1. \A b \in Apps \ {a} : \A S : At(b, S, e)' <=> At(b, S, e)
    BY <1>6 DEF At
  <2>2. ~Kept(e)
    BY <1>8 DEF GetObject, Present, Kept
  <2>3. ~Through(a, e)' /\ At(a, Loading, e)
    BY <1>2, <1>3, <1>6, <1>7 DEF Through, At, Loading
  <2>4. ASSUME Fresh(e) PROVE Fresh(e)'
    <3>1. ASSUME NEW b \in Apps \ {a}, At(b, Holding, e) PROVE FALSE
      <4>1. At(b, Loading, e) /\ gor[b].pc \in {"get", "copy"} /\ gor[b].cur = {e}
        BY <3>1 DEF At, Loading, Holding
      <4>2. Locked(e, gor[a].ino)
        BY <2>3, <2>4, <4>1 DEF Fresh, Locked
      <4> QED
        BY <4>2 DEF GetObject
    <3>2. \A b \in Apps : ~Through(b, e)'
      BY <1>6, <2>1, <2>3, <2>4 DEF Fresh, Through
    <3>3. ASSUME NEW b \in Apps, At(b, Loading, e)' PROVE lock'[e] # {} /\ gor'[b].ino = lock'[e]
      BY <1>2, <1>3, <1>6, <2>1, <2>3, <2>4, <3>3 DEF Fresh
    <3> QED
      BY <2>1, <3>1, <3>2, <3>3 DEF Fresh
  <2> QED
    BY <1>7, <2>2, <2>4 DEF MovesAt
<1> QED
  BY <1>4, <1>7, <1>8, TurnMoves

\* A goroutine truncates the file.
LEMMA StartCopyMoves ==
  ASSUME StorageTypes, DownloadInv, NEW a \in Apps, NEW e \in Cfgs, StartCopy(a, e)
  PROVE  Moves(a)
<1>1. PICK r : r = [gor[a] EXCEPT !.pc = "copy"]
  OBVIOUS
<1>2. /\ gor[a] \in Routines /\ gor[a].pc = "get" /\ gor[a].cur = {e} /\ UNCHANGED lock
      /\ file \in [Cfgs -> {"absent", "partial", "good"}] /\ file' = [file EXCEPT ![e] = "partial"]
  BY DEF StorageTypes, DiskTypes, StartCopy
<1>3. r \in Routines /\ r.pc = "copy" /\ r.todo = gor[a].todo /\ r.cur = {e} /\ r.ino = gor[a].ino
  BY <1>1, <1>2 DEF Routines, Labels
<1>4. Turns(a, r)
  BY <1>1, <1>2, <1>3 DEF Turns, StartCopy, Routine, shadow, ami
<1>5. Lets(a, e, r)
  BY <1>2, <1>3, <1>4 DEF Lets, Loading
<1>6. gor'[a] = r /\ \A b \in Apps \ {a} : gor'[b] = gor[b]
  BY <1>4, TurnFacts
<1>7. /\ ShapeOK(a)' /\ e \in gor[a].todo /\ ~Through(a, e) /\ ~GivesUp(a, e)
      /\ \A c \in Md5 \ {e} : Still(a, c)
  BY <1>4, <1>5, LetsStill
<1>8. ASSUME e \in Md5 PROVE MovesAt(a, e)
  <2>1. \A b \in Apps \ {a} : \A S : At(b, S, e)' <=> At(b, S, e)
    BY <1>6 DEF At
  <2>2. ~Through(a, e)' /\ At(a, Loading, e) /\ At(a, Holding, e)
    BY <1>2, <1>3, <1>6, <1>7 DEF Through, At, Loading, Holding
  <2>3. ~Kept(e)
    BY <2>2 DEF Kept
  <2>4. ASSUME Fresh(e) PROVE Fresh(e)'
    <3>1. \A b \in Apps : ~Through(b, e)'
      BY <1>6, <2>1, <2>2, <2>4 DEF Fresh, Through
    <3>2. ASSUME NEW b \in Apps, At(b, Loading, e)' PROVE lock'[e] # {} /\ gor'[b].ino = lock'[e]
      BY <1>2, <1>3, <1>6, <2>1, <2>2, <2>4, <3>2 DEF Fresh
    <3>3. \A b \in Apps : At(b, Holding, e)' => At(b, Holding, e)
      BY <2>1, <2>2
    <3> QED
      BY <2>4, <3>1, <3>2, <3>3 DEF Fresh
  <2> QED
    BY <1>7, <2>3, <2>4 DEF MovesAt
<1> QED
  BY <1>4, <1>7, <1>8, TurnMoves

\* A goroutine has copied the object: alone with the file, it leaves it whole.
LEMMA EndCopyMoves ==
  ASSUME StorageTypes, DownloadInv, NEW a \in Apps, NEW e \in Cfgs, EndCopy(a, e)
  PROVE  Moves(a)
<1>1. PICK f \in Copied(a, e) :
        /\ e \in Md5 => f # "absent"
        /\ file' = [file EXCEPT ![e] = f]
        /\ gor' = [gor EXCEPT ![a] =
             [gor[a] EXCEPT !.pc = IF e \in Md5 /\ f = "partial" THEN "rmdir" ELSE "store", !.ino = {}]]
  BY DEF EndCopy, Routine
<1>2. PICK l : l = IF e \in Md5 /\ f = "partial" THEN "rmdir" ELSE "store"
  OBVIOUS
<1>3. PICK r : r = [gor[a] EXCEPT !.pc = l, !.ino = {}]
  OBVIOUS
<1>4. /\ gor[a] \in Routines /\ gor[a].pc = "copy" /\ gor[a].cur = {e} /\ l \in {"rmdir", "store"}
      /\ lock \in [Cfgs -> SUBSET Apps] /\ lock' = [lock EXCEPT ![e] = {}]
      /\ file \in [Cfgs -> {"absent", "partial", "good"}] /\ gor' = [gor EXCEPT ![a] = r]
  BY <1>1, <1>2, <1>3 DEF StorageTypes, DiskTypes, EndCopy, Unlock
<1>5. r \in Routines /\ r.pc = l /\ r.todo = gor[a].todo /\ r.cur = {e}
  BY <1>3, <1>4 DEF Routines, Labels
<1>6. Turns(a, r)
  BY <1>4, <1>5 DEF Turns, EndCopy, shadow, ami
<1>7. Lets(a, e, r)
  BY <1>1, <1>4, <1>5 DEF Lets, Loading
<1>8. gor'[a] = r /\ \A b \in Apps \ {a} : gor'[b] = gor[b]
  BY <1>6, TurnFacts
<1>9. /\ ShapeOK(a)' /\ e \in Uses[a] /\ ~Through(a, e) /\ ~GivesUp(a, e)
      /\ \A c \in Md5 \ {e} : Still(a, c)
  BY <1>6, <1>7, LetsStill
<1>10. ASSUME e \in Md5 PROVE MovesAt(a, e)
  <2>1. \A b \in Apps \ {a} : \A S : At(b, S, e)' <=> At(b, S, e)
    BY <1>8 DEF At
  <2>2. At(a, Holding, e) /\ ~Kept(e)
    BY <1>4 DEF At, Holding, Kept
  <2>3. ASSUME Fresh(e) PROVE Kept(e)'
    <3>1. \A b \in Apps \ {a} : ~At(b, Holding, e)
      BY <2>2, <2>3 DEF Fresh
    <3>2. ~\E b \in Apps \ {a} : gor[b].pc = "copy" /\ gor[b].cur = {e}
      BY <3>1 DEF At, Holding
    <3>3. file'[e] = "good"
      BY <1>1, <1>4, <1>10, <3>2 DEF Copied
    <3>4. ~At(a, Holding, e)'
      BY <1>4, <1>5, <1>8 DEF At, Holding
    <3> QED
      BY <2>1, <3>1, <3>3, <3>4 DEF Kept
  <2> QED
    BY <1>9, <2>2, <2>3 DEF MovesAt
<1> QED
  BY <1>6, <1>9, <1>10, TurnMoves

\* A download fails and the lock is released.
LEMMA DownloadFailsMoves ==
  ASSUME StorageTypes, DownloadInv, NEW a \in Apps, NEW e \in Cfgs, DownloadFails(a, e)
  PROVE  Moves(a)
<1>1. PICK r : r = [gor[a] EXCEPT !.pc = "rmdir", !.ino = {}]
  OBVIOUS
<1>2. /\ gor[a] \in Routines /\ gor[a].pc \in {"get", "copy"} /\ gor[a].cur = {e}
      /\ lock \in [Cfgs -> SUBSET Apps] /\ lock' = [lock EXCEPT ![e] = {}]
  BY DEF StorageTypes, DiskTypes, DownloadFails, Unlock
<1>3. r \in Routines /\ r.pc = "rmdir" /\ r.todo = gor[a].todo /\ r.cur = {e}
  BY <1>1, <1>2 DEF Routines, Labels
<1>4. Turns(a, r) /\ UNCHANGED file
  BY <1>1, <1>2, <1>3 DEF Turns, DownloadFails, Routine, shadow, ami
<1>5. Lets(a, e, r)
  BY <1>2, <1>3, <1>4 DEF Lets, Loading
<1>6. gor'[a] = r
  BY <1>4, TurnFacts
<1>7. /\ ShapeOK(a)' /\ e \in Uses[a] /\ e \in gor[a].todo /\ ~Through(a, e) /\ ~GivesUp(a, e)
      /\ \A c \in Md5 \ {e} : Still(a, c)
  BY <1>4, <1>5, LetsStill
<1>8. MovesAt(a, e)
  BY <1>3, <1>6, <1>7 DEF MovesAt, GivesUp, At
<1> QED
  BY <1>4, <1>7, <1>8, TurnMoves

\* The goroutine whose download failed removes the directory.
LEMMA RemoveDirMoves ==
  ASSUME StorageTypes, DownloadInv, NEW a \in Apps, NEW e \in Cfgs, RemoveDir(a, e)
  PROVE  Moves(a)
<1>1. PICK r : r = [NoRoutine EXCEPT !.pc = "done", !.cur = {e}]
  OBVIOUS
<1>2. /\ gor[a] \in Routines /\ gor[a].pc = "rmdir" /\ gor[a].cur = {e}
      /\ lock \in [Cfgs -> SUBSET Apps] /\ lock' = [lock EXCEPT ![e] = {}]
      /\ file \in [Cfgs -> {"absent", "partial", "good"}] /\ file' = [file EXCEPT ![e] = "absent"]
  BY DEF StorageTypes, DiskTypes, RemoveDir, Unlock
<1>3. r \in Routines /\ r.pc = "done" /\ r.todo = {} /\ r.cur = {e}
  BY <1>1 DEF NoRoutine, Routines, Labels
<1>4. Turns(a, r)
  BY <1>1, <1>2, <1>3 DEF Turns, RemoveDir, Routine
<1>5. gor'[a] = r
  BY <1>4, TurnFacts
<1>6. ShapeOK(a)'
  BY <1>3, <1>5 DEF ShapeOK
<1>7. ASSUME NEW c \in Md5, c # e PROVE Still(a, c)
  <2>1. lock'[c] = lock[c] /\ file'[c] = file[c]
    BY <1>2, <1>7, KindsAssumption
  <2> QED
    BY <1>2, <1>3, <1>5, <1>7, <2>1 DEF Still, GivesUp, At, Loading, Through
<1>8. MovesAt(a, e)
  BY <1>3, <1>5 DEF MovesAt, GivesUp, At
<1> QED
  BY <1>4, <1>6, <1>7, <1>8, TurnMoves

\* A goroutine stores the record of a configuration it has passed.
LEMMA StoreConfigMoves ==
  ASSUME StorageTypes, DownloadInv, NEW a \in Apps, NEW e \in Cfgs, StoreConfig(a, e)
  PROVE  Moves(a)
<1>1. PICK r : r = [gor[a] EXCEPT !.pc = "volumes", !.cur = {}, !.todo = gor[a].todo \ {e}]
  OBVIOUS
<1>2. gor[a] \in Routines /\ gor[a].pc = "store" /\ gor[a].cur = {e} /\ {} \in SUBSET Cfgs
  BY DEF StorageTypes, StoreConfig
<1>3. r \in Routines /\ r.pc = "volumes" /\ r.todo = gor[a].todo \ {e} /\ r.cur = {}
  BY <1>1, <1>2 DEF Routines, Labels
<1>4. Turns(a, r) /\ UNCHANGED <<file, lock>>
  BY <1>1, <1>2, <1>3 DEF Turns, StoreConfig, Routine, shadow, ami
<1>5. gor'[a] = r /\ ShapeOK(a)
  BY <1>4, TurnFacts
<1>6. ShapeOK(a)'
  BY <1>3, <1>5 DEF ShapeOK
<1>7. ASSUME NEW c \in Md5 PROVE Still(a, c)
  <2>1. ~GivesUp(a, c) /\ ~At(a, Loading, c)'
    BY <1>2, <1>3, <1>5 DEF GivesUp, At, Loading
  <2>2. Through(a, c)' => Through(a, c)
    BY <1>2, <1>3, <1>5 DEF Through, At
  <2> QED
    BY <1>4, <2>1, <2>2 DEF Still
<1> QED
  BY <1>4, <1>6, <1>7, TurnMoves

\* A goroutine stores the application, or reads the records again.
LEMMA RecordsMove ==
  ASSUME StorageTypes, DownloadInv, NEW a \in Apps, StoreApplication(a) \/ ReadRecords(a)
  PROVE  Moves(a)
<1>1. PICK l : /\ gor' = [gor EXCEPT ![a] = [gor[a] EXCEPT !.pc = l]]
               /\ \/ gor[a].pc = "volumes" /\ gor[a].todo = {} /\ l = "read"
                  \/ gor[a].pc = "read" /\ l \in {"apply", "done"}
  BY DEF StoreApplication, ReadRecords, Routine
<1>2. PICK r : r = [gor[a] EXCEPT !.pc = l]
  OBVIOUS
<1>3. gor[a] \in Routines
  BY DEF StorageTypes
<1>4. r \in Routines /\ r.pc = l /\ r.todo = gor[a].todo /\ r.cur = gor[a].cur
  BY <1>1, <1>2, <1>3 DEF Routines, Labels
<1>5. UNCHANGED <<eng, cln, left, file, lock>>
  BY DEF StoreApplication, ReadRecords, shadow, ami, disk
<1>6. Turns(a, r)
  BY <1>1, <1>2, <1>4, <1>5 DEF Turns
<1>7. gor'[a] = r /\ ShapeOK(a)
  BY <1>6, TurnFacts
<1>8. ShapeOK(a)'
  BY <1>1, <1>4, <1>7 DEF ShapeOK
<1>9. ASSUME NEW c \in Md5 PROVE Still(a, c)
  <2>1. ~GivesUp(a, c) /\ ~At(a, Loading, c)'
    BY <1>1, <1>4, <1>7 DEF GivesUp, At, Loading
  <2>2. Through(a, c)' => Through(a, c)
    BY <1>1, <1>4, <1>7 DEF Through, At
  <2> QED
    BY <1>5, <2>1, <2>2 DEF Still
<1> QED
  BY <1>5, <1>6, <1>8, <1>9, TurnMoves

\* A goroutine hands its application over, or fails without a download.
LEMMA EndMoves ==
  ASSUME StorageTypes, DownloadInv, NEW a \in Apps, ApplyApp(a) \/ RoutineFails(a)
  PROVE  Moves(a)
<1>1. PICK r : r = [NoRoutine EXCEPT !.pc = "done"]
  OBVIOUS
<1>2. /\ gor[a].pc \in {"sync", "volumes", "store", "read", "apply"}
      /\ gor' = [gor EXCEPT ![a] = r] /\ UNCHANGED <<eng, cln, file, lock>>
      /\ left' = left \/ Spend("faults")
  BY <1>1 DEF ApplyApp, RoutineFails, Routine, disk
<1>3. r \in Routines /\ r.pc = "done" /\ r.todo = {}
  BY <1>1 DEF NoRoutine, Routines, Labels
<1>4. Turns(a, r)
  BY <1>2, <1>3 DEF Turns
<1>5. gor'[a] = r
  BY <1>4, TurnFacts
<1>6. ShapeOK(a)'
  BY <1>3, <1>5 DEF ShapeOK
<1>7. ASSUME NEW c \in Md5 PROVE Still(a, c)
  BY <1>2, <1>3, <1>5 DEF Still, GivesUp, At, Through, Loading
<1> QED
  BY <1>4, <1>6, <1>7, TurnMoves

\* Before any goroutine has got to its volumes every object is fresh.
LEMMA AllFresh ==
  ASSUME \A a \in Apps : gor[a].pc \in {"none", "sync"} /\ gor[a].todo = {}
  PROVE  (\A a \in Apps : ShapeOK(a)) /\ \A c \in Md5 : Fresh(c)
<1>1. \A a \in Apps : ShapeOK(a)
  BY DEF ShapeOK
<1>2. \A c \in Md5, a \in Apps : ~Through(a, c) /\ ~At(a, Loading, c) /\ ~At(a, Holding, c)
  BY DEF Through, At, Loading, Holding
<1> QED
  BY <1>1, <1>2 DEF Fresh

\* Every step keeps the invariant of the downloads.
LEMMA DownloadStep ==
  ASSUME StorageInv, DownloadInv, [Next]_vars
  PROVE  DownloadInv'
<1>1. StorageTypes /\ Quiet /\ Cycle
  BY DEF StorageInv, DownloadInv
<1>2. ASSUME Quiet', Cycle', \A a \in Apps : gor'[a].pc \in {"none", "sync"} /\ gor'[a].todo = {}
      PROVE  DownloadInv'
  <2>1. (\A a \in Apps : ShapeOK(a)') /\ \A c \in Md5 : Fresh(c)'
    <3>1. \A a \in Apps : ShapeOK(a)'
      BY <1>2 DEF ShapeOK
    <3>2. \A c \in Md5, a \in Apps : ~Through(a, c)' /\ ~At(a, Loading, c)' /\ ~At(a, Holding, c)'
      BY <1>2 DEF Through, At, Loading, Holding
    <3> QED
      BY <3>1, <3>2 DEF Fresh
  <2> QED
    BY <1>2, <2>1 DEF DownloadInv
<1>3. ASSUME UNCHANGED <<gor, lock, file>>, Quiet', Cycle' PROVE DownloadInv'
  BY <1>3 DEF DownloadInv, ShapeOK, Spoiled, GivesUp, Kept, Fresh, Through, At
<1>4. NoRoutine.pc = "none" /\ NoRoutine.todo = {}
  BY DEF NoRoutine
<1>5. CASE UNCHANGED vars
  <2>1. UNCHANGED <<gor, lock, file, cln, left, eng>>
    BY <1>5 DEF vars, shadow, ami, disk
  <2> QED
    BY <1>1, <1>3, <2>1 DEF Quiet, Cycle
<1>6. CASE NewDesire
  <2>1. UNCHANGED <<gor, lock, file, cln, eng>> /\ left' \in Bounds /\ left'.cleans = 0
    BY <1>1, <1>6, SpendKeeps DEF NewDesire, ami, disk
  <2> QED
    BY <1>1, <1>3, <2>1 DEF Quiet, Cycle
<1>7. CASE Pressure
  <2>1. UNCHANGED <<gor, lock, file, cln>> /\ left' \in Bounds /\ left'.cleans = 0
    BY <1>1, <1>7, SpendKeeps DEF Pressure, ami, disk
  <2>2. \A a \in Apps : gor[a].pc = "none"
    BY <1>1, <1>7 DEF Pressure, Cycle
  <2> QED
    BY <1>1, <1>3, <2>1, <2>2 DEF Quiet, Cycle
<1>8. CASE Recycle
  <2>1. UNCHANGED <<gor, cln, left>> /\ eng = "recycle"
    BY <1>8 DEF Recycle
  <2>2. \A a \in Apps : gor[a].pc = "none"
    BY <1>1, <2>1 DEF Cycle
  <2>3. Quiet' /\ Cycle'
    BY <1>1, <2>1, <2>2 DEF Quiet, Cycle
  <2>4. \A a \in Apps : ShapeOK(a)'
    BY <2>1 DEF DownloadInv, ShapeOK
  <2>5. \A c \in Md5, a \in Apps : ~Through(a, c)' /\ ~At(a, Loading, c)' /\ ~At(a, Holding, c)'
    BY <2>1, <2>2 DEF Through, At, Loading, Holding
  <2> QED
    BY <2>3, <2>4, <2>5 DEF DownloadInv, Fresh
<1>9. CASE Collect
  <2>1. /\ UNCHANGED <<cln, left>> /\ eng' = "apply"
        /\ gor' = [a \in Apps |-> IF a \in desire \ running
                                  THEN [NoRoutine EXCEPT !.pc = "sync"] ELSE NoRoutine]
    BY <1>9 DEF Collect
  <2>2. PICK s : s = [NoRoutine EXCEPT !.pc = "sync"]
    OBVIOUS
  <2>3. s.pc = "sync" /\ s.todo = {}
    BY <2>2 DEF NoRoutine
  <2>4. \A a \in Apps : IF a \in desire \ running THEN gor'[a] = s ELSE gor'[a] = NoRoutine
    BY <2>1, <2>2
  <2>5. Quiet' /\ Cycle'
    BY <1>1, <2>1 DEF Quiet, Cycle
  <2> QED
    BY <1>2, <1>4, <2>3, <2>4, <2>5
<1>10. ASSUME gor' = [a \in Apps |-> NoRoutine], Quiet' PROVE DownloadInv'
  <2>1. \A a \in Apps : gor'[a].pc = "none" /\ gor'[a].todo = {}
    BY <1>4, <1>10
  <2> QED
    BY <1>2, <1>10, <2>1 DEF Cycle
<1>11. CASE JoinApply
  BY <1>1, <1>10, <1>11 DEF JoinApply, Quiet
<1>12. ASSUME Restarted, left' \in Bounds, left'.cleans = 0 PROVE DownloadInv'
  <2>1. cln'.pc = "idle"
    BY <1>12 DEF Restarted, NoClean
  <2> QED
    BY <1>10, <1>12, <2>1 DEF Restarted, Quiet
<1>13. CASE Crash
  BY <1>1, <1>12, <1>13, SpendKeeps DEF Crash
<1>14. ASSUME NEW a \in Apps, NEW c \in Cfgs, Panic(a, c) PROVE DownloadInv'
  BY <1>1, <1>12, <1>14 DEF Panic, Quiet
<1>15. ASSUME NEW a \in Apps, JobSucceeds(a) PROVE DownloadInv'
  <2>1. UNCHANGED <<gor, lock, file, cln, left, eng>>
    BY <1>15 DEF JobSucceeds, disk
  <2> QED
    BY <1>1, <1>3, <2>1 DEF Quiet, Cycle
<1>16. ASSUME NEW a \in Apps, Works(a) PROVE DownloadInv'
  <2>1. Moves(a)
    BY <1>1, <1>16, SyncResourceMoves, RecordsMove, EndMoves DEF Works
  <2> QED
    BY <2>1, MovesKeep
<1>17. ASSUME NEW a \in Apps, NEW c \in Cfgs, Loads(a, c) PROVE DownloadInv'
  <2>1. Moves(a)
    BY <1>1, <1>17, OpenLockMoves, KeepObjectMoves, GetObjectMoves, StartCopyMoves, EndCopyMoves,
       DownloadFailsMoves, RemoveDirMoves, StoreConfigMoves DEF Loads
  <2> QED
    BY <2>1, MovesKeep
<1>18. ~Cleaning
  BY <1>1, NoCleaning
<1> QED
  BY <1>5, <1>6, <1>7, <1>8, <1>9, <1>11, <1>13, <1>14, <1>15, <1>16, <1>17, <1>18, Actions
     DEF Cleaning

-----------------------------------------------------------------------------
(* The results.                                                            *)

\* Nothing is stored, listed or to be deleted at the start.
LEMMA StorageInit ==
  ASSUME Init
  PROVE  StorageInv
<1>1. report \in Reports /\ report.apps = {} /\ report.finished = {}
  BY DEF Init, Reports
<1>2. NodeTypes /\ DiskTypes /\ eng \in {"idle", "recycle", "collect", "apply"}
  BY <1>1 DEF Init, NodeTypes, DiskTypes, OneVersion
<1>3. gor \in [Apps -> Routines] /\ \A a \in Apps : gor[a].pc = "none"
  BY RoutineTypes DEF Init
<1>4. cln = NoClean
  BY DEF Init
<1>5. Backed(report) /\ Backed(cln.report) /\ Spared
  BY <1>1, <1>4, NoCleanTypes DEF Backed, OneVersion, Spared
<1>6. Recorded
  BY <1>3, <1>5 DEF Init, Recorded
<1> QED
  BY <1>2, <1>3, <1>4, <1>5, <1>6, NoCleanTypes DEF StorageInv, StorageTypes

\* Every step keeps types, records and what cleaning spares.
LEMMA StorageStep ==
  ASSUME StorageInv, [Next]_vars
  PROVE  StorageInv'
<1>1. CASE UNCHANGED vars
  <2>1. UNCHANGED <<desire, report, running, finished, apps, cfgs, file, lock, eng, gor, cln>>
    BY <1>1 DEF vars, shadow, ami, disk
  <2> QED
    BY <2>1, CleanFrame DEF StorageInv, StorageTypes, NodeTypes, OneVersion, DiskTypes,
       Recorded, Backed
<1> QED
  BY <1>1, CleaningOK, EngineOK

\* The inductive invariant: types, a record in the store for whatever is
\* listed, reported or about to be applied, and deletions that spare the
\* settled applications.
THEOREM StorageCorrect == Spec => []StorageInv
<1>1. Init => StorageInv
  BY StorageInit
<1>2. StorageInv /\ [Next]_vars => StorageInv'
  BY StorageStep
<1> QED
  BY <1>1, <1>2, PTL DEF Spec

\* Every variable of the object storage keeps its type, and one version of
\* a name is listed at a time: ApplyApp replaces the version that runs.
THEOREM StorageTypesCorrect == Spec => []TypeOK
<1>1. StorageInv => TypeOK
  BY DEF StorageInv, StorageTypes, NodeTypes, DiskTypes, Reports, Routines, Labels, TypeOK
<1> QED
  BY <1>1, StorageCorrect, PTL

\* cleanObjectStorage never removes the object of an application version
\* that was desired and reported when it read the node, whatever arrives, is
\* stored, applied or finished while it works, unless another version of the
\* configuration is in use.
THEOREM CleanSparesSettledCorrect == Spec => CleanSparesSettled
<1> DEFINE Step == \A c \in Cfgs : Cleans(c) => \A a \in Settled : c \in Uses[a] => Shadowed(c)
<1>1. StorageInv => Step
  BY DEF StorageInv, Spared, Cleans
<1> QED
  BY <1>1, StorageCorrect, PTL DEF CleanSparesSettled

\* No download is under way at the start.
LEMMA DownloadInit ==
  ASSUME Init, MaxCleans = 0
  PROVE  DownloadInv
<1>1. /\ left = [updates |-> MaxUpdates, cleans |-> 0, pressure |-> MaxPressure,
                 downloads |-> MaxFails, faults |-> MaxFaults]
      /\ cln = NoClean /\ gor = [a \in Apps |-> NoRoutine]
  BY DEF Init
<1>2. left \in Bounds /\ left.cleans = 0
  BY <1>1, BoundsAssumption DEF Bounds
<1>3. cln.pc = "idle" /\ NoRoutine.pc = "none" /\ NoRoutine.todo = {}
  BY <1>1 DEF NoClean, NoRoutine
<1>4. \A a \in Apps : gor[a].pc = "none" /\ gor[a].todo = {}
  BY <1>1, <1>3
<1>5. (\A a \in Apps : ShapeOK(a)) /\ \A c \in Md5 : Fresh(c)
  BY <1>4, AllFresh
<1> QED
  BY <1>2, <1>3, <1>4, <1>5 DEF DownloadInv, Quiet, Cycle

\* An application is handed over with all its objects got through.
LEMMA HandedOverWhole ==
  ASSUME DownloadInv
  PROVE  HandsOverWhole
<1> SUFFICES ASSUME NEW a \in Apps, Applies(a), NEW c \in Uses[a] \cap Md5
             PROVE  file[c] = "good" \/ GaveUp(a, c)
  BY DEF HandsOverWhole
<1>1. gor[a].pc = "apply" /\ gor[a].todo = {}
  BY DEF Applies, DownloadInv, ShapeOK
<1>2. Through(a, c) /\ ~GivesUp(a, c)
  BY <1>1 DEF Through, GivesUp, At
<1>3. ~Fresh(c)
  BY <1>2 DEF Fresh
<1>4. CASE Spoiled(c)
  BY <1>2, <1>4 DEF Spoiled, GivesUp, At, GaveUp
<1>5. CASE Kept(c)
  BY <1>5 DEF Kept
<1> QED
  BY <1>3, <1>4, <1>5 DEF DownloadInv

\* However many applications share an object, and whatever crashes,
\* failing calls, recycling and updates come between, an application is
\* handed to the AMI only when every object with an MD5 is whole, or the
\* download of that very object by another goroutine of the cycle has
\* failed: downloadObject releases, and so unlinks, its lock file only with
\* the object in place or when it fails.  The cleaning goroutine, which takes
\* no lock, must not run.
THEOREM AppliedCompleteCorrect ==
  ASSUME MaxCleans = 0
  PROVE  BothSpec => AppliedComplete
<1> DEFINE Safe == scenario = "apply" => StorageInv /\ DownloadInv
           Step == scenario = "apply" => HandsOverWhole
<1>1. BothInit => Safe
  BY StorageInit, DownloadInit DEF BothInit
<1>2. Safe /\ [BothNext]_<<vars, scenario>> => Safe'
  <2> SUFFICES ASSUME Safe, [BothNext]_<<vars, scenario>>, scenario' = "apply"
               PROVE  StorageInv' /\ DownloadInv'
    OBVIOUS
  <2>1. scenario = "apply" /\ [Next]_vars
    BY DEF BothNext
  <2>2. StorageInv /\ DownloadInv
    BY <2>1
  <2> QED
    BY <2>1, <2>2, StorageStep, DownloadStep
<1>3. Safe => Step
  BY HandedOverWhole
<1> QED
  BY <1>1, <1>2, <1>3, PTL DEF BothSpec, AppliedComplete
=============================================================================
