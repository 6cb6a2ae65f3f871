------------------------------ MODULE Storage -------------------------------
(***************************************************************************)
(* What baetyl-core stores and downloads: SyncResource (sync/desire.go),   *)
(* DownloadConfig (sync/object.go), and the two ways it is thrown away     *)
(* again, recycle under disk pressure and the cleaning goroutine           *)
(* (engine/clean.go).                                                      *)
(*                                                                         *)
(* The engine goroutine recycles before a cycle; the applications of a     *)
(* cycle are synchronised and applied by a goroutine each; cleaning runs   *)
(* at any time and works on a node and on records it has read before.      *)
(* Configurations hold one object each, stored by name and version.        *)
(* Applications of the two kinds have different names and are not told     *)
(* apart.  Module Engine has the cycle in full.                            *)
(***************************************************************************)
EXTENDS Naturals, FiniteSets, FiniteSetsExt

CONSTANTS Apps,         \* application versions, [name, ver] with ver > 0
          Cfgs,         \* configuration versions, [name, ver]
          Uses,         \* Apps -> configurations its volumes refer to
          AutoClean,    \* Apps -> those of them mounted with AutoClean
          Jobs,         \* application versions that are jobs
          Md5,          \* configurations whose object comes with an MD5
          Desires,      \* what the cloud may desire: sets of application versions
          MaxUpdates,   \* bound: desires that arrive
          MaxCleans,    \* bound: runs of the cleaning goroutine
          MaxPressure,  \* bound: cycles with disk pressure
          MaxFails,     \* bound: downloads that fail
          MaxFaults     \* bound: other failing calls, and crashes

OneVersion(S) == \A a, b \in S : a.name = b.name => a = b
ASSUME UsesAssumption == /\ Uses \in [Apps -> SUBSET Cfgs]
                         /\ AutoClean \in [Apps -> SUBSET Cfgs]
                         /\ \A a \in Apps : AutoClean[a] \subseteq Uses[a] /\ OneVersion(Uses[a])
ASSUME DesiresAssumption == \A d \in Desires : d \subseteq Apps /\ OneVersion(d)
ASSUME KindsAssumption == Jobs \subseteq Apps /\ Md5 \subseteq Cfgs
ASSUME BoundsAssumption == {MaxUpdates, MaxCleans, MaxPressure, MaxFails, MaxFaults} \subseteq Nat

VARIABLES desire,    \* shadow: the desired application versions
          report,    \* shadow: [apps, finished], the reported ones and the finished jobs
          running,   \* application versions the AMI lists
          finished,  \* jobs whose instances have all succeeded
          apps,      \* application records of the store
          cfgs,      \* configuration records of the store
          file,      \* state of the object file of a configuration
          lock,      \* its lock file: {} or {who created it}
          eng,       \* the engine goroutine
          gor,       \* the goroutine of an application version
          cln,       \* the cleaning goroutine
          left       \* what is left of the bounds

shadow == <<desire, report>>
ami == <<running, finished>>
disk == <<apps, cfgs, file, lock>>
vars == <<shadow, ami, disk, eng, gor, cln, left>>

NoRoutine == [pc |-> "none", todo |-> {}, cur |-> {}, ino |-> {}]
NoClean == [pc |-> "idle", desire |-> {}, report |-> [apps |-> {}, finished |-> {}],
            cfgs |-> {}, dels |-> {}, cur |-> {}]

Init == /\ desire = {} /\ report = [apps |-> {}, finished |-> {}]
        /\ running = {} /\ finished = {}
        /\ apps = {} /\ cfgs = {} /\ file = [c \in Cfgs |-> "absent"]
        /\ lock = [c \in Cfgs |-> {}]
        /\ eng = "idle"
        /\ gor = [a \in Apps |-> NoRoutine]
        /\ cln = NoClean
        /\ left = [updates |-> MaxUpdates, cleans |-> MaxCleans,
                   pressure |-> MaxPressure, downloads |-> MaxFails, faults |-> MaxFaults]

Spend(b) == left[b] > 0 /\ left' = [left EXCEPT ![b] = @ - 1]

-----------------------------------------------------------------------------
(* The engine goroutine.                                                   *)

NewDesire == /\ Spend("updates")
             /\ desire' \in Desires \ {desire}
             /\ UNCHANGED <<report, ami, disk, eng, gor, cln>>

\* recycleIfNeed: the last report says whether the disk is full.
Pressure == /\ eng = "idle" /\ Spend("pressure")
            /\ eng' = "recycle"
            /\ UNCHANGED <<shadow, ami, disk, gor, cln>>

\* recycle gives up when an application of the shadow is not stored.  The
\* directory it removes is the one of the name, with all its versions.
Recycle ==
  LET infos == report.apps \cup desire
      used  == UNION {Uses[a] : a \in infos}
      del   == IF infos \subseteq apps THEN cfgs \ used ELSE {}
      gone  == {c \in Cfgs : \E d \in del : d.name = c.name}
  IN  /\ eng = "recycle"
      /\ eng' = "collect"
      /\ cfgs' = cfgs \ del
      /\ file' = [c \in Cfgs |-> IF c \in gone THEN "absent" ELSE file[c]]
      /\ lock' = [c \in Cfgs |-> IF c \in gone THEN {} ELSE lock[c]]
      /\ UNCHANGED <<shadow, ami, apps, gor, cln, left>>

\* Report what is listed, delete what is not desired, and start a goroutine
\* for every application that is not listed at the desired version.
Collect ==
  /\ eng \in {"idle", "collect"}
  /\ report' = [apps |-> running, finished |-> finished]
  /\ running' = {a \in running : \E b \in desire : b.name = a.name}
  /\ finished' = finished \cap running'
  /\ gor' = [a \in Apps |-> IF a \in desire \ running
                            THEN [NoRoutine EXCEPT !.pc = "sync"] ELSE NoRoutine]
  /\ eng' = "apply"
  /\ UNCHANGED <<desire, disk, cln, left>>

JoinApply == /\ eng = "apply"
             /\ \A a \in Apps : gor[a].pc \in {"none", "done"}
             /\ eng' = "idle"
             /\ gor' = [a \in Apps |-> NoRoutine]
             /\ UNCHANGED <<shadow, ami, disk, cln, left>>

-----------------------------------------------------------------------------
(* The goroutine of application version a: SyncResource, then applyApp.    *)

Routine(a, r) == gor' = [gor EXCEPT ![a] = r]

\* The application and its configurations are requested from the cloud.
SyncResource(a) == /\ gor[a].pc = "sync"
                   /\ Routine(a, [gor[a] EXCEPT !.pc = "volumes", !.todo = Uses[a]])
                   /\ UNCHANGED <<shadow, ami, disk, eng, cln, left>>

\* The lock of downloadObject: a goroutine takes a configuration up, makes
\* its directory and opens the lock file, which it creates when there is none.
OpenLock(a, c) ==
  LET ino == IF lock[c] = {} THEN {a} ELSE lock[c]
  IN  /\ gor[a].pc = "volumes" /\ c \in gor[a].todo
      /\ lock' = [lock EXCEPT ![c] = ino]
      /\ Routine(a, [gor[a] EXCEPT !.pc = "lock", !.cur = {c}, !.ino = ino])
      /\ UNCHANGED <<shadow, ami, apps, cfgs, file, eng, cln, left>>

\* flock excludes those that have opened the same file.
Locked(c, ino) == \E b \in Apps : /\ gor[b].pc \in {"get", "copy"}
                                  /\ gor[b].cur = {c} /\ gor[b].ino = ino

\* Releasing the lock removes whatever file has the name of the lock file.
Unlock(c) == lock' = [lock EXCEPT ![c] = {}]

\* Mutant: any file will do.
PresentAny(c) == file[c] # "absent"

\* downloadObject finds the object: with an MD5 it has to match.
Present(c) == IF c \in Md5 THEN file[c] = "good" ELSE file[c] # "absent"

KeepObject(a, c) ==
  /\ gor[a].pc = "lock" /\ gor[a].cur = {c} /\ ~Locked(c, gor[a].ino)
  /\ Present(c)
  /\ Unlock(c)
  /\ Routine(a, [gor[a] EXCEPT !.pc = "store", !.ino = {}])
  /\ UNCHANGED <<shadow, ami, apps, cfgs, file, eng, cln, left>>

\* With the lock held the object is requested ...
GetObject(a, c) ==
  /\ gor[a].pc = "lock" /\ gor[a].cur = {c} /\ ~Locked(c, gor[a].ino)
  /\ ~Present(c)
  /\ Routine(a, [gor[a] EXCEPT !.pc = "get"])
  /\ UNCHANGED <<shadow, ami, disk, eng, cln, left>>

\* ... and copied in place, to a file that is truncated first.
StartCopy(a, c) ==
  /\ gor[a].pc = "get" /\ gor[a].cur = {c}
  /\ file' = [file EXCEPT ![c] = "partial"]
  /\ Routine(a, [gor[a] EXCEPT !.pc = "copy"])
  /\ UNCHANGED <<shadow, ami, apps, cfgs, lock, eng, cln, left>>

\* What the file of the name holds when a has copied it all: the object, if
\* the file is still the one it writes and nobody else writes it.
Copied(a, c) ==
  IF file[c] # "partial" THEN {file[c]}
  ELSE IF \E b \in Apps \ {a} : gor[b].pc = "copy" /\ gor[b].cur = {c}
       THEN {"partial", "good"} ELSE {"good"}

EndCopy(a, c) ==
  /\ gor[a].pc = "copy" /\ gor[a].cur = {c}
  /\ \E f \in Copied(a, c) :
       /\ c \in Md5 => f # "absent"
       /\ file' = [file EXCEPT ![c] = f]
       /\ Routine(a, [gor[a] EXCEPT !.pc = IF c \in Md5 /\ f = "partial" THEN "rmdir" ELSE "store",
                                    !.ino = {}])
  /\ Unlock(c)
  /\ UNCHANGED <<shadow, ami, apps, cfgs, eng, cln, left>>

\* The request or the copy fails, and the lock is released ...
DownloadFails(a, c) ==
  /\ gor[a].pc \in {"get", "copy"} /\ gor[a].cur = {c} /\ Spend("downloads")
  /\ Unlock(c)
  /\ Routine(a, [gor[a] EXCEPT !.pc = "rmdir", !.ino = {}])
  /\ UNCHANGED <<shadow, ami, apps, cfgs, file, eng, cln>>

\* ... before DownloadConfig removes the directory, lock file included.  The
\* goroutine ends; cur still says which object it has taken away.
RemoveDir(a, c) ==
  /\ gor[a].pc = "rmdir" /\ gor[a].cur = {c}
  /\ file' = [file EXCEPT ![c] = "absent"]
  /\ Unlock(c)
  /\ Routine(a, [NoRoutine EXCEPT !.pc = "done", !.cur = {c}])
  /\ UNCHANGED <<shadow, ami, apps, cfgs, eng, cln, left>>

\* processConfiguration stores the record.
StoreConfig(a, c) ==
  /\ gor[a].pc = "store" /\ gor[a].cur = {c}
  /\ cfgs' = cfgs \cup {c}
  /\ Routine(a, [gor[a] EXCEPT !.pc = "volumes", !.cur = {}, !.todo = @ \ {c}])
  /\ UNCHANGED <<shadow, ami, apps, file, lock, eng, cln, left>>

\* storeApplication comes last.
StoreApplication(a) ==
  /\ gor[a].pc = "volumes" /\ gor[a].todo = {}
  /\ apps' = apps \cup {a}
  /\ Routine(a, [gor[a] EXCEPT !.pc = "read"])
  /\ UNCHANGED <<shadow, ami, cfgs, file, lock, eng, cln, left>>

\* applyApp reads the records again and gives up when one is gone.
ReadRecords(a) ==
  /\ gor[a].pc = "read"
  /\ Routine(a, [gor[a] EXCEPT !.pc = IF Uses[a] \subseteq cfgs THEN "apply" ELSE "done"])
  /\ UNCHANGED <<shadow, ami, disk, eng, cln, left>>

\* Mutant: the version that runs stays beside the new one.
ApplyAppBeside(a) ==
  /\ gor[a].pc = "apply"
  /\ running' = running \cup {a}
  /\ Routine(a, [NoRoutine EXCEPT !.pc = "done"])
  /\ UNCHANGED <<shadow, finished, disk, eng, cln, left>>

\* The AMI replaces the version that runs.
ApplyApp(a) ==
  /\ gor[a].pc = "apply"
  /\ running' = {b \in running : b.name # a.name} \cup {a}
  /\ finished' = {b \in finished : b.name # a.name}
  /\ Routine(a, [NoRoutine EXCEPT !.pc = "done"])
  /\ UNCHANGED <<shadow, disk, eng, cln, left>>

\* A call to the cloud, the disk, the store or the AMI fails.
RoutineFails(a) ==
  /\ gor[a].pc \in {"sync", "volumes", "store", "read", "apply"} /\ Spend("faults")
  /\ Routine(a, [NoRoutine EXCEPT !.pc = "done"])
  /\ UNCHANGED <<shadow, ami, disk, eng, cln>>

-----------------------------------------------------------------------------
(* The cleaning goroutine: cleanObjectStorage.                             *)

\* The node is read first ...
CleanGet == /\ cln.pc = "idle" /\ Spend("cleans")
            /\ cln' = [NoClean EXCEPT !.pc = "configs", !.desire = desire, !.report = report]
            /\ UNCHANGED <<shadow, ami, disk, eng, gor>>

\* ... then the configurations ...
CleanConfigs == /\ cln.pc = "configs"
                /\ cln' = [cln EXCEPT !.pc = "apps", !.cfgs = cfgs]
                /\ UNCHANGED <<shadow, ami, disk, eng, gor, left>>

\* The version of every name that counts as occupied: the map is filled
\* with the reported applications first, the desired ones overwrite them.
Occupied(d, r) == d \cup {a \in r : \A b \in d : b.name # a.name}

\* Of the versions of a name that are not occupied only the latest counts.
Obsolete(stored, occ) ==
  LET old == stored \ occ
  IN  {a \in old : \A b \in old : b.name = a.name => b.ver <= a.ver}

\* Jobs are known by their names: the report of one version counts for all.
getFinishedJobs(occ, fin) == {a \in occ \cap Jobs : \E b \in fin : b.name = a.name}

\* Mutant: no job counts as a user of its configurations.
usedByNoJob(occ, done) == UNION {Uses[a] : a \in occ \ Jobs}

\* The configurations of the occupied applications that are not finished jobs.
usedBy(occ, done) == UNION {Uses[a] : a \in occ \ done}

\* getUsedObjectCfgs keeps one version of every name, whichever comes last.
getUsedObjectCfgs(occ, done) ==
  {u \in SUBSET usedBy(occ, done) :
     OneVersion(u) /\ \A c \in usedBy(occ, done) : \E d \in u : d.name = c.name}

\* ... and the applications, which decide what goes: configurations that an
\* obsolete application or a finished job had mounted with AutoClean.
CleanApps ==
  LET occ  == apps \cap Occupied(cln.desire, cln.report.apps)
      done == getFinishedJobs(occ, cln.report.finished)
      auto == UNION {AutoClean[a] : a \in Obsolete(apps, occ) \cup done}
  IN  /\ cln.pc = "apps"
      /\ \E u \in getUsedObjectCfgs(occ, done) :
           cln' = [cln EXCEPT !.pc = "delete", !.dels = (cln.cfgs \ u) \cap auto]
      /\ UNCHANGED <<shadow, ami, disk, eng, gor, left>>

\* One configuration after the other: the record, then its directory.
CleanRecord(c) == /\ cln.pc = "delete" /\ cln.cur = {} /\ c \in cln.dels
                  /\ cfgs' = cfgs \ {c}
                  /\ cln' = [cln EXCEPT !.cur = {c}, !.dels = @ \ {c}]
                  /\ UNCHANGED <<shadow, ami, apps, file, lock, eng, gor, left>>

CleanFile(c) == /\ cln.pc = "delete" /\ cln.cur = {c}
                /\ file' = [file EXCEPT ![c] = "absent"]
                /\ Unlock(c)
                /\ cln' = [cln EXCEPT !.cur = {}]
                /\ UNCHANGED <<shadow, ami, apps, cfgs, eng, gor, left>>

CleanDone == /\ cln.pc = "delete" /\ cln.cur = {} /\ cln.dels = {}
             /\ cln' = NoClean
             /\ UNCHANGED <<shadow, ami, disk, eng, gor, left>>

-----------------------------------------------------------------------------
JobSucceeds(a) == /\ a \in (running \cap Jobs) \ finished
                  /\ finished' = finished \cup {a}
                  /\ UNCHANGED <<shadow, running, disk, eng, gor, cln, left>>

\* baetyl-core is started again: what is on disk stays.
Restarted == /\ eng' = "idle"
             /\ gor' = [a \in Apps |-> NoRoutine]
             /\ cln' = NoClean
             /\ UNCHANGED <<shadow, ami, disk>>

Crash == Spend("faults") /\ Restarted

\* A file that is gone when its MD5 is to be checked: downloadObject calls
\* err.Error() on a nil error, and the panic ends the process.
Panic(a, c) == /\ gor[a].pc = "copy" /\ gor[a].cur = {c}
               /\ c \in Md5 /\ file[c] = "absent"
               /\ Restarted
               /\ UNCHANGED left

RoutineStep(a) == \/ SyncResource(a) \/ StoreApplication(a) \/ ReadRecords(a) \/ ApplyApp(a)
                  \/ \E c \in Cfgs : \/ OpenLock(a, c) \/ KeepObject(a, c) \/ GetObject(a, c)
                                    \/ StartCopy(a, c) \/ EndCopy(a, c) \/ Panic(a, c)
                                    \/ RemoveDir(a, c) \/ StoreConfig(a, c)

CleanStep == \/ CleanConfigs \/ CleanApps \/ CleanDone
             \/ \E c \in Cfgs : CleanRecord(c) \/ CleanFile(c)

EngineStep == Recycle \/ Collect \/ JoinApply

Next == \/ NewDesire \/ Pressure \/ EngineStep \/ CleanGet \/ CleanStep \/ Crash
        \/ \E a \in Apps : \/ RoutineStep(a) \/ RoutineFails(a) \/ JobSucceeds(a)
                           \/ \E c \in Cfgs : DownloadFails(a, c)

(***************************************************************************)
(* Fairness: the ticker of the engine fires, goroutines run, no call       *)
(* blocks for ever.                                                        *)
(***************************************************************************)
Spec == /\ Init /\ [][Next]_vars
        /\ WF_vars(EngineStep) /\ WF_vars(CleanStep)
        /\ \A a \in Apps : WF_vars(RoutineStep(a))
-----------------------------------------------------------------------------
\* Every variable has its type; one version of a name is listed at a time.
TypeOK ==
  /\ desire \subseteq Apps /\ OneVersion(desire)
  /\ report.apps \subseteq Apps /\ report.finished \subseteq Jobs
  /\ running \subseteq Apps /\ OneVersion(running) /\ finished \subseteq Jobs
  /\ apps \subseteq Apps /\ cfgs \subseteq Cfgs
  /\ file \in [Cfgs -> {"absent", "partial", "good"}]
  /\ eng \in {"idle", "recycle", "collect", "apply"}
  /\ lock \in [Cfgs -> SUBSET Apps]
  /\ gor \in [Apps -> [pc : {"none", "sync", "volumes", "lock", "get", "copy", "rmdir", "store",
                              "read", "apply", "done"},
                       todo : SUBSET Cfgs, cur : SUBSET Cfgs, ino : SUBSET Apps]]

\* The step hands application version a over to the AMI.
Applies(a) == gor[a].pc = "apply" /\ a \in running' \ running

\* The download of c by another goroutine of the cycle has failed.
GaveUp(a, c) == \E b \in Apps \ {a} : gor[b].pc \in {"rmdir", "done"} /\ gor[b].cur = {c}

\* What the step hands over is whole.
HandsOverWhole ==
  \A a \in Apps : Applies(a) => \A c \in Uses[a] \cap Md5 : file[c] = "good" \/ GaveUp(a, c)

\* A download has failed, and two applications of one desire use c.
MaybeTaken(c) == /\ left.downloads < MaxFails
                 /\ \E d \in Desires : \E a, b \in d : a # b /\ c \in Uses[a] \cap Uses[b]

\* In the end what is desired runs, with its objects in place: a download
\* that was cut off by a crash or failed is made again before the next
\* attempt.  Not covered: what a shared download takes away (AppliedComplete)
\* and what recycling by an old report removes (engine.go, line 193).
EventuallyReady ==
  <>[](\A a \in desire : /\ a \in running
                         /\ \A c \in Uses[a] \cap Md5 :
                              \/ file[c] = "good" \/ MaybeTaken(c)
                              \/ left.pressure < MaxPressure)

\* The application versions that were desired and reported when cleaning
\* read the node, and were not finished jobs.
Settled == {a \in cln.desire \cap cln.report.apps : a \notin Jobs \cap cln.report.finished}

\* Another application in the node that cleaning read uses another version
\* of c: getUsedObjectCfgs knows one of the two only.
Shadowed(c) == \E a \in cln.desire \cup cln.report.apps : \E d \in Uses[a] :
                 d.name = c.name /\ d # c

\* The step is the one in which cleaning removes the file of c.
Cleans(c) == /\ cln.cur = {c} /\ cln'.cur = {}
             /\ file[c] # "absent" /\ file'[c] = "absent"

\* Cleaning never removes the object of a settled application, whatever
\* arrives, is stored, applied or finished while it works.
CleanSparesSettled ==
  [][\A c \in Cfgs : Cleans(c) =>
       \A a \in Settled : c \in Uses[a] => Shadowed(c)]_vars

\* "recycling useless object storage space": the objects of an application
\* that is reported, desired and running are kept.
RecycleKeepsUsed ==
  [][eng = "recycle" /\ eng' = "collect" => \A a \in report.apps \cap desire \cap running : \A c \in Uses[a] :
       file[c] = "good" => file'[c] = "good"]_vars
=============================================================================
