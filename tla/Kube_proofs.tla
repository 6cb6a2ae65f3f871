---------------------------- MODULE Kube_proofs -----------------------------
(***************************************************************************)
(* Proofs about module Kube, for any applications, versions, kinds of      *)
(* workloads, objects of yaml applications and bounds.                     *)
(***************************************************************************)
EXTENDS Kube, TLAPS

Entries == [app : Apps, ver : Versions]
Releases == [ver : AppVer, st : {"none", "deployed", "failed", "pending", "foreign"}]
Labels == {"none", "delete", "create", "read", "write", "yaml", "done"}
Routines == [pc : Labels, ver : AppVer, snap : SUBSET Entries, good : BOOLEAN]
Cycles == [pc : {"idle", "delete", "apply"}, del : SUBSET Apps, upd : [Apps -> AppVer]]

Named(a) == UNION {YamlObjs[a][v] : v \in Versions}
AllNamed == UNION {Named(a) : a \in Apps}

\* TypeOK with the records of the goroutines.
KubeTypes ==
  /\ type \in Types /\ want \in [Apps -> AppVer]
  /\ obj \in [Apps -> [Kinds -> AppVer]]
  /\ pods \in [Apps -> SUBSET Pods]
  /\ rel \in [Apps -> Releases]
  /\ info \subseteq Entries \/ info = {None}
  /\ yobj \in [Apps -> SUBSET AllNamed]
  /\ \A a \in Apps : yobj[a] \subseteq Named(a)
  /\ eng \in Cycles /\ gor \in [Apps -> Routines]
  /\ lost \subseteq Apps /\ waste \subseteq Apps /\ ok \in [Apps -> BOOLEAN]
  /\ updates \in 0..MaxUpdates /\ faults \in 0..MaxFaults

\* Goroutines exist while the engine applies, a goroutine that works has a
\* version to apply, and the record is handled for yaml applications only.
Phases ==
  /\ eng.pc # "apply" => \A a \in Apps : gor[a].pc = "none"
  /\ \A a \in Apps : gor[a].pc \notin {"none", "done"} => gor[a].ver \in Versions
  /\ \A a \in Apps : gor[a].pc \in {"read", "write", "yaml"} => type[a] = "yaml"

\* The objects of one version, or none, as OneVersion has it.
Whole(a) ==
  \/ obj[a] = Nothing
  \/ \E v \in Versions : \/ obj[a] = Exactly(a, v)
                         \/ <<a, v>> \in Preserve /\ \A k \in Needs(a, v) : obj[a][k] = v

\* A call that is about to create objects, and missed none of the old ones,
\* has removed them all, unless they are to be kept.
Swept(a) == gor[a].pc = "create" /\ gor[a].good => obj[a] = Nothing \/ Preserved(a)

PlainOK(a) == type[a] = "plain" => Swept(a) /\ (Quiet(a) /\ ok[a] => Whole(a))

HasEntry(a) == \E i \in info \ {None} : i.app = a

\* The record has an entry for the objects there are, and for those that
\* ApplyYaml is about to make.
RecordOK(a) == yobj[a] # {} \/ gor[a].pc = "yaml" => HasEntry(a) \/ a \in lost \cup waste

KubeInv == /\ KubeTypes /\ Phases
           /\ \A a \in Apps : PlainOK(a) /\ RecordOK(a)

-----------------------------------------------------------------------------
(* The data.                                                               *)

\* The two orders go through all kinds.
LEMMA AllKinds == First(DeleteOrder, 5) = Kinds /\ First(ApplyOrder, 5) = Kinds
                  /\ Len(DeleteOrder) = 5 /\ Len(ApplyOrder) = 5
<1>1. 1..5 = {1, 2, 3, 4, 5}
  OBVIOUS
<1>2. First(DeleteOrder, 5) = {DeleteOrder[i] : i \in {1, 2, 3, 4, 5}}
      /\ First(ApplyOrder, 5) = {ApplyOrder[i] : i \in {1, 2, 3, 4, 5}}
  BY <1>1 DEF First
<1> QED
  BY <1>2 DEF DeleteOrder, ApplyOrder, Kinds, Workloads

\* deleteApplication and applyApplication give objects, and what they leave.
LEMMA ObjectsOf ==
  ASSUME NEW o \in [Kinds -> AppVer], NEW a \in Apps, NEW v \in Versions, NEW n
  PROVE  /\ deleteApplication(o, n) \in [Kinds -> AppVer]
         /\ passingOverHPA(o) \in [Kinds -> AppVer]
         /\ applyApplication(o, a, v, n) \in [Kinds -> AppVer]
         /\ Interrupted(o, a, v, n) \subseteq [Kinds -> AppVer]
         /\ deleteApplication(o, Len(DeleteOrder)) = Nothing
         /\ applyApplication(Nothing, a, v, Len(ApplyOrder)) = Exactly(a, v)
<1>1. None \in AppVer /\ v \in AppVer
  BY DEF AppVer
<1>2. \A m : deleteApplication(o, m) \in [Kinds -> AppVer]
  BY <1>1 DEF deleteApplication
<1>3. passingOverHPA(o) \in [Kinds -> AppVer]
  <2>1. "hpa" \in Kinds /\ o["hpa"] \in AppVer
    BY DEF Kinds
  <2>2. deleteApplication(o, Len(DeleteOrder)) \in [Kinds -> AppVer]
    BY <1>2
  <2> QED
    BY <2>1, <2>2 DEF passingOverHPA
<1>4. applyApplication(o, a, v, n) \in [Kinds -> AppVer]
  BY <1>1 DEF applyApplication
<1>5. Interrupted(o, a, v, n) \subseteq [Kinds -> AppVer]
  BY <1>1, <1>4 DEF Interrupted
<1>6. deleteApplication(o, Len(DeleteOrder)) = Nothing
  BY AllKinds DEF deleteApplication, Nothing
<1>7. applyApplication(Nothing, a, v, Len(ApplyOrder)) = Exactly(a, v)
  BY AllKinds DEF applyApplication, Nothing, Exactly
<1> QED
  BY <1>2, <1>3, <1>4, <1>5, <1>6, <1>7

\* applyApplication makes all that the version needs.
LEMMA AllMade ==
  ASSUME NEW o, NEW a \in Apps, NEW v \in Versions, NEW k \in Needs(a, v)
  PROVE  applyApplication(o, a, v, Len(ApplyOrder))[k] = v
<1>1. k \in Kinds
  BY WorkAssumption DEF Needs, Kinds, Workloads
<1> QED
  BY AllKinds, <1>1 DEF applyApplication

\* The records that the goroutines start from and return to.
LEMMA RestTypes == /\ NoRoutine \in Routines /\ NoRelease \in Releases /\ Resting \in Cycles
                   /\ [NoRoutine EXCEPT !.pc = "done"] \in Routines
                   /\ Nothing \in [Kinds -> AppVer]
<1>1. None \in AppVer
  BY DEF AppVer
<1> QED
  BY <1>1 DEF NoRoutine, NoRelease, Resting, Routines, Releases, Cycles, Labels, Nothing

\* A goroutine goes on with another label.
LEMMA Relabelled ==
  ASSUME NEW r \in Routines, NEW l \in Labels, NEW q, q = [r EXCEPT !.pc = l]
  PROVE  q \in Routines /\ q.pc = l /\ q.ver = r.ver
  BY DEF Routines

\* An entry of the record is a version that StatsYaml lists.
LEMMA ListedByEntry ==
  ASSUME KubeTypes, NEW a \in Apps, HasEntry(a)
  PROVE  StatsYaml(a) # None
<1> DEFINE j == CHOOSE i \in info \ {None} : i.app = a
<1>1. j \in info \ {None} /\ j.app = a
  BY DEF HasEntry
<1>2. j \in Entries
  BY <1>1 DEF KubeTypes
<1>3. j.ver \in Versions
  BY <1>2 DEF Entries
<1> QED
  BY <1>1, <1>3, NoneAssumption DEF StatsYaml

-----------------------------------------------------------------------------
(* What the steps have in common.                                          *)

\* What is said of application b depends on what belongs to b alone.
LEMMA Framed ==
  ASSUME NEW b \in Apps, PlainOK(b), RecordOK(b), type' = type,
         obj'[b] = obj[b], yobj'[b] = yobj[b], gor'[b] = gor[b], ok'[b] = ok[b],
         HasEntry(b) \/ b \in lost \cup waste => HasEntry(b)' \/ b \in lost' \cup waste'
  PROVE  PlainOK(b)' /\ RecordOK(b)'
<1>1. PlainOK(b)'
  BY DEF PlainOK, Swept, Whole, Quiet, Preserved, Exactly, Nothing, Needs
<1>2. RecordOK(b)'
  BY DEF RecordOK
<1> QED
  BY <1>1, <1>2

\* A failing call uses up one of the faults.
LEMMA FaultTypes ==
  ASSUME KubeTypes, Fault \/ UNCHANGED faults
  PROVE  faults' \in 0..MaxFaults
  BY KubeBoundsAssumption DEF KubeTypes, Fault

\* The goroutine for a goes on with record r.
LEMMA GoesOn ==
  ASSUME KubeInv, NEW a \in Apps, NEW r \in Routines, gor[a].pc # "none",
         r.pc \notin {"none", "done"} => r.ver \in Versions,
         r.pc \in {"read", "write", "yaml"} => type[a] = "yaml",
         gor' = [gor EXCEPT ![a] = r], UNCHANGED <<type, eng>>
  PROVE  /\ gor' \in [Apps -> Routines] /\ Phases'
         /\ gor'[a] = r /\ \A b \in Apps \ {a} : gor'[b] = gor[b]
<1>1. gor \in [Apps -> Routines]
  BY DEF KubeInv, KubeTypes
<1>2. gor' \in [Apps -> Routines] /\ gor'[a] = r /\ \A b \in Apps \ {a} : gor'[b] = gor[b]
  BY <1>1
<1>3. eng'.pc = "apply"
  BY DEF KubeInv, Phases
<1>4. \A b \in Apps : gor'[b].pc \notin {"none", "done"} => gor'[b].ver \in Versions
  BY <1>2 DEF KubeInv, Phases
<1>5. \A b \in Apps : gor'[b].pc \in {"read", "write", "yaml"} => type'[b] = "yaml"
  BY <1>2 DEF KubeInv, Phases
<1> QED
  BY <1>2, <1>3, <1>4, <1>5 DEF Phases

\* The call for a returns.
LEMMA Returns ==
  ASSUME KubeInv, NEW a \in Apps, NEW good \in BOOLEAN, gor[a].pc # "none", Return(a, good)
  PROVE  /\ gor' \in [Apps -> Routines] /\ Phases' /\ gor'[a].pc = "done"
         /\ ok' \in [Apps -> BOOLEAN] /\ ok'[a] = good
         /\ \A b \in Apps \ {a} : gor'[b] = gor[b] /\ ok'[b] = ok[b]
         /\ UNCHANGED <<type, want, eng, updates>>
<1>1. PICK r \in Routines : r = [NoRoutine EXCEPT !.pc = "done"]
  BY RestTypes
<1>2. r.pc = "done"
  BY <1>1 DEF NoRoutine
<1>3. /\ gor' = [gor EXCEPT ![a] = r] /\ ok' = [ok EXCEPT ![a] = good]
      /\ UNCHANGED <<type, want, eng, updates>>
  BY <1>1 DEF Return
<1>4. /\ gor' \in [Apps -> Routines] /\ Phases'
      /\ gor'[a] = r /\ \A b \in Apps \ {a} : gor'[b] = gor[b]
  BY <1>2, <1>3, GoesOn
<1>5. ok \in [Apps -> BOOLEAN]
  BY DEF KubeInv, KubeTypes
<1>6. ok' \in [Apps -> BOOLEAN] /\ ok'[a] = good /\ \A b \in Apps \ {a} : ok'[b] = ok[b]
  BY <1>3, <1>5
<1> QED
  BY <1>2, <1>3, <1>4, <1>6

\* DeleteApp for a ends.
LEMMA DeleteEnds ==
  ASSUME KubeInv, NEW a \in Apps, NEW err \in BOOLEAN, NEW good \in BOOLEAN,
         Deleting(a), Deleted(a, err, good)
  PROVE  /\ eng' \in Cycles /\ Phases'
         /\ ok' \in [Apps -> BOOLEAN] /\ ok'[a] = good
         /\ \A b \in Apps \ {a} : ok'[b] = ok[b]
         /\ gor[a].pc = "none" /\ UNCHANGED <<type, want, gor, lost, updates>>
<1>1. /\ eng' = IF err THEN Resting ELSE [eng EXCEPT !.del = @ \ {a}]
      /\ ok' = [ok EXCEPT ![a] = good]
      /\ UNCHANGED <<type, want, gor, lost, updates>>
  BY DEF Deleted
<1>2. eng.pc = "delete" /\ eng \in Cycles /\ ok \in [Apps -> BOOLEAN]
  BY DEF Deleting, KubeInv, KubeTypes
<1>3. \A b \in Apps : gor[b].pc = "none"
  BY <1>2 DEF KubeInv, Phases
<1>4. eng' \in Cycles
  BY <1>1, <1>2, RestTypes DEF Cycles
<1>5. Phases'
  BY <1>1, <1>3 DEF Phases
<1>6. ok' \in [Apps -> BOOLEAN] /\ ok'[a] = good /\ \A b \in Apps \ {a} : ok'[b] = ok[b]
  BY <1>1, <1>2
<1> QED
  BY <1>1, <1>3, <1>4, <1>5, <1>6

\* The objects of application a are replaced by o.
LEMMA ObjectsChange ==
  ASSUME KubeInv, NEW a \in Apps, NEW o \in [Kinds -> AppVer], obj' = [obj EXCEPT ![a] = o]
  PROVE  /\ obj' \in [Apps -> [Kinds -> AppVer]] /\ obj'[a] = o
         /\ \A b \in Apps \ {a} : obj'[b] = obj[b]
  BY DEF KubeInv, KubeTypes

\* The objects of the yaml application a are replaced by S.
LEMMA YamlChanges ==
  ASSUME KubeInv, NEW a \in Apps, NEW S \in SUBSET Named(a), yobj' = [yobj EXCEPT ![a] = S]
  PROVE  /\ yobj' \in [Apps -> SUBSET AllNamed]
         /\ \A b \in Apps : yobj'[b] \subseteq Named(b)
         /\ yobj'[a] = S /\ \A b \in Apps \ {a} : yobj'[b] = yobj[b]
<1>1. S \in SUBSET AllNamed
  BY DEF AllNamed
<1>2. yobj \in [Apps -> SUBSET AllNamed] /\ \A b \in Apps : yobj[b] \subseteq Named(b)
  BY DEF KubeInv, KubeTypes
<1> QED
  BY <1>1, <1>2

-----------------------------------------------------------------------------
(* The engine.                                                             *)

\* A change of the desire touches nothing the AMI has.
LEMMA DesireKeeps ==
  ASSUME KubeInv, NEW a \in Apps, Desire(a)
  PROVE  KubeInv'
<1>1. UNCHANGED <<type, obj, pods, rel, yobj, info, eng, gor, ok, lost, waste, faults>>
  BY DEF Desire, cluster, engine
<1>2. want' \in [Apps -> AppVer] /\ updates' \in 0..MaxUpdates
  BY KubeBoundsAssumption DEF Desire, KubeInv, KubeTypes
<1>3. KubeTypes'
  BY <1>1, <1>2 DEF KubeInv, KubeTypes
<1>4. Phases'
  BY <1>1 DEF KubeInv, Phases
<1>5. \A b \in Apps : HasEntry(b)' <=> HasEntry(b)
  BY <1>1 DEF HasEntry
<1>6. \A b \in Apps : PlainOK(b)' /\ RecordOK(b)'
  BY <1>1, <1>5, Framed DEF KubeInv
<1> QED
  BY <1>3, <1>4, <1>6 DEF KubeInv

\* Whatever StatsApps has returned, the plan is a plan.
LEMMA CollectKeeps ==
  ASSUME KubeInv, Collect \/ CollectFails
  PROVE  KubeInv'
<1>1. /\ eng.pc = "idle" /\ (Fault \/ UNCHANGED faults)
      /\ UNCHANGED <<type, want, obj, pods, rel, yobj, info, gor, ok, lost, waste, updates>>
      /\ \E seen : Plan(seen)
  BY DEF Collect, CollectFails, cluster
<1>2. want \in [Apps -> AppVer] /\ None \in AppVer
  BY DEF KubeInv, KubeTypes, AppVer
<1>3. eng' \in Cycles /\ eng'.pc = "delete"
  BY <1>1, <1>2 DEF Plan, Cycles
<1>4. KubeTypes'
  BY <1>1, <1>3, FaultTypes DEF KubeInv, KubeTypes
<1>5. Phases'
  BY <1>1, <1>3 DEF KubeInv, Phases
<1>6. \A b \in Apps : HasEntry(b)' <=> HasEntry(b)
  BY <1>1 DEF HasEntry
<1>7. \A b \in Apps : PlainOK(b)' /\ RecordOK(b)'
  BY <1>1, <1>6, Framed DEF KubeInv
<1> QED
  BY <1>4, <1>5, <1>7 DEF KubeInv

\* The goroutines start; none was there before.
LEMMA StartKeeps ==
  ASSUME KubeInv, StartApply
  PROVE  KubeInv'
<1>1. /\ eng.pc = "delete" /\ eng' = [eng EXCEPT !.pc = "apply"]
      /\ UNCHANGED <<type, want, obj, pods, rel, yobj, info, ok, lost, waste, updates, faults>>
  BY DEF StartApply, cluster
<1>2. eng \in Cycles /\ type \in Types /\ eng.upd \in [Apps -> AppVer]
  BY DEF KubeInv, KubeTypes, Cycles
<1>3. eng' \in Cycles /\ eng'.pc = "apply"
  BY <1>1, <1>2 DEF Cycles
<1>4. ASSUME NEW a \in Apps
      PROVE  /\ gor'[a] \in Routines
             /\ \/ gor'[a].pc = "none"
                \/ /\ gor'[a].pc = IF type[a] = "yaml" THEN "read" ELSE "delete"
                   /\ gor'[a].ver \in Versions
  <2>1. gor'[a] = IF eng.upd[a] # None
                  THEN [NoRoutine EXCEPT !.ver = eng.upd[a],
                          !.pc = IF type[a] = "yaml" THEN "read" ELSE "delete"]
                  ELSE NoRoutine
    BY DEF StartApply
  <2>2. eng.upd[a] # None => eng.upd[a] \in Versions /\ eng.upd[a] \in AppVer
    BY <1>2 DEF AppVer
  <2>3. NoRoutine \in Routines /\ NoRoutine.pc = "none"
    BY RestTypes DEF NoRoutine
  <2>4. Versions \subseteq AppVer /\ {"read", "delete"} \subseteq Labels
    BY DEF AppVer, Labels
  <2>5. PICK l \in {"read", "delete"} : l = IF type[a] = "yaml" THEN "read" ELSE "delete"
    OBVIOUS
  <2>6. CASE eng.upd[a] = None
    BY <2>1, <2>3, <2>6
  <2>7. CASE eng.upd[a] # None
    <3>1. PICK v \in Versions : v = eng.upd[a]
      BY <2>2, <2>7
    <3>2. PICK q : q = [NoRoutine EXCEPT !.ver = v, !.pc = l]
      OBVIOUS
    <3>3. gor'[a] = q
      BY <2>1, <2>5, <2>7, <3>1, <3>2
    <3>4. q \in Routines /\ q.pc = l /\ q.ver = v
      BY <2>3, <2>4, <3>2 DEF Routines
    <3> QED
      BY <2>5, <3>3, <3>4
  <2> QED
    BY <2>6, <2>7
<1>5. gor' = [a \in Apps |-> gor'[a]]
  BY DEF StartApply
<1>6. gor' \in [Apps -> Routines]
  BY <1>4, <1>5
<1>7. KubeTypes'
  BY <1>1, <1>3, <1>6 DEF KubeInv, KubeTypes
<1>8. Phases'
  BY <1>1, <1>3, <1>4 DEF Phases
<1>9. ASSUME NEW a \in Apps
      PROVE  PlainOK(a)' /\ RecordOK(a)'
  <2>1. gor[a].pc = "none" /\ PlainOK(a) /\ RecordOK(a)
    BY <1>1 DEF KubeInv, Phases
  <2>2. gor'[a].pc \in {"none", "read", "delete"}
    BY <1>4
  <2>3. PlainOK(a)'
    BY <1>1, <2>1, <2>2 DEF PlainOK, Swept, Whole, Quiet, Preserved
  <2>4. RecordOK(a)'
    BY <1>1, <2>1, <2>2 DEF RecordOK, HasEntry
  <2> QED
    BY <2>3, <2>4
<1> QED
  BY <1>7, <1>8, <1>9 DEF KubeInv

\* The goroutines are joined, or die with baetyl-core, whose call did not
\* do what it was asked then.
LEMMA JoinKeeps ==
  ASSUME KubeInv, JoinApply \/ Crash
  PROVE  KubeInv'
<1>1. /\ eng' = Resting /\ gor' = [a \in Apps |-> NoRoutine] /\ (Fault \/ UNCHANGED faults)
      /\ UNCHANGED <<type, want, obj, pods, yobj, info, lost, waste, updates>>
  BY DEF JoinApply, Crash, cluster
<1>2. eng' \in Cycles /\ gor' \in [Apps -> Routines] /\ eng'.pc = "idle"
      /\ \A a \in Apps : gor'[a].pc = "none"
  BY <1>1, RestTypes DEF Resting, NoRoutine
<1>3. rel \in [Apps -> Releases] /\ gor \in [Apps -> Routines] /\ ok \in [Apps -> BOOLEAN]
  BY DEF KubeInv, KubeTypes
<1>4. rel' \in [Apps -> Releases]
  <2>1. CASE JoinApply
    BY <1>3, <2>1 DEF JoinApply, cluster
  <2>2. CASE Crash
    <3>1. \A a \in Apps : [ver |-> gor[a].ver, st |-> "pending"] \in Releases
      BY <1>3 DEF Routines, Releases
    <3>2. PICK S : rel' = [a \in Apps |-> IF a \in S THEN [ver |-> gor[a].ver, st |-> "pending"]
                                           ELSE rel[a]]
      BY <2>2 DEF Crash
    <3> QED
      BY <1>3, <3>1, <3>2
  <2> QED
    BY <2>1, <2>2
<1>5. ok' \in [Apps -> BOOLEAN] /\ \A a \in Apps : ok'[a] => ok[a] /\ Quiet(a)
  <2>1. CASE JoinApply
    BY <1>3, <2>1 DEF JoinApply, Quiet
  <2>2. CASE Crash
    <3>1. PICK busy : /\ busy = {a \in Apps : gor[a].pc \notin {"none", "done"}}
                      /\ ok' = [a \in Apps |-> ok[a] /\ a \notin busy]
      BY <2>2 DEF Crash
    <3>2. ASSUME NEW a \in Apps
          PROVE  ok'[a] \in BOOLEAN /\ (ok'[a] => ok[a] /\ Quiet(a))
      <4>1. ok'[a] = (ok[a] /\ a \notin busy)
        BY <3>1
      <4> QED
        BY <3>1, <4>1 DEF Quiet
    <3> QED
      BY <3>1, <3>2
  <2> QED
    BY <2>1, <2>2
<1>6. KubeTypes'
  BY <1>1, <1>2, <1>4, <1>5, FaultTypes DEF KubeInv, KubeTypes
<1>7. Phases'
  BY <1>2 DEF Phases
<1>8. ASSUME NEW a \in Apps
      PROVE  PlainOK(a)' /\ RecordOK(a)'
  <2>1. PlainOK(a) /\ RecordOK(a)
    BY DEF KubeInv
  <2>2. PlainOK(a)'
    BY <1>1, <1>2, <1>5, <2>1 DEF PlainOK, Swept, Whole, Quiet, Preserved
  <2>3. RecordOK(a)'
    BY <1>1, <1>2, <2>1 DEF RecordOK, HasEntry
  <2> QED
    BY <2>2, <2>3
<1> QED
  BY <1>6, <1>7, <1>8 DEF KubeInv

-----------------------------------------------------------------------------
(* DeleteApp.                                                              *)

\* The objects of a plain application go, all of them or some.
LEMMA DeletePlainKeeps ==
  ASSUME KubeInv, NEW a \in Apps, DeletePlain(a) \/ DeletePlainFails(a)
  PROVE  KubeInv'
<1>1. /\ Deleting(a) /\ type[a] = "plain" /\ (Fault \/ UNCHANGED faults)
      /\ UNCHANGED <<pods, rel, yobj, info, waste>>
  BY DEF DeletePlain, DeletePlainFails
<1>2. obj[a] \in [Kinds -> AppVer]
  BY DEF KubeInv, KubeTypes
<1>3. PICK o \in [Kinds -> AppVer], err \in BOOLEAN, good \in BOOLEAN :
        /\ obj' = [obj EXCEPT ![a] = o] /\ Deleted(a, err, good)
        /\ good => o = Nothing
  <2>1. CASE DeletePlain(a)
    <3>1. deleteApplication(obj[a], Len(DeleteOrder)) = Nothing
      BY <1>2, AllKinds DEF deleteApplication, Nothing
    <3> QED
      BY <2>1, <3>1, RestTypes DEF DeletePlain
  <2>2. CASE DeletePlainFails(a)
    <3>1. \A n : deleteApplication(obj[a], n) \in [Kinds -> AppVer]
      BY <1>2 DEF deleteApplication, AppVer
    <3>2. passingOverHPA(obj[a]) \in [Kinds -> AppVer]
      BY <1>2, <3>1 DEF passingOverHPA, Kinds
    <3> QED
      BY <2>2, <3>1, <3>2 DEF DeletePlainFails
  <2> QED
    BY <2>1, <2>2
<1>4. /\ eng' \in Cycles /\ Phases'
      /\ ok' \in [Apps -> BOOLEAN] /\ ok'[a] = good
      /\ \A b \in Apps \ {a} : ok'[b] = ok[b]
      /\ gor[a].pc = "none" /\ UNCHANGED <<type, want, gor, lost, updates>>
  BY <1>1, <1>3, DeleteEnds
<1>5. /\ obj' \in [Apps -> [Kinds -> AppVer]] /\ obj'[a] = o
      /\ \A b \in Apps \ {a} : obj'[b] = obj[b]
  BY <1>3, ObjectsChange
<1>6. KubeTypes'
  BY <1>1, <1>4, <1>5, FaultTypes DEF KubeInv, KubeTypes
<1>7. \A b \in Apps : HasEntry(b)' <=> HasEntry(b)
  BY <1>1 DEF HasEntry
<1>8. \A b \in Apps \ {a} : PlainOK(b)' /\ RecordOK(b)'
  BY <1>1, <1>4, <1>5, <1>7, Framed DEF KubeInv
<1>9. PlainOK(a)'
  BY <1>3, <1>4, <1>5 DEF PlainOK, Swept, Whole, Nothing
<1>10. RecordOK(a)'
  BY <1>1, <1>4, <1>7 DEF KubeInv, RecordOK
<1> QED
  BY <1>4, <1>6, <1>8, <1>9, <1>10 DEF KubeInv

\* A helm release is uninstalled, or not.
LEMMA DeleteHelmKeeps ==
  ASSUME KubeInv, NEW a \in Apps, DeleteHelm(a) \/ DeleteHelmFails(a)
  PROVE  KubeInv'
<1>1. /\ Deleting(a) /\ type[a] = "helm" /\ (Fault \/ UNCHANGED faults)
      /\ UNCHANGED <<obj, pods, yobj, info, waste>>
      /\ \E err \in BOOLEAN, good \in BOOLEAN : Deleted(a, err, good)
      /\ rel' = [rel EXCEPT ![a] = NoRelease] \/ rel' = rel
  BY DEF DeleteHelm, DeleteHelmFails, cluster
<1>2. /\ eng' \in Cycles /\ Phases' /\ ok' \in [Apps -> BOOLEAN]
      /\ \A b \in Apps \ {a} : ok'[b] = ok[b]
      /\ gor[a].pc = "none" /\ UNCHANGED <<type, want, gor, lost, updates>>
  BY <1>1, DeleteEnds
<1>3. rel' \in [Apps -> Releases]
  BY <1>1, RestTypes DEF KubeInv, KubeTypes
<1>4. KubeTypes'
  BY <1>1, <1>2, <1>3, FaultTypes DEF KubeInv, KubeTypes
<1>5. \A b \in Apps : HasEntry(b)' <=> HasEntry(b)
  BY <1>1 DEF HasEntry
<1>6. \A b \in Apps \ {a} : PlainOK(b)' /\ RecordOK(b)'
  BY <1>1, <1>2, <1>5, Framed DEF KubeInv
<1>7. PlainOK(a)'
  BY <1>1, <1>2 DEF PlainOK
<1>8. RecordOK(a)'
  BY <1>1, <1>2, <1>5 DEF KubeInv, RecordOK
<1> QED
  BY <1>2, <1>4, <1>6, <1>7, <1>8 DEF KubeInv

\* The entry of a yaml application goes, then its objects; what is left of
\* them is waste.
LEMMA DeleteYamlKeeps ==
  ASSUME KubeInv, NEW a \in Apps, DeleteYaml(a) \/ DeleteYamlFails(a)
  PROVE  KubeInv'
<1>1. /\ Deleting(a) /\ type[a] = "yaml" /\ (Fault \/ UNCHANGED faults)
      /\ UNCHANGED <<obj, pods, rel>>
  BY DEF DeleteYaml, DeleteYamlFails
<1>2. PICK err \in BOOLEAN, good \in BOOLEAN : Deleted(a, err, good)
  BY DEF DeleteYaml, DeleteYamlFails
<1>3. /\ eng' \in Cycles /\ Phases' /\ ok' \in [Apps -> BOOLEAN]
      /\ \A b \in Apps \ {a} : ok'[b] = ok[b]
      /\ gor[a].pc = "none" /\ UNCHANGED <<type, want, gor, lost, updates>>
  BY <1>1, <1>2, DeleteEnds
<1>4. yobj[a] \subseteq Named(a) /\ waste \subseteq Apps
  BY DEF KubeInv, KubeTypes
<1>5. PlainOK(a)'
  BY <1>1, <1>3 DEF PlainOK
<1>6. CASE UNCHANGED <<info, yobj, waste>>
  <2>1. KubeTypes'
    BY <1>1, <1>3, <1>6, FaultTypes DEF KubeInv, KubeTypes
  <2>2. \A b \in Apps : HasEntry(b)' <=> HasEntry(b)
    BY <1>6 DEF HasEntry
  <2>3. \A b \in Apps \ {a} : PlainOK(b)' /\ RecordOK(b)'
    BY <1>1, <1>3, <1>6, <2>2, Framed DEF KubeInv
  <2>4. RecordOK(a)'
    BY <1>3, <1>6, <2>2 DEF KubeInv, RecordOK
  <2> QED
    BY <1>3, <1>5, <2>1, <2>3, <2>4 DEF KubeInv
<1>7. ASSUME NEW S \in SUBSET yobj[a],
             info' = {i \in info \ {None} : i.app # a},
             yobj' = [yobj EXCEPT ![a] = S],
             waste' = IF S = {} THEN waste \ {a} ELSE waste \cup {a}
      PROVE  KubeInv'
  <2>1. info' \subseteq Entries
    BY <1>7 DEF KubeInv, KubeTypes
  <2>2. /\ yobj' \in [Apps -> SUBSET AllNamed]
        /\ \A b \in Apps : yobj'[b] \subseteq Named(b)
        /\ yobj'[a] = S /\ \A b \in Apps \ {a} : yobj'[b] = yobj[b]
    BY <1>4, <1>7, YamlChanges
  <2>3. waste' \subseteq Apps
    BY <1>4, <1>7
  <2>4. KubeTypes'
    BY <1>1, <1>3, <2>1, <2>2, <2>3, FaultTypes DEF KubeInv, KubeTypes
  <2>5. ASSUME NEW b \in Apps \ {a}
        PROVE  HasEntry(b) \/ b \in lost \cup waste => HasEntry(b)' \/ b \in lost' \cup waste'
    <3>1. ASSUME NEW i \in info \ {None}, i.app = b
          PROVE  i \in info' \ {None}
      BY <1>7, <3>1
    <3>2. HasEntry(b) => HasEntry(b)'
      BY <3>1 DEF HasEntry
    <3>3. b \in lost \cup waste => b \in lost' \cup waste'
      BY <1>3, <1>7
    <3> QED
      BY <3>2, <3>3
  <2>6. \A b \in Apps \ {a} : PlainOK(b)' /\ RecordOK(b)'
    BY <1>1, <1>3, <2>2, <2>5, Framed DEF KubeInv
  <2>7. RecordOK(a)'
    BY <1>3, <1>7, <2>2 DEF RecordOK
  <2> QED
    BY <1>3, <1>5, <2>4, <2>6, <2>7 DEF KubeInv
<1>8. CASE DeleteYaml(a)
  BY <1>7, <1>8 DEF DeleteYaml
<1>9. CASE DeleteYamlFails(a)
  BY <1>6, <1>7, <1>9 DEF DeleteYamlFails
<1> QED
  BY <1>8, <1>9

-----------------------------------------------------------------------------
(* ApplyApp.                                                               *)

\* The old objects of a plain application are removed.
LEMMA RemoveOldKeeps ==
  ASSUME KubeInv, NEW a \in Apps, RemoveOld(a) \/ RemoveOldFails(a)
  PROVE  KubeInv'
<1>1. /\ gor[a].pc = "delete" /\ type[a] = "plain" /\ (Fault \/ UNCHANGED faults)
      /\ UNCHANGED <<pods, rel, yobj, info, lost, waste>>
  BY DEF RemoveOld, RemoveOldFails, Routine
<1>2. obj[a] \in [Kinds -> AppVer] /\ gor[a] \in Routines /\ gor[a].ver \in Versions
  BY <1>1 DEF KubeInv, KubeTypes, Phases
<1>3. \A n : deleteApplication(obj[a], n) \in [Kinds -> AppVer]
  BY <1>2 DEF deleteApplication, AppVer
<1>4. passingOverHPA(obj[a]) \in [Kinds -> AppVer]
  BY <1>2, <1>3 DEF passingOverHPA, Kinds
<1>5. deleteApplication(obj[a], Len(DeleteOrder)) = Nothing
  BY <1>2, AllKinds DEF deleteApplication, Nothing
<1>6. obj = [obj EXCEPT ![a] = obj[a]]
  BY DEF KubeInv, KubeTypes
<1>7. \A b \in Apps : HasEntry(b)' <=> HasEntry(b)
  BY <1>1 DEF HasEntry
<1>8. ASSUME NEW o \in [Kinds -> AppVer], obj' = [obj EXCEPT ![a] = o], Return(a, FALSE)
      PROVE  KubeInv'
  <2>1. /\ gor' \in [Apps -> Routines] /\ Phases' /\ gor'[a].pc = "done"
        /\ ok' \in [Apps -> BOOLEAN] /\ ok'[a] = FALSE
        /\ \A b \in Apps \ {a} : gor'[b] = gor[b] /\ ok'[b] = ok[b]
        /\ UNCHANGED <<type, want, eng, updates>>
    BY <1>1, <1>8, Returns
  <2>2. /\ obj' \in [Apps -> [Kinds -> AppVer]]
        /\ \A b \in Apps \ {a} : obj'[b] = obj[b]
    BY <1>8, ObjectsChange
  <2>3. KubeTypes'
    BY <1>1, <2>1, <2>2, FaultTypes DEF KubeInv, KubeTypes
  <2>4. \A b \in Apps \ {a} : PlainOK(b)' /\ RecordOK(b)'
    BY <1>1, <1>7, <2>1, <2>2, Framed DEF KubeInv
  <2>5. PlainOK(a)' /\ RecordOK(a)'
    BY <1>1, <1>7, <2>1 DEF KubeInv, PlainOK, Swept, RecordOK
  <2> QED
    BY <2>1, <2>3, <2>4, <2>5 DEF KubeInv
<1>9. ASSUME NEW o \in [Kinds -> AppVer], NEW r \in Routines,
             obj' = [obj EXCEPT ![a] = o], gor' = [gor EXCEPT ![a] = r],
             UNCHANGED <<type, want, eng, ok, updates>>,
             r.pc = "create", r.ver = gor[a].ver,
             r.good => o = Nothing \/ Preserved(a)
      PROVE  KubeInv'
  <2>1. /\ gor' \in [Apps -> Routines] /\ Phases'
        /\ gor'[a] = r /\ \A b \in Apps \ {a} : gor'[b] = gor[b]
    BY <1>1, <1>2, <1>9, GoesOn
  <2>2. /\ obj' \in [Apps -> [Kinds -> AppVer]] /\ obj'[a] = o
        /\ \A b \in Apps \ {a} : obj'[b] = obj[b]
    BY <1>9, ObjectsChange
  <2>3. KubeTypes'
    BY <1>1, <1>9, <2>1, <2>2, FaultTypes DEF KubeInv, KubeTypes
  <2>4. \A b \in Apps \ {a} : PlainOK(b)' /\ RecordOK(b)'
    BY <1>1, <1>7, <1>9, <2>1, <2>2, Framed DEF KubeInv
  <2>5. PlainOK(a)'
    BY <1>9, <2>1, <2>2 DEF PlainOK, Swept, Quiet, Preserved, Nothing
  <2>6. RecordOK(a)'
    BY <1>1, <1>7, <1>9, <2>1 DEF KubeInv, RecordOK
  <2> QED
    BY <2>1, <2>3, <2>4, <2>5, <2>6 DEF KubeInv
<1>10. CASE RemoveOld(a)
  <2>1. PICK r : r = [gor[a] EXCEPT !.pc = "create"]
    OBVIOUS
  <2>2. /\ gor' = [gor EXCEPT ![a] = r] /\ UNCHANGED <<type, want, eng, ok, updates>>
    BY <1>10, <2>1 DEF RemoveOld, Goto
  <2>5. "create" \in Labels
    BY DEF Labels
  <2>6. r \in Routines /\ r.pc = "create" /\ r.ver = gor[a].ver
    BY <1>2, <2>1, <2>5, Relabelled
  <2>3. CASE Preserved(a)
    <3>1. obj' = [obj EXCEPT ![a] = obj[a]]
      BY <1>6, <1>10, <2>3 DEF RemoveOld
    <3> QED
      BY <1>2, <1>9, <2>2, <2>3, <2>6, <3>1
  <2>4. CASE ~Preserved(a)
    <3>1. obj' = [obj EXCEPT ![a] = Nothing]
      BY <1>5, <1>10, <2>4 DEF RemoveOld
    <3> QED
      BY <1>9, <2>2, <2>6, <3>1, RestTypes
  <2> QED
    BY <2>3, <2>4
<1>11. CASE RemoveOldFails(a)
  <2>1. PICK r : r = [gor[a] EXCEPT !.pc = "create", !.good = FALSE]
    OBVIOUS
  <2>2. \/ \E n : obj' = [obj EXCEPT ![a] = deleteApplication(obj[a], n)] /\ Return(a, FALSE)
        \/ /\ obj' = [obj EXCEPT ![a] = passingOverHPA(obj[a])]
           /\ gor' = [gor EXCEPT ![a] = r]
           /\ UNCHANGED <<type, want, eng, ok, updates>>
    BY <1>11, <2>1 DEF RemoveOldFails
  <2>3. "create" \in Labels
    BY DEF Labels
  <2>4. r \in Routines /\ r.pc = "create" /\ r.ver = gor[a].ver /\ ~r.good
    BY <1>2, <2>1, <2>3 DEF Routines
  <2> QED
    BY <1>3, <1>4, <1>8, <1>9, <2>2, <2>4
<1> QED
  BY <1>10, <1>11

\* The objects of the new version are created, all of them or some.
LEMMA CreateKeeps ==
  ASSUME KubeInv, NEW a \in Apps, CreateNew(a) \/ CreateNewFails(a)
  PROVE  KubeInv'
<1>1. /\ gor[a].pc = "create" /\ (Fault \/ UNCHANGED faults)
      /\ UNCHANGED <<pods, rel, yobj, info, lost, waste>>
  BY DEF CreateNew, CreateNewFails, Routine
<1>2. /\ obj[a] \in [Kinds -> AppVer] /\ gor[a] \in Routines /\ gor[a].ver \in Versions
      /\ gor[a].good \in BOOLEAN
  BY <1>1 DEF KubeInv, KubeTypes, Phases, Routines
<1>3. PICK v \in Versions : v = gor[a].ver
  BY <1>2
<1>4. PICK good \in BOOLEAN : /\ Return(a, good)
                              /\ good => CreateNew(a) /\ gor[a].good
  <2>1. CASE CreateNew(a)
    BY <1>2, <2>1 DEF CreateNew
  <2>2. CASE CreateNewFails(a)
    BY <2>2 DEF CreateNewFails
  <2> QED
    BY <2>1, <2>2
<1>5. /\ gor' \in [Apps -> Routines] /\ Phases' /\ gor'[a].pc = "done"
      /\ ok' \in [Apps -> BOOLEAN] /\ ok'[a] = good
      /\ \A b \in Apps \ {a} : gor'[b] = gor[b] /\ ok'[b] = ok[b]
      /\ UNCHANGED <<type, want, eng, updates>>
  BY <1>1, <1>4, Returns
<1>6. PICK o \in [Kinds -> AppVer] :
        /\ obj' = [obj EXCEPT ![a] = o]
        /\ CreateNew(a) => o = applyApplication(obj[a], a, v, Len(ApplyOrder))
  <2>1. CASE CreateNew(a)
    <3>1. applyApplication(obj[a], a, v, Len(ApplyOrder)) \in [Kinds -> AppVer]
      BY <1>2, <1>3, ObjectsOf
    <3> QED
      BY <1>3, <2>1, <3>1 DEF CreateNew
  <2>2. CASE CreateNewFails(a) /\ ~CreateNew(a)
    <3>1. PICK n \in 0..Len(ApplyOrder) - 1 : \E o \in Interrupted(obj[a], a, v, n) :
                                                 obj' = [obj EXCEPT ![a] = o]
      BY <1>3, <2>2 DEF CreateNewFails
    <3>2. Interrupted(obj[a], a, v, n) \subseteq [Kinds -> AppVer]
      BY <1>2, <1>3, ObjectsOf
    <3> QED
      BY <2>2, <3>1, <3>2
  <2> QED
    BY <2>1, <2>2
<1>7. /\ obj' \in [Apps -> [Kinds -> AppVer]] /\ obj'[a] = o
      /\ \A b \in Apps \ {a} : obj'[b] = obj[b]
  BY <1>6, ObjectsChange
<1>8. KubeTypes'
  BY <1>1, <1>5, <1>7, FaultTypes DEF KubeInv, KubeTypes
<1>9. \A b \in Apps : HasEntry(b)' <=> HasEntry(b)
  BY <1>1 DEF HasEntry
<1>10. \A b \in Apps \ {a} : PlainOK(b)' /\ RecordOK(b)'
  BY <1>1, <1>5, <1>7, <1>9, Framed DEF KubeInv
<1>11. PlainOK(a)'
  <2>1. ASSUME type[a] = "plain", good
        PROVE  \/ o = Exactly(a, v)
               \/ <<a, v>> \in Preserve /\ \A k \in Needs(a, v) : o[k] = v
    <3>1. obj[a] = Nothing \/ Preserved(a)
      BY <1>1, <1>4, <2>1 DEF KubeInv, PlainOK, Swept
    <3>2. o = applyApplication(obj[a], a, v, Len(ApplyOrder))
      BY <1>4, <1>6, <2>1
    <3>3. CASE obj[a] = Nothing
      BY <1>2, <1>3, <3>2, <3>3, ObjectsOf
    <3>4. CASE Preserved(a)
      <4>1. \A k \in Needs(a, v) : o[k] = v
        BY <3>2, AllMade
      <4> QED
        BY <1>3, <3>4, <4>1 DEF Preserved
    <3> QED
      BY <3>1, <3>3, <3>4
  <2>2. type[a] = "plain" /\ good => Whole(a)'
    BY <1>7, <2>1 DEF Whole, Exactly, Needs
  <2> QED
    BY <1>5, <2>2 DEF PlainOK, Swept
<1>12. RecordOK(a)'
  BY <1>1, <1>5, <1>9 DEF KubeInv, RecordOK
<1> QED
  BY <1>5, <1>8, <1>10, <1>11, <1>12 DEF KubeInv

\* A release is installed or upgraded, or somebody else installs it.
LEMMA ApplyHelmKeeps ==
  ASSUME KubeInv, NEW a \in Apps, ApplyHelm(a) \/ ApplyHelmFails(a)
  PROVE  KubeInv'
<1>1. /\ gor[a].pc = "delete" /\ type[a] = "helm" /\ (Fault \/ UNCHANGED faults)
      /\ UNCHANGED <<obj, pods, yobj, info, lost, waste>>
      /\ \E good \in BOOLEAN : Return(a, good)
  BY DEF ApplyHelm, ApplyHelmFails, Routine
<1>2. /\ gor' \in [Apps -> Routines] /\ Phases' /\ gor'[a].pc = "done"
      /\ ok' \in [Apps -> BOOLEAN]
      /\ \A b \in Apps \ {a} : gor'[b] = gor[b] /\ ok'[b] = ok[b]
      /\ UNCHANGED <<type, want, eng, updates>>
  BY <1>1, Returns
<1>3. rel' \in [Apps -> Releases]
  <2>1. rel \in [Apps -> Releases] /\ gor[a].ver \in AppVer
    BY DEF KubeInv, KubeTypes, Routines
  <2>2. \A s \in {"deployed", "failed"} : [ver |-> gor[a].ver, st |-> s] \in Releases
    BY <2>1 DEF Releases
  <2>3. \/ rel' = rel
        \/ \E r \in {rel[a], NoRelease, [ver |-> gor[a].ver, st |-> "deployed"],
                     [ver |-> gor[a].ver, st |-> "failed"]} : rel' = [rel EXCEPT ![a] = r]
    BY DEF ApplyHelm, ApplyHelmFails
  <2> QED
    BY <2>1, <2>2, <2>3, RestTypes
<1>4. KubeTypes'
  BY <1>1, <1>2, <1>3, FaultTypes DEF KubeInv, KubeTypes
<1>5. \A b \in Apps : HasEntry(b)' <=> HasEntry(b)
  BY <1>1 DEF HasEntry
<1>6. \A b \in Apps \ {a} : PlainOK(b)' /\ RecordOK(b)'
  BY <1>1, <1>2, <1>5, Framed DEF KubeInv
<1>7. PlainOK(a)'
  BY <1>1, <1>2 DEF PlainOK
<1>8. RecordOK(a)'
  BY <1>1, <1>2, <1>5 DEF KubeInv, RecordOK
<1> QED
  BY <1>2, <1>4, <1>6, <1>7, <1>8 DEF KubeInv

\* Steps that only touch releases or pods.
LEMMA OutsideKeeps ==
  ASSUME KubeInv, NEW a \in Apps,
         \/ ForeignRelease(a) \/ (\E k \in Workloads : PodUp(a, k))
         \/ (\E p \in Pods : PodDown(a, p))
  PROVE  KubeInv'
<1>1. /\ (Fault \/ UNCHANGED faults)
      /\ UNCHANGED <<type, want, obj, yobj, info, eng, gor, ok, lost, waste, updates>>
  BY DEF ForeignRelease, PodUp, PodDown, engine
<1>2. rel' \in [Apps -> Releases]
  <2>1. [ver |-> None, st |-> "foreign"] \in Releases
    BY DEF Releases, AppVer
  <2>2. rel' = rel \/ rel' = [rel EXCEPT ![a] = [ver |-> None, st |-> "foreign"]]
    BY DEF ForeignRelease, PodUp, PodDown
  <2> QED
    BY <2>1, <2>2 DEF KubeInv, KubeTypes
<1>3. pods' \in [Apps -> SUBSET Pods]
  <2>1. pods \in [Apps -> SUBSET Pods] /\ obj[a] \in [Kinds -> AppVer]
    BY DEF KubeInv, KubeTypes
  <2>2. ASSUME NEW k \in Workloads, PodUp(a, k)
        PROVE  pods' \in [Apps -> SUBSET Pods]
    <3>1. obj[a][k] \in Versions
      BY <2>1, <2>2 DEF PodUp, AppVer, Kinds
    <3>2. <<k, obj[a][k]>> \in Pods
      BY <3>1 DEF Pods
    <3> QED
      BY <2>1, <2>2, <3>2 DEF PodUp
  <2>3. ASSUME NEW p \in Pods, PodDown(a, p)
        PROVE  pods' \in [Apps -> SUBSET Pods]
    BY <2>1, <2>3 DEF PodDown
  <2>4. CASE ForeignRelease(a)
    BY <2>1, <2>4 DEF ForeignRelease
  <2> QED
    BY <2>2, <2>3, <2>4
<1>4. KubeTypes'
  BY <1>1, <1>2, <1>3, FaultTypes DEF KubeInv, KubeTypes
<1>5. Phases'
  BY <1>1 DEF KubeInv, Phases
<1>6. \A b \in Apps : HasEntry(b)' <=> HasEntry(b)
  BY <1>1 DEF HasEntry
<1>7. \A b \in Apps : PlainOK(b)' /\ RecordOK(b)'
  BY <1>1, <1>6, Framed DEF KubeInv
<1> QED
  BY <1>4, <1>5, <1>7 DEF KubeInv

-----------------------------------------------------------------------------
(* Yaml applications.                                                      *)

\* The record is read, and made when it is not there: no entry goes.
LEMMA ReadKeeps ==
  ASSUME KubeInv, NEW a \in Apps, ReadInfo(a)
  PROVE  KubeInv'
<1>1. /\ gor[a].pc = "read" /\ info' = info \ {None}
      /\ UNCHANGED <<type, want, obj, pods, rel, yobj, eng, ok, lost, waste, updates, faults>>
  BY DEF ReadInfo, Routine, cluster
<1>2. gor[a] \in Routines /\ gor[a].ver \in Versions /\ type[a] = "yaml"
  BY <1>1 DEF KubeInv, KubeTypes, Phases
<1>3. PICK S \in SUBSET Entries : S = info \ {None}
  BY DEF KubeInv, KubeTypes
<1>4. PICK r : r = [gor[a] EXCEPT !.pc = "write", !.snap = S]
  OBVIOUS
<1>5. r \in Routines /\ r.pc = "write" /\ r.ver = gor[a].ver
  BY <1>2, <1>4 DEF Routines, Labels
<1>6. gor' = [gor EXCEPT ![a] = r]
  BY <1>3, <1>4 DEF ReadInfo
<1>7. /\ gor' \in [Apps -> Routines] /\ Phases'
      /\ gor'[a] = r /\ \A b \in Apps \ {a} : gor'[b] = gor[b]
  BY <1>1, <1>2, <1>5, <1>6, GoesOn
<1>8. info' \subseteq Entries
  BY <1>1, <1>3
<1>9. KubeTypes'
  BY <1>1, <1>7, <1>8 DEF KubeInv, KubeTypes
<1>10. \A b \in Apps : HasEntry(b)' <=> HasEntry(b)
  BY <1>1 DEF HasEntry
<1>11. \A b \in Apps \ {a} : PlainOK(b)' /\ RecordOK(b)'
  BY <1>1, <1>7, <1>10, Framed DEF KubeInv
<1>12. PlainOK(a)'
  BY <1>1, <1>2 DEF PlainOK
<1>13. RecordOK(a)'
  BY <1>1, <1>5, <1>7, <1>10 DEF KubeInv, RecordOK
<1> QED
  BY <1>7, <1>9, <1>11, <1>12, <1>13 DEF KubeInv

\* The record is stored with the entry of a.  An entry that goes is one that
\* was stored after a had read the record, and counts as lost.
LEMMA WriteKeeps ==
  ASSUME KubeInv, NEW a \in Apps, WriteInfo(a)
  PROVE  KubeInv'
<1>1. /\ gor[a].pc = "write"
      /\ UNCHANGED <<type, want, obj, pods, rel, yobj, eng, ok, waste, updates, faults>>
  BY DEF WriteInfo, Routine, cluster
<1>2. /\ gor[a] \in Routines /\ gor[a].ver \in Versions /\ type[a] = "yaml"
      /\ gor[a].snap \subseteq Entries
  BY <1>1 DEF KubeInv, KubeTypes, Phases, Routines
<1>3. PICK e : e = [app |-> a, ver |-> gor[a].ver]
  OBVIOUS
<1>4. e \in Entries /\ e.app = a
  BY <1>2, <1>3 DEF Entries
<1>5. PICK new : new = withEntry(gor[a].snap, e)
  OBVIOUS
<1>6. /\ info' = new
      /\ lost' = (lost \ {a}) \cup {b \in Apps \ {a} : \E i \in info \ (new \cup gor[a].snap) : i.app = b}
      /\ gor' = [gor EXCEPT ![a].pc = "yaml", ![a].snap = {}]
  BY <1>3, <1>5 DEF WriteInfo
<1>7. new \subseteq Entries /\ e \in new
      /\ \A i \in gor[a].snap : i.app # a => i \in new
  BY <1>2, <1>4, <1>5 DEF withEntry
<1>8. PICK r : r = [gor[a] EXCEPT !.pc = "yaml", !.snap = {}]
  OBVIOUS
<1>9. r \in Routines /\ r.pc = "yaml" /\ r.ver = gor[a].ver
  BY <1>2, <1>8 DEF Routines, Labels
<1>10. gor' = [gor EXCEPT ![a] = r]
  BY <1>6, <1>8
<1>11. /\ gor' \in [Apps -> Routines] /\ Phases'
       /\ gor'[a] = r /\ \A b \in Apps \ {a} : gor'[b] = gor[b]
  BY <1>1, <1>2, <1>9, <1>10, GoesOn
<1>12. lost' \subseteq Apps
  BY <1>6 DEF KubeInv, KubeTypes
<1>13. KubeTypes'
  BY <1>1, <1>6, <1>7, <1>11, <1>12 DEF KubeInv, KubeTypes
<1>14. PICK L : L = lost'
  OBVIOUS
<1>15. ASSUME NEW b \in Apps \ {a}
       PROVE  HasEntry(b) \/ b \in lost \cup waste => HasEntry(b)' \/ b \in L \cup waste
  <2>1. CASE b \in lost \cup waste
    BY <1>6, <1>14, <2>1
  <2>2. ASSUME NEW i \in info \ {None}, i.app = b
        PROVE  HasEntry(b)' \/ b \in L
    <3>1. CASE i \in new
      <4>1. i \in info' \ {None}
        BY <1>6, <3>1
      <4> QED
        BY <2>2, <4>1 DEF HasEntry
    <3>2. CASE i \notin new
      <4>1. i \notin gor[a].snap
        BY <1>7, <2>2, <3>2
      <4> QED
        BY <1>6, <1>14, <2>2, <3>2, <4>1
    <3> QED
      BY <3>1, <3>2
  <2>3. HasEntry(b) => HasEntry(b)' \/ b \in L
    BY <2>2 DEF HasEntry
  <2> QED
    BY <2>1, <2>3
<1>16. \A b \in Apps \ {a} :
         HasEntry(b) \/ b \in lost \cup waste => HasEntry(b)' \/ b \in lost' \cup waste'
  BY <1>1, <1>14, <1>15
<1>17. \A b \in Apps \ {a} : PlainOK(b)' /\ RecordOK(b)'
  BY <1>1, <1>11, <1>16, Framed DEF KubeInv
<1>18. PlainOK(a)'
  BY <1>1, <1>2 DEF PlainOK
<1>19. RecordOK(a)'
  <2>1. e # None
    BY <1>4, NoneAssumption DEF Entries
  <2>2. HasEntry(a)'
    BY <1>4, <1>6, <1>7, <2>1 DEF HasEntry
  <2> QED
    BY <2>2 DEF RecordOK
<1> QED
  BY <1>11, <1>13, <1>17, <1>18, <1>19 DEF KubeInv

\* The objects are applied, all of them or some, after the entry was stored.
LEMMA ApplyYamlKeeps ==
  ASSUME KubeInv, NEW a \in Apps, ApplyYaml(a) \/ ApplyYamlFails(a)
  PROVE  KubeInv'
<1>1. /\ gor[a].pc \in {"read", "write", "yaml"} /\ (Fault \/ UNCHANGED faults)
      /\ UNCHANGED <<obj, pods, rel, info, lost, waste>>
      /\ \E good \in BOOLEAN : Return(a, good)
  BY DEF ApplyYaml, ApplyYamlFails, Routine
<1>2. gor[a].ver \in Versions /\ type[a] = "yaml"
  BY <1>1 DEF KubeInv, Phases
<1>3. /\ gor' \in [Apps -> Routines] /\ Phases' /\ gor'[a].pc = "done"
      /\ ok' \in [Apps -> BOOLEAN]
      /\ \A b \in Apps \ {a} : gor'[b] = gor[b] /\ ok'[b] = ok[b]
      /\ UNCHANGED <<type, want, eng, updates>>
  BY <1>1, Returns
<1>4. \A b \in Apps : HasEntry(b)' <=> HasEntry(b)
  BY <1>1 DEF HasEntry
<1>5. PlainOK(a)'
  BY <1>2, <1>3 DEF PlainOK
<1>6. CASE UNCHANGED yobj
  <2>1. KubeTypes'
    BY <1>1, <1>3, <1>6, FaultTypes DEF KubeInv, KubeTypes
  <2>2. \A b \in Apps \ {a} : PlainOK(b)' /\ RecordOK(b)'
    BY <1>1, <1>3, <1>4, <1>6, Framed DEF KubeInv
  <2>3. RecordOK(a)'
    BY <1>1, <1>3, <1>4, <1>6 DEF KubeInv, RecordOK
  <2> QED
    BY <1>3, <1>5, <2>1, <2>2, <2>3 DEF KubeInv
<1>7. CASE gor[a].pc = "yaml" /\ \E S \in SUBSET Named(a) : yobj' = [yobj EXCEPT ![a] = S]
  <2>1. PICK S \in SUBSET Named(a) : yobj' = [yobj EXCEPT ![a] = S]
    BY <1>7
  <2>2. /\ yobj' \in [Apps -> SUBSET AllNamed]
        /\ \A b \in Apps : yobj'[b] \subseteq Named(b)
        /\ \A b \in Apps \ {a} : yobj'[b] = yobj[b]
    BY <2>1, YamlChanges
  <2>3. KubeTypes'
    BY <1>1, <1>3, <2>2, FaultTypes DEF KubeInv, KubeTypes
  <2>4. \A b \in Apps \ {a} : PlainOK(b)' /\ RecordOK(b)'
    BY <1>1, <1>3, <1>4, <2>2, Framed DEF KubeInv
  <2>5. RecordOK(a)'
    BY <1>1, <1>3, <1>4, <1>7 DEF KubeInv, RecordOK
  <2> QED
    BY <1>3, <1>5, <2>3, <2>4, <2>5 DEF KubeInv
<1>8. yobj[a] \subseteq Named(a) /\ YamlObjs[a][gor[a].ver] \subseteq Named(a)
  BY <1>2 DEF KubeInv, KubeTypes, Named
<1>9. CASE ApplyYaml(a)
  <2>1. PICK g : yobj' = [yobj EXCEPT ![a] = (yobj[a] \cup YamlObjs[a][gor[a].ver]) \ g]
    BY <1>9 DEF ApplyYaml
  <2>2. (yobj[a] \cup YamlObjs[a][gor[a].ver]) \ g \subseteq Named(a)
    BY <1>8
  <2>3. gor[a].pc = "yaml"
    BY <1>9 DEF ApplyYaml, Routine
  <2> QED
    BY <1>7, <2>1, <2>2, <2>3
<1>10. CASE ApplyYamlFails(a)
  <2>1. ASSUME gor[a].pc = "yaml", NEW S \in SUBSET YamlObjs[a][gor[a].ver],
               yobj' = [yobj EXCEPT ![a] = (yobj[a] \ YamlObjs[a][gor[a].ver]) \cup S]
        PROVE  KubeInv'
    <3>1. (yobj[a] \ YamlObjs[a][gor[a].ver]) \cup S \subseteq Named(a)
      BY <1>8
    <3> QED
      BY <1>7, <2>1, <3>1
  <2> QED
    BY <1>6, <1>10, <2>1 DEF ApplyYamlFails, Routine
<1> QED
  BY <1>9, <1>10

-----------------------------------------------------------------------------
\* No step of the engine, a goroutine, the cluster or the cloud breaks the
\* invariant.
LEMMA KubeStep == KubeInv /\ [Next]_vars => KubeInv'
<1> SUFFICES ASSUME KubeInv, [Next]_vars
             PROVE  KubeInv'
  OBVIOUS
<1>1. CASE EngineStep
  BY <1>1, CollectKeeps, StartKeeps, JoinKeeps, DeletePlainKeeps, DeleteHelmKeeps,
     DeleteYamlKeeps, RemoveOldKeeps, CreateKeeps, ApplyHelmKeeps, ReadKeeps, WriteKeeps,
     ApplyYamlKeeps DEF EngineStep
<1>2. CASE EngineFault
  BY <1>2, CollectKeeps, JoinKeeps, DeletePlainKeeps, DeleteHelmKeeps, DeleteYamlKeeps,
     RemoveOldKeeps, CreateKeeps, ApplyHelmKeeps, ApplyYamlKeeps, OutsideKeeps DEF EngineFault
<1>3. ASSUME NEW a \in Apps, \/ Desire(a) \/ (\E k \in Workloads : PodUp(a, k))
                             \/ (\E p \in Pods : PodDown(a, p))
      PROVE  KubeInv'
  BY <1>3, DesireKeeps, OutsideKeeps
<1>4. CASE UNCHANGED vars
  <2>1. UNCHANGED <<type, want, obj, pods, rel, yobj, info, eng, gor, ok, lost, waste, updates, faults>>
    BY <1>4 DEF vars, cluster, engine
  <2>2. KubeTypes' /\ Phases'
    BY <2>1 DEF KubeInv, KubeTypes, Phases
  <2>3. \A b \in Apps : HasEntry(b)' <=> HasEntry(b)
    BY <2>1 DEF HasEntry
  <2>4. \A b \in Apps : PlainOK(b)' /\ RecordOK(b)'
    BY <2>1, <2>3, Framed DEF KubeInv
  <2> QED
    BY <2>2, <2>4 DEF KubeInv
<1> QED
  BY <1>1, <1>2, <1>3, <1>4 DEF Next

\* At first the cluster is empty and no goroutine runs.
LEMMA KubeInit == Init => KubeInv
<1> SUFFICES ASSUME Init
             PROVE  KubeInv
  OBVIOUS
<1>1. \A a \in Apps : gor[a].pc = "none" /\ obj[a] = Nothing /\ yobj[a] = {}
  BY DEF Init, NoRoutine, Nothing
<1>2. updates \in 0..MaxUpdates /\ faults \in 0..MaxFaults
  BY KubeBoundsAssumption DEF Init
<1>3. obj \in [Apps -> [Kinds -> AppVer]] /\ rel \in [Apps -> Releases]
      /\ eng \in Cycles /\ gor \in [Apps -> Routines]
  BY RestTypes DEF Init, Nothing
<1>4. pods \in [Apps -> SUBSET Pods] /\ yobj \in [Apps -> SUBSET AllNamed]
      /\ ok \in [Apps -> BOOLEAN]
  BY DEF Init
<1>5. KubeTypes
  BY <1>1, <1>2, <1>3, <1>4 DEF Init, KubeTypes
<1>6. Phases
  BY <1>1 DEF Phases
<1>7. \A a \in Apps : PlainOK(a) /\ RecordOK(a)
  BY <1>1 DEF PlainOK, Swept, Whole, RecordOK
<1> QED
  BY <1>5, <1>6, <1>7 DEF KubeInv

-----------------------------------------------------------------------------
\* The objects of the cluster, the record in the store and the progress of
\* the goroutines agree at every step.
THEOREM KubeCorrect == Spec => []KubeInv
<1>1. Init => KubeInv
  BY KubeInit
<1>2. KubeInv /\ [Next]_vars => KubeInv'
  BY KubeStep
<1> QED
  BY <1>1, <1>2, PTL DEF Spec

\* Every variable keeps its type.
THEOREM KubeTypesCorrect == Spec => []TypeOK
<1>1. KubeInv => TypeOK
  <2> SUFFICES ASSUME KubeInv
               PROVE  TypeOK
    OBVIOUS
  <2>1. \A a \in Apps : gor[a].snap \subseteq Entries
    BY DEF KubeInv, KubeTypes, Routines
  <2> QED
    BY <2>1 DEF KubeInv, KubeTypes, TypeOK, Entries, Releases, Cycles, Named
<1> QED
  BY <1>1, KubeCorrect, PTL

\* After a call that did what it was asked, a plain application has exactly
\* the objects of one version, or none (at least those, with
\* PreserveUpdates), whatever earlier calls had left half done.
THEOREM OneVersionCorrect == Spec => []OneVersion
<1>1. KubeInv => OneVersion
  BY DEF KubeInv, PlainOK, Whole, OneVersion
<1> QED
  BY <1>1, KubeCorrect, PTL

\* The record leads to every object of a yaml application, apart from those
\* whose entry a concurrent goroutine overwrote and those that a deletion
\* left behind.
THEOREM YamlRecordedCorrect == Spec => []YamlRecorded
<1>1. KubeInv => YamlRecorded
  BY ListedByEntry DEF KubeInv, RecordOK, YamlRecorded
<1> QED
  BY <1>1, KubeCorrect, PTL
=============================================================================
