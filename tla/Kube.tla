-------------------------------- MODULE Kube --------------------------------
(***************************************************************************)
(* ApplyApp, DeleteApp and StatsApps of the kube AMI (ami/kube) for the    *)
(* three kinds of applications of the user namespace: plain ones, whose    *)
(* workload, services and autoscaler the AMI creates itself, helm releases *)
(* and yaml applications, of which the store holds a record (applyApp of   *)
(* engine/engine.go, kube_yaml.go).                                        *)
(*                                                                         *)
(* The cycle of the engine is reduced to what the AMI sees: collect,       *)
(* delete one application after the other, apply the rest in a goroutine   *)
(* each.  The controllers of the cluster make and remove pods in their own *)
(* time, and StatsApps lists a plain application only while it has pods.   *)
(***************************************************************************)
EXTENDS Naturals, Sequences, FiniteSets

CONSTANTS Apps, Versions, None,
          Types,      \* what the applications may be: a set of [Apps -> Type]
          Work,       \* Work[a][v]: the workload of a plain application
          Extras,     \* Extras[a][v]: which of "svc" and "hpa" it has
          YamlObjs,   \* YamlObjs[a][v]: the objects a yaml application names
          Preserve,   \* <<app, version>> with PreserveUpdates
          MaxUpdates, \* bound: changes of the desire
          MaxFaults   \* bound: failing calls and crashes

Type == {"plain", "helm", "yaml"}
Workloads == {"deploy", "daemon", "job"}
Kinds == Workloads \cup {"svc", "hpa"}
AppVer == Versions \cup {None}

ASSUME NoneAssumption == None \notin Versions /\ None \notin [app : Apps, ver : Versions]
ASSUME TypesAssumption == Types \subseteq [Apps -> Type]
ASSUME WorkAssumption == \A a \in Apps, v \in Versions :
                           Work[a][v] \in Workloads /\ Extras[a][v] \subseteq {"svc", "hpa"}
ASSUME KubeBoundsAssumption == MaxUpdates \in Nat /\ MaxFaults \in Nat

VARIABLES type,    \* what each application is; does not change
          want,    \* the desired version
          obj,     \* obj[a][k]: the version whose object of kind k exists
          pods,    \* pods[a]: <<kind, version>> of the workload they belong to
          rel,     \* rel[a]: the helm release
          info,    \* the record of yaml applications: [app, ver], or {None}: no record
          yobj,    \* yobj[a]: the objects of a yaml application in the cluster
          eng,     \* the engine goroutine: [pc, del, upd]
          gor,     \* gor[a]: the goroutine that applies a
          ok,      \* ok[a]: the last call for a did all it was asked
          lost,    \* applications whose entry a concurrent goroutine overwrote
          waste,   \* applications deleted with objects left
          updates, faults

engine == <<eng, gor, ok>>
cluster == <<obj, pods, rel, yobj>>
vars == <<type, want, cluster, info, engine, lost, waste, updates, faults>>

NoRelease == [ver |-> None, st |-> "none"]
NoRoutine == [pc |-> "none", ver |-> None, snap |-> {}, good |-> TRUE]
Resting == [pc |-> "idle", del |-> {}, upd |-> [a \in Apps |-> None]]

Init == /\ type \in Types
        /\ want \in [Apps -> AppVer]
        /\ obj = [a \in Apps |-> [k \in Kinds |-> None]]
        /\ pods = [a \in Apps |-> {}]
        /\ rel = [a \in Apps |-> NoRelease]
        /\ info = {None}
        /\ yobj = [a \in Apps |-> {}]
        /\ eng = Resting
        /\ gor = [a \in Apps |-> NoRoutine]
        /\ ok = [a \in Apps |-> TRUE]
        /\ lost = {} /\ waste = {}
        /\ updates = MaxUpdates /\ faults = MaxFaults

Desire(a) == /\ updates > 0 /\ updates' = updates - 1
             /\ \E v \in AppVer \ {want[a]} : want' = [want EXCEPT ![a] = v]
             /\ UNCHANGED <<type, cluster, info, engine, lost, waste, faults>>

Fault == faults > 0 /\ faults' = faults - 1

-----------------------------------------------------------------------------
(* StatsApps.                                                              *)

\* A deployment or daemon set selects the pods with the label of the
\* application, whoever they belong to; a job selects its own.
HasPods(a, k) == IF k = "job" THEN <<"job", obj[a]["job"]>> \in pods[a] ELSE pods[a] # {}

\* collectAppStats skips a workload without pods.
Collected(a, k) == obj[a][k] # None /\ HasPods(a, k)

\* helm lists releases that are deployed or failed, not pending ones;
\* StatsHelm skips those without the version label.
InHelmList(a) == rel[a].st \in {"deployed", "failed", "foreign"}
StatsHelm(a) == IF rel[a].st \in {"deployed", "failed"} THEN rel[a].ver ELSE None

StatsYaml(a) == IF \E i \in info \ {None} : i.app = a
                THEN (CHOOSE i \in info \ {None} : i.app = a).ver ELSE None

\* The version the engine sees: alignApps keeps the last entry of a name,
\* and deployments come before daemon sets, daemon sets before jobs.
Seen(a) ==
  CASE type[a] = "helm" -> StatsHelm(a)
    [] type[a] = "yaml" -> StatsYaml(a)
    [] OTHER -> IF Collected(a, "job") THEN obj[a]["job"]
                ELSE IF Collected(a, "daemon") THEN obj[a]["daemon"]
                ELSE IF Collected(a, "deploy") THEN obj[a]["deploy"] ELSE None

\* The engine plans its cycle: what is listed and not desired goes, what is
\* not listed at the desired version is applied.  Plan(seen) with what
\* StatsApps returned.
Plan(seen) ==
  eng' = [pc  |-> "delete",
          del |-> {a \in Apps : want[a] = None /\ seen[a] # None},
          upd |-> [a \in Apps |-> IF seen[a] # want[a] THEN want[a] ELSE None]]

Collect == /\ eng.pc = "idle"
           /\ Plan([a \in Apps |-> Seen(a)])
           /\ UNCHANGED <<type, want, cluster, info, gor, ok, lost, waste, updates, faults>>

\* StatsHelm or StatsYaml fails: the plain applications were listed.
CollectFails ==
  /\ eng.pc = "idle" /\ Fault
  /\ \E miss \in SUBSET Type :
       /\ miss # {} /\ ("plain" \in miss => miss = Type) /\ ("helm" \in miss => "yaml" \in miss)
       /\ Plan([a \in Apps |-> IF type[a] \in miss THEN None ELSE Seen(a)])
  /\ UNCHANGED <<type, want, cluster, info, gor, ok, lost, waste, updates>>

-----------------------------------------------------------------------------
(* deleteApplication and applyApplication: one kind of objects after the   *)
(* other; the first error ends the call.                                   *)

DeleteOrder == <<"hpa", "deploy", "daemon", "svc", "job">>
ApplyOrder == <<"deploy", "daemon", "svc", "job", "hpa">>
First(order, n) == {order[i] : i \in 1..n}

\* Mutant: the services are forgotten.
deleteApplicationKeepsSvc(o, n) ==
  [k \in Kinds |-> IF k \in First(DeleteOrder, n) \ {"svc"} THEN None ELSE o[k]]

deleteApplication(o, n) == [k \in Kinds |-> IF k \in First(DeleteOrder, n) THEN None ELSE o[k]]

\* hpaAvailable is false when the version of the server cannot be read: then
\* the autoscalers are passed over without an error.
passingOverHPA(o) == [deleteApplication(o, Len(DeleteOrder)) EXCEPT !["hpa"] = o["hpa"]]

Needs(a, v) == {Work[a][v]} \cup Extras[a][v]
applyApplication(o, a, v, n) ==
  [k \in Kinds |-> IF k \in Needs(a, v) /\ k \in First(ApplyOrder, n) THEN v ELSE o[k]]

\* What is there when applyApplication ends after n kinds: applyJobs has
\* deleted the old job before it creates the new one.
Interrupted(o, a, v, n) ==
  LET made == applyApplication(o, a, v, n)
  IN  {made} \cup {[made EXCEPT ![k] = None] : k \in {ApplyOrder[n + 1]} \cap Needs(a, v) \cap {"job"}}

-----------------------------------------------------------------------------
(* DeleteApp.                                                              *)

Deleting(a) == eng.pc = "delete" /\ a \in eng.del

\* DeleteApp ends: the first error ends the cycle.
Deleted(a, err, good) == /\ eng' = IF err THEN Resting ELSE [eng EXCEPT !.del = @ \ {a}]
                         /\ ok' = [ok EXCEPT ![a] = good]
                         /\ UNCHANGED <<type, want, gor, lost, updates>>

DeletePlain(a) == /\ Deleting(a) /\ type[a] = "plain"
                  /\ obj' = [obj EXCEPT ![a] = deleteApplication(@, Len(DeleteOrder))]
                  /\ Deleted(a, FALSE, TRUE)
                  /\ UNCHANGED <<pods, rel, yobj, info, waste, faults>>

DeletePlainFails(a) ==
  /\ Deleting(a) /\ type[a] = "plain" /\ Fault
  /\ \/ /\ \E n \in 0..Len(DeleteOrder) - 1 : obj' = [obj EXCEPT ![a] = deleteApplication(@, n)]
        /\ Deleted(a, TRUE, FALSE)
     \/ /\ obj' = [obj EXCEPT ![a] = passingOverHPA(@)]
        /\ Deleted(a, FALSE, FALSE)
  /\ UNCHANGED <<pods, rel, yobj, info, waste>>

\* DeleteHelm finds the release in the list and uninstalls it.
DeleteHelm(a) == /\ Deleting(a) /\ type[a] = "helm" /\ InHelmList(a)
                 /\ rel' = [rel EXCEPT ![a] = NoRelease]
                 /\ Deleted(a, FALSE, TRUE)
                 /\ UNCHANGED <<obj, pods, yobj, info, waste, faults>>

\* The list fails, which counts as "not a helm application": DeleteApp goes
\* on to deleteApplication and succeeds.  Or the uninstallation fails.
DeleteHelmFails(a) ==
  /\ Deleting(a) /\ type[a] = "helm" /\ InHelmList(a) /\ Fault
  /\ \E err \in BOOLEAN : Deleted(a, err, FALSE)
  /\ UNCHANGED <<cluster, info, waste>>

\* Mutant: the entry of the record stays.
DeleteYamlKeepsEntry(a) ==
  /\ Deleting(a) /\ type[a] = "yaml"
  /\ yobj' = [yobj EXCEPT ![a] = @ \ YamlObjs[a][StatsYaml(a)]]
  /\ Deleted(a, FALSE, TRUE)
  /\ UNCHANGED <<obj, pods, rel, info, waste, faults>>

\* DeleteYaml: the entry of the record, then the objects the listed version
\* names.  Objects only an earlier version named are forgotten.
DeleteYaml(a) ==
  LET left == yobj[a] \ YamlObjs[a][StatsYaml(a)]
  IN  /\ Deleting(a) /\ type[a] = "yaml"
      /\ info' = {i \in info \ {None} : i.app # a}
      /\ yobj' = [yobj EXCEPT ![a] = left]
      /\ waste' = IF left = {} THEN waste \ {a} ELSE waste \cup {a}
      /\ Deleted(a, FALSE, TRUE)
      /\ UNCHANGED <<obj, pods, rel, faults>>

\* The record cannot be written; or an object is not deleted, which is
\* logged and forgotten; or the process dies between record and objects.
DeleteYamlFails(a) ==
  /\ Deleting(a) /\ type[a] = "yaml" /\ Fault
  /\ \/ Deleted(a, TRUE, FALSE) /\ UNCHANGED <<info, yobj, waste>>
     \/ \E S \in SUBSET yobj[a] : \E err \in BOOLEAN :
          /\ S # {} /\ yobj[a] \ YamlObjs[a][StatsYaml(a)] \subseteq S
          /\ info' = {i \in info \ {None} : i.app # a}
          /\ yobj' = [yobj EXCEPT ![a] = S]
          /\ waste' = waste \cup {a}
          /\ Deleted(a, err, FALSE)
  /\ UNCHANGED <<obj, pods, rel>>

\* The deletes are done; a goroutine for every application to apply.
StartApply == /\ eng.pc = "delete" /\ eng.del = {}
              /\ eng' = [eng EXCEPT !.pc = "apply"]
              /\ gor' = [a \in Apps |-> IF eng.upd[a] # None
                           THEN [NoRoutine EXCEPT !.ver = eng.upd[a],
                                   !.pc = IF type[a] = "yaml" THEN "read" ELSE "delete"]
                           ELSE NoRoutine]
              /\ UNCHANGED <<type, want, cluster, info, ok, lost, waste, updates, faults>>

-----------------------------------------------------------------------------
(* ApplyApp.                                                               *)

Routine(a, l) == gor[a].pc = l
Preserved(a) == <<a, gor[a].ver>> \in Preserve
Goto(a, l) == /\ gor' = [gor EXCEPT ![a].pc = l]
              /\ UNCHANGED <<type, want, eng, ok, updates>>
Return(a, good) == /\ gor' = [gor EXCEPT ![a] = [NoRoutine EXCEPT !.pc = "done"]]
                   /\ ok' = [ok EXCEPT ![a] = good]
                   /\ UNCHANGED <<type, want, eng, updates>>

\* Configuration maps and secrets first, then the old objects.
RemoveOld(a) ==
  /\ Routine(a, "delete") /\ type[a] = "plain"
  /\ obj' = IF Preserved(a) THEN obj
            ELSE [obj EXCEPT ![a] = deleteApplication(@, Len(DeleteOrder))]
  /\ Goto(a, "create")
  /\ UNCHANGED <<pods, rel, yobj, info, lost, waste, faults>>

RemoveOldFails(a) ==
  /\ Routine(a, "delete") /\ type[a] = "plain" /\ Fault
  /\ \/ /\ \E n \in 0..Len(DeleteOrder) - 1 :
             /\ Preserved(a) => n = 0
             /\ obj' = [obj EXCEPT ![a] = deleteApplication(@, n)]
        /\ Return(a, FALSE)
     \/ /\ ~Preserved(a)
        /\ obj' = [obj EXCEPT ![a] = passingOverHPA(@)]
        /\ gor' = [gor EXCEPT ![a].pc = "create", ![a].good = FALSE]
        /\ UNCHANGED <<type, want, eng, ok, updates>>
  /\ UNCHANGED <<pods, rel, yobj, info, lost, waste>>

CreateNew(a) ==
  /\ Routine(a, "create")
  /\ obj' = [obj EXCEPT ![a] = applyApplication(@, a, gor[a].ver, Len(ApplyOrder))]
  /\ Return(a, gor[a].good)
  /\ UNCHANGED <<pods, rel, yobj, info, lost, waste, faults>>

CreateNewFails(a) ==
  /\ Routine(a, "create") /\ Fault
  /\ \E n \in 0..Len(ApplyOrder) - 1 :
       \E o \in Interrupted(obj[a], a, gor[a].ver, n) : obj' = [obj EXCEPT ![a] = o]
  /\ Return(a, FALSE)
  /\ UNCHANGED <<pods, rel, yobj, info, lost, waste>>

\* Mutant: the version label of the release is not looked at.
KeepsReleaseAny(r, v) == r.st # "none"

\* ApplyHelm does nothing for a release without the label or with the
\* label of this version, whatever its status.
KeepsRelease(r, v) == r.st = "foreign" \/ (r.st # "none" /\ r.ver = v)

\* Install, after the old release is uninstalled, or upgrade it.
ApplyHelm(a) ==
  /\ Routine(a, "delete") /\ type[a] = "helm"
  /\ rel' = IF KeepsRelease(rel[a], gor[a].ver) THEN rel
            ELSE [rel EXCEPT ![a] = [ver |-> gor[a].ver, st |-> "deployed"]]
  /\ Return(a, TRUE)
  /\ UNCHANGED <<obj, pods, yobj, info, lost, waste, faults>>

\* The old release is not uninstalled, or the chart is refused after it
\* was, or helm records a failed release under the label of the version.
ApplyHelmFails(a) ==
  /\ Routine(a, "delete") /\ type[a] = "helm" /\ Fault
  /\ ~KeepsRelease(rel[a], gor[a].ver)
  /\ \E r \in {rel[a], [ver |-> gor[a].ver, st |-> "failed"]}
              \cup (IF Preserved(a) THEN {} ELSE {NoRelease}) :
       rel' = [rel EXCEPT ![a] = r]
  /\ Return(a, FALSE)
  /\ UNCHANGED <<obj, pods, yobj, info, lost, waste>>

\* Somebody else has installed a release of that name, without the label.
ForeignRelease(a) ==
  /\ type[a] = "helm" /\ rel[a] = NoRelease /\ ~Routine(a, "delete") /\ Fault
  /\ rel' = [rel EXCEPT ![a] = [ver |-> None, st |-> "foreign"]]
  /\ UNCHANGED <<type, want, obj, pods, yobj, info, engine, lost, waste, updates>>

-----------------------------------------------------------------------------
(* Yaml applications: applyApp reads the record, adds its entry and stores *)
(* it again, without a lock; then ApplyYaml.                               *)

\* getCustomAppInfo; a record that is not there is made, empty.
ReadInfo(a) ==
  /\ Routine(a, "read")
  /\ info' = info \ {None}
  /\ gor' = [gor EXCEPT ![a].pc = "write", ![a].snap = info \ {None}]
  /\ UNCHANGED <<type, want, cluster, eng, ok, lost, waste, updates, faults>>

\* Mutant: the record is made anew.
withEntryOnly(snap, i) == {i}

withEntry(snap, i) == {j \in snap : j.app # i.app} \cup {i}

\* storeCustomAppInfo: what others have stored since is overwritten.
WriteInfo(a) ==
  LET new == withEntry(gor[a].snap, [app |-> a, ver |-> gor[a].ver])
  IN  /\ Routine(a, "write")
      /\ info' = new
      /\ lost' = (lost \ {a}) \cup {b \in Apps \ {a} : \E i \in info \ (new \cup gor[a].snap) : i.app = b}
      /\ gor' = [gor EXCEPT ![a].pc = "yaml", ![a].snap = {}]
      /\ UNCHANGED <<type, want, cluster, eng, ok, waste, updates, faults>>

\* deleteYamlApp and applyYamlApp, both with the objects of the new version:
\* what only the old version names stays.  The cluster deletes an object in
\* its own time, and may take away the one that was applied to it meanwhile.
ApplyYaml(a) ==
  /\ Routine(a, "yaml")
  /\ \E gone \in SUBSET (yobj[a] \cap YamlObjs[a][gor[a].ver]) :
       /\ Preserved(a) => gone = {}
       /\ yobj' = [yobj EXCEPT ![a] = (@ \cup YamlObjs[a][gor[a].ver]) \ gone]
  /\ Return(a, TRUE)
  /\ UNCHANGED <<obj, pods, rel, info, lost, waste, faults>>

\* The record cannot be stored; the namespace not be made, after the record
\* was stored; or an object not be applied, which is logged and forgotten.
ApplyYamlFails(a) ==
  /\ Fault
  /\ \/ /\ gor[a].pc \in {"read", "write", "yaml"}
        /\ Return(a, FALSE)
        /\ UNCHANGED yobj
     \/ /\ Routine(a, "yaml")
        /\ \E S \in SUBSET YamlObjs[a][gor[a].ver] :
             /\ S # YamlObjs[a][gor[a].ver]
             /\ yobj' = [yobj EXCEPT ![a] = (@ \ YamlObjs[a][gor[a].ver]) \cup S]
        /\ Return(a, FALSE)
  /\ UNCHANGED <<obj, pods, rel, info, lost, waste>>

JoinApply == /\ eng.pc = "apply"
             /\ \A a \in Apps : gor[a].pc \in {"none", "done"}
             /\ eng' = Resting
             /\ gor' = [a \in Apps |-> NoRoutine]
             /\ UNCHANGED <<type, want, cluster, info, ok, lost, waste, updates, faults>>

\* baetyl-core dies.  A helm release it was working on stays pending, under
\* the label of the new version.
Crash ==
  LET busy == {a \in Apps : gor[a].pc \notin {"none", "done"}}
  IN  /\ eng.pc # "idle" /\ Fault
      /\ eng' = Resting
      /\ gor' = [a \in Apps |-> NoRoutine]
      /\ ok' = [a \in Apps |-> ok[a] /\ a \notin busy]
      /\ \E S \in SUBSET {a \in busy : type[a] = "helm" /\ ~KeepsRelease(rel[a], gor[a].ver)} :
           rel' = [a \in Apps |-> IF a \in S THEN [ver |-> gor[a].ver, st |-> "pending"]
                                  ELSE rel[a]]
      /\ UNCHANGED <<type, want, obj, pods, yobj, info, lost, waste, updates>>

-----------------------------------------------------------------------------
(* The controllers of the cluster.                                         *)

\* A deployment with the strategy Recreate waits for the pods of its old
\* version.
PodUp(a, k) ==
  /\ obj[a][k] # None /\ <<k, obj[a][k]>> \notin pods[a]
  /\ k = "deploy" => \A p \in pods[a] : p[1] # "deploy"
  /\ pods' = [pods EXCEPT ![a] = @ \cup {<<k, obj[a][k]>>}]
  /\ UNCHANGED <<type, want, obj, rel, yobj, info, engine, lost, waste, updates, faults>>

PodDown(a, p) ==
  /\ p \in pods[a] /\ obj[a][p[1]] # p[2]
  /\ pods' = [pods EXCEPT ![a] = @ \ {p}]
  /\ UNCHANGED <<type, want, obj, rel, yobj, info, engine, lost, waste, updates, faults>>

Pods == Workloads \X Versions

EngineStep == \/ Collect \/ StartApply \/ JoinApply
              \/ \E a \in Apps : \/ DeletePlain(a) \/ DeleteHelm(a) \/ DeleteYaml(a)
                                 \/ RemoveOld(a) \/ CreateNew(a) \/ ApplyHelm(a)
                                 \/ ReadInfo(a) \/ WriteInfo(a) \/ ApplyYaml(a)

EngineFault == \/ CollectFails \/ Crash
               \/ \E a \in Apps : \/ DeletePlainFails(a) \/ DeleteHelmFails(a)
                                  \/ DeleteYamlFails(a) \/ RemoveOldFails(a)
                                  \/ CreateNewFails(a) \/ ApplyHelmFails(a)
                                  \/ ApplyYamlFails(a) \/ ForeignRelease(a)

Next == \/ EngineStep \/ EngineFault
        \/ \E a \in Apps : \/ Desire(a)
                           \/ \E k \in Workloads : PodUp(a, k)
                           \/ \E p \in Pods : PodDown(a, p)

(***************************************************************************)
(* Fairness: the engine's ticker keeps firing and calls of the API server  *)
(* return.  An application without pods is taken down and made again in    *)
(* every cycle, so it runs only if its pods are made between two cycles,   *)
(* again and again (strong fairness): the controllers make a pod in less   *)
(* than the seconds the engine sleeps.                                     *)
(***************************************************************************)
Spec == /\ Init /\ [][Next]_vars
        /\ WF_vars(EngineStep)
        /\ \A a \in Apps : /\ SF_vars(eng.pc = "idle" /\ \E k \in Workloads : PodUp(a, k))
                           /\ WF_vars(\E p \in Pods : PodDown(a, p))
-----------------------------------------------------------------------------
\* Every variable has its type.
TypeOK ==
  /\ type \in Types /\ want \in [Apps -> AppVer]
  /\ obj \in [Apps -> [Kinds -> AppVer]]
  /\ pods \in [Apps -> SUBSET Pods]
  /\ rel \in [Apps -> [ver : AppVer, st : {"none", "deployed", "failed", "pending", "foreign"}]]
  /\ info \subseteq [app : Apps, ver : Versions] \/ info = {None}
  /\ \A a \in Apps : yobj[a] \subseteq UNION {YamlObjs[a][v] : v \in Versions}
  /\ eng \in [pc : {"idle", "delete", "apply"}, del : SUBSET Apps, upd : [Apps -> AppVer]]
  /\ \A a \in Apps : gor[a].snap \subseteq [app : Apps, ver : Versions]
  /\ lost \cup waste \subseteq Apps /\ ok \in [Apps -> BOOLEAN]
  /\ updates \in 0..MaxUpdates /\ faults \in 0..MaxFaults

Quiet(a) == gor[a].pc \in {"none", "done"}
Exactly(a, v) == [k \in Kinds |-> IF k \in Needs(a, v) THEN v ELSE None]
Nothing == [k \in Kinds |-> None]

\* After a call that did what it was asked, a plain application has exactly
\* the objects of one version, or none, whatever half of them earlier calls
\* that failed or were cut off had made or removed.  An application with
\* PreserveUpdates has at least those.
OneVersion ==
  \A a \in Apps : type[a] = "plain" /\ Quiet(a) /\ ok[a] =>
    \/ obj[a] = Nothing
    \/ \E v \in Versions : \/ obj[a] = Exactly(a, v)
                           \/ <<a, v>> \in Preserve /\ \A k \in Needs(a, v) : obj[a][k] = v

\* The record leads to every object of a yaml application: nothing else
\* tells DeleteApp what to delete.  The exceptions are an entry that a
\* goroutine for another application overwrote between its read and its
\* write, objects that only an earlier version names, and objects whose
\* deletion failed after the entry was dropped.
YamlRecorded ==
  \A a \in Apps : yobj[a] # {} => StatsYaml(a) # None \/ a \in lost \cup waste

\* What is left of an application that is not desired.
Gone(a) == /\ obj[a] = Nothing /\ pods[a] = {}
           /\ rel[a].st \in {"none", "pending", "foreign"}
           /\ yobj[a] = {} \/ a \in lost \cup waste

\* ApplyHelm does nothing for these: a release that another owner made, or
\* that a crash left pending under the label of the desired version.
Stuck(a) == type[a] = "helm" /\ rel[a].st \in {"pending", "foreign"}

\* An application with PreserveUpdates that changed its kind of workload
\* has two workloads and may be listed with the old one.
Torn(a) == Cardinality({k \in Workloads : obj[a][k] # None}) > 1

\* In the end every application is listed with the version desired, though
\* workloads without pods are not listed, releases may be half installed
\* and the record lose entries; and of an application that is no longer
\* desired nothing is left, unless its last deletion gave up half way.
Settles ==
  <>[](\A a \in Apps :
         \/ Stuck(a) \/ Torn(a)
         \/ Seen(a) = want[a] /\ (want[a] = None /\ ok[a] => Gone(a)))
=============================================================================
