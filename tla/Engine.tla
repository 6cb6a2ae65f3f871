------------------------------- MODULE Engine -------------------------------
(***************************************************************************)
(* The reconciliation loop of the engine (engine/engine.go), run by two    *)
(* processes over one AMI: baetyl-init, which looks after baetyl-core, and *)
(* baetyl-core, which looks after every other application, baetyl-init     *)
(* included.  Each process has a node shadow of its own.                   *)
(*                                                                         *)
(* A cycle is not atomic: the desire that orders the report is read by     *)
(* nod.Get, the one that is applied by the transaction of nod.Report, and  *)
(* sync (sync/sync.go) may replace the desire at any time.  The            *)
(* applications of one cycle are applied by one goroutine each.            *)
(*                                                                         *)
(* running[n] is the version at which the AMI lists application n          *)
(* (StatsApps), None when it does not.  An ApplyApp that fails half way    *)
(* may leave n listed (native: the instance directory exists; kube: the    *)
(* deployment was created, its service not).  What the processes store and *)
(* download is the subject of module Storage.                              *)
(***************************************************************************)
EXTENDS AppLists

CONSTANTS Svcs,          \* the engine processes, a subset of {"init", "core"}
          SysApps,       \* names of applications of the system namespace
          UserApps,      \* names of applications of the user namespace
          CoreLike,      \* the names that contain "baetyl-core"
          HostApp,       \* the application a process belongs to
          Versions,
          None,          \* no version: the AMI does not list the application
          Nil,           \* an absent key of the shadow
          Desires,       \* what the cloud may desire: [Kinds -> Seq(AppInfo)]
          Installed,     \* running[_] when the node boots
          HostPort,      \* AppInfo -> sequence of host ports
          MultiReplica,  \* AppInfos with more than one replica
          Preserve,      \* AppInfos with PreserveUpdates
          AsyncLink,     \* IsAsyncSupported of the link plugin
          Graceful,      \* kube: a removed process is asked to stop; native: killed
          MaxUpdates,    \* bound: changes of mind of the cloud
          MaxFaults      \* bound: failing calls and crashes

Kinds == {"sys", "user"}
Apps == SysApps \cup UserApps
AppInfo == [name : Apps, ver : Versions]
AppsOf(k) == IF k = "sys" THEN SysApps ELSE UserApps

ASSUME SvcsAssumption == Svcs \subseteq {"init", "core"}
ASSUME AppsAssumption == /\ IsFiniteSet(Apps)
                         /\ SysApps \cap UserApps = {}
                         /\ CoreLike \subseteq SysApps
\* One application only has a name that contains "baetyl-core".
ASSUME CoreLikeAssumption == \A m, n \in CoreLike : m = n
ASSUME HostAssumption == HostApp \in [Svcs -> SysApps]
ASSUME VersionsAssumption == None \notin Versions

\* A list names an application once, and only applications of its kind.
Distinct(list) == \A i, j \in DOMAIN list : list[i].name = list[j].name => i = j
ASSUME DesiresAssumption ==
  \A d \in Desires : /\ d \in [Kinds -> Seq(AppInfo)]
                     /\ \A k \in Kinds : Distinct(d[k]) /\ Names(d[k]) \subseteq AppsOf(k)
ASSUME NilAssumption == Nil \notin Seq(AppInfo)
ASSUME InstalledAssumption == Installed \in [Apps -> Versions \cup {None}]
ASSUME PortAssumption == HostPort \in [AppInfo -> Seq(Nat)]
ASSUME FlagsAssumption == AsyncLink \in BOOLEAN /\ Graceful \in BOOLEAN
ASSUME BoundsAssumption == MaxUpdates \in Nat /\ MaxFaults \in Nat

VARIABLES cloud,    \* the desire of the cloud
          updates,  \* changes of mind left
          faults,   \* faults left
          running,  \* what the AMI lists
          term,     \* processes that were asked to stop and have not exited
          desire,   \* shadow: desire[s][k]
          report,   \* shadow: report[s][k], the reported list of applications
          causes,   \* shadow: names with an error in the reported statistics
          cyc       \* cyc[s]: the locals of the cycle process s is in

vars == <<cloud, updates, faults, running, term, desire, report, causes, cyc>>

NoDesire == [k \in Kinds |-> Nil]
NoRoutines == [n \in Apps |-> "none"]
IdleCycle == [pc |-> "idle", kind |-> "sys", snap |-> NoDesire, rlist |-> <<>>,
              ok |-> TRUE, dlist |-> <<>>, del |-> {}, update |-> {},
              bad |-> {}, gor |-> NoRoutines]

Owns(s, n) == IF s = "init" THEN n \in CoreLike ELSE n \notin CoreLike

\* The application of s is listed and its process is not on its way out.  A
\* new process waits for the old one, which holds the lock of the store.
Up(s) == running[HostApp[s]] # None /\ s \notin term
Alive(s) == Up(s) \/ s \in term

\* Lines 303-310 of reportAndApply.
Filter(s, list) == IF s = "init" THEN filterAppLike(list, CoreLike)
                                 ELSE filterAppNotLike(list, CoreLike)

\* The application list in DiffWithNil(desire, report): absent when it is
\* not desired or equal to the reported one, and else the desired one.
Delta(d, r) == IF d = r THEN Nil ELSE d

-----------------------------------------------------------------------------
Init == /\ cloud \in Desires
        /\ updates = MaxUpdates
        /\ faults = MaxFaults
        /\ running = Installed
        /\ term = {}
        /\ desire = [s \in Svcs |-> NoDesire]
        /\ report = [s \in Svcs |-> NoDesire]
        /\ causes = [s \in Svcs |-> [k \in Kinds |-> {}]]
        /\ cyc = [s \in Svcs |-> IdleCycle]

CloudUpdate == /\ updates > 0
               /\ cloud' \in Desires \ {cloud}
               /\ updates' = updates - 1
               /\ UNCHANGED <<faults, running, term, desire, report, causes, cyc>>

\* sync: report the shadow, persist the answer.  (The cloud may change its
\* mind while the answer is on its way; such a change is taken after it.)
SyncReport(s) == /\ Up(s)
                 /\ desire' = [desire EXCEPT ![s] = cloud]
                 /\ UNCHANGED <<cloud, updates, faults, running, term, report, causes, cyc>>

\* sync: a MessageNodeProps replaces the whole desire by the properties.
SyncNodeProps(s) ==
  /\ AsyncLink /\ Up(s) /\ updates > 0
  /\ updates' = updates - 1
  /\ desire' = [desire EXCEPT ![s] = NoDesire]
  /\ UNCHANGED <<cloud, faults, running, term, report, causes, cyc>>

-----------------------------------------------------------------------------
(* The cycle of process s.  At(s, l) is its program counter.               *)

At(s, l) == cyc[s].pc = l /\ Alive(s)

\* Mutant: the user applications are never looked at.
NextKindNone(c) == IdleCycle

\* What is left of the cycle once one kind of applications is done.
NextKind(c) == IF c.kind = "user" THEN IdleCycle
               ELSE [IdleCycle EXCEPT !.pc = "collect", !.kind = "user", !.snap = c.snap]

\* Process s goes on with the locals c.
Goto(s, c) == cyc' = [cyc EXCEPT ![s] = c]

\* The AMI changes application n to v on behalf of s.  The process of n is
\* killed with all its goroutines, or asked to stop.
Touch(s, c, n, v) ==
  LET hit == IF v = running[n] THEN {} ELSE {t \in Svcs : HostApp[t] = n /\ Up(t)}
  IN  /\ running' = [running EXCEPT ![n] = v]
      /\ term' = IF Graceful THEN term \cup hit ELSE term
      /\ cyc' = [t \in Svcs |-> IF t \in hit /\ ~Graceful THEN IdleCycle
                                ELSE IF t = s THEN c ELSE cyc[t]]

Fault == faults > 0 /\ faults' = faults - 1

Tick(s) == /\ At(s, "idle") /\ Up(s)
           /\ Goto(s, [IdleCycle EXCEPT !.pc = "collect", !.snap = desire[s]])
           /\ UNCHANGED <<cloud, updates, faults, running, term, desire, report, causes>>

\* Mutant: what has been removed is listed too, without a version.
ListedAll(k) == {[name |-> n, ver |-> running[n]] : n \in AppsOf(k)}

Listed(k) == {a \in AppInfo : a.name \in AppsOf(k) /\ running[a.name] = a.ver}

\* Collect: align what StatsApps returned with the desire read by nod.Get.
CollectAs(s, apps, ok) ==
  LET c == cyc[s]
      d == IF c.snap[c.kind] = Nil THEN <<>> ELSE c.snap[c.kind]
  IN  \E re \in Orders(apps) : \E r \in alignApps(re, d) :
        Goto(s, [c EXCEPT !.pc = "report", !.rlist = r, !.ok = ok])

Collect(s) == /\ At(s, "collect")
              /\ CollectAs(s, Listed(cyc[s].kind), TRUE)
              /\ UNCHANGED <<cloud, updates, faults, running, term, desire, report, causes>>

\* StatsApps fails and returns what it had so far; Collect only warns.
CollectFails(s) ==
  /\ At(s, "collect") /\ Fault
  /\ \E apps \in SUBSET Listed(cyc[s].kind) : CollectAs(s, apps, FALSE)
  /\ UNCHANGED <<cloud, updates, running, term, desire, report, causes>>

\* nod.Report of the collected report; the statistics carry no cause of ours.
Report(s) ==
  LET c  == cyc[s]
      dl == Delta(desire[s][c.kind], c.rlist)
      da == Filter(s, dl)
      ra == Filter(s, c.rlist)
  IN  /\ At(s, "report")
      /\ report' = [report EXCEPT ![s][c.kind] = c.rlist]
      /\ causes' = [causes EXCEPT ![s][c.kind] = {}]
      /\ Goto(s, IF dl = Nil THEN NextKind(c)
                 ELSE [c EXCEPT !.pc = "syncapps", !.dlist = dl,
                         !.del = toDelete(da, ra), !.update = toUpdate(da, ra)])
      /\ UNCHANGED <<cloud, updates, faults, running, term, desire>>

\* SyncApps and checkMultiAppPort.
CheckPorts(s) ==
  LET c     == cyc[s]
      dapps == Filter(s, c.dlist)
  IN  /\ At(s, "syncapps")
      /\ \E order \in Orders(portsOf(dapps, HostPort, MultiReplica)) :
           LET lose == checkMultiAppPort(dapps, HostPort, MultiReplica, {}, order).del
           IN  Goto(s, [c EXCEPT !.pc = "stats1", !.bad = Names(dapps) \cap lose,
                          !.update = {a \in c.update : a.name \notin lose}])
      /\ UNCHANGED <<cloud, updates, faults, running, term, desire, report, causes>>

\* reportAppStatsIfNeed, which merges the whole collected report once more.
ReportAppStats(s) ==
  LET c == cyc[s]
  IN  /\ At(s, "stats1") \/ At(s, "stats2")
      /\ report' = [report EXCEPT ![s][c.kind] = c.rlist]
      /\ causes' = [causes EXCEPT ![s][c.kind] = c.bad]
      /\ Goto(s, IF c.pc = "stats2" THEN NextKind(c) ELSE [c EXCEPT !.pc = "delete"])
      /\ UNCHANGED <<cloud, updates, faults, running, term, desire>>

DeleteApp(s) ==
  LET c == cyc[s]
  IN  /\ At(s, "delete")
      /\ \E a \in c.del : Touch(s, [c EXCEPT !.del = @ \ {a}], a.name, None)
      /\ UNCHANGED <<cloud, updates, faults, desire, report, causes>>

\* An error of DeleteApp ends the cycle, whether or not the AMI got as far
\* as taking the application off its list.
DeleteAppFails(s) ==
  /\ At(s, "delete") /\ Fault
  /\ \E a \in cyc[s].del : \E v \in {running[a.name], None} :
       Touch(s, IdleCycle, a.name, v)
  /\ UNCHANGED <<cloud, updates, desire, report, causes>>

\* applyApps starts one goroutine for every application to update.
StartApply(s) ==
  LET c == cyc[s]
  IN  /\ At(s, "delete") /\ c.del = {}
      /\ Goto(s, [c EXCEPT !.pc = "apply",
                    !.gor = [n \in Apps |-> IF \E a \in c.update : a.name = n
                                            THEN "sync" ELSE "none"]])
      /\ UNCHANGED <<cloud, updates, faults, running, term, desire, report, causes>>

Routine(s, a, l) == At(s, "apply") /\ a \in cyc[s].update /\ cyc[s].gor[a.name] = l
Step(s, a, l) == [cyc[s] EXCEPT !.gor[a.name] = l]

\* applyApp up to ApplyApp: SyncResource, reading the store, certificates.
SyncResource(s, a) ==
  /\ Routine(s, a, "sync")
  /\ Goto(s, Step(s, a, IF a \in Preserve THEN "install" ELSE "remove"))
  /\ UNCHANGED <<cloud, updates, faults, running, term, desire, report, causes>>

\* ApplyApp takes every listed version of the application down first ...
Remove(s, a) ==
  /\ Routine(s, a, "remove")
  /\ Touch(s, Step(s, a, "install"), a.name, None)
  /\ UNCHANGED <<cloud, updates, faults, desire, report, causes>>

\* ... and then brings the new one up.
Install(s, a) ==
  /\ Routine(s, a, "install")
  /\ Touch(s, Step(s, a, "done"), a.name, a.ver)
  /\ UNCHANGED <<cloud, updates, faults, desire, report, causes>>

\* applyApp fails before, during the removal, or during the installation.
RoutineFails(s, a) ==
  /\ Fault
  /\ \/ Routine(s, a, "sync") /\ Touch(s, Step(s, a, "fail"), a.name, running[a.name])
     \/ /\ Routine(s, a, "remove")
        /\ \E v \in {running[a.name], None} : Touch(s, Step(s, a, "fail"), a.name, v)
     \/ /\ Routine(s, a, "install")
        /\ \E v \in {running[a.name], a.ver} : Touch(s, Step(s, a, "fail"), a.name, v)
  /\ UNCHANGED <<cloud, updates, desire, report, causes>>

\* Mutant: the goroutine swallows its error.
RecordCauseSwallowed(s, a) ==
  /\ Routine(s, a, "fail")
  /\ Goto(s, Step(s, a, "done"))
  /\ UNCHANGED <<cloud, updates, faults, running, term, desire, report, causes>>

\* The failed goroutine writes its cause into the map stats.
RecordCause(s, a) ==
  /\ Routine(s, a, "fail")
  /\ Goto(s, [Step(s, a, "done") EXCEPT !.bad = @ \cup {a.name}])
  /\ UNCHANGED <<cloud, updates, faults, running, term, desire, report, causes>>

\* The map stats has no lock: two goroutines that write it at the same time
\* may make the Go runtime abort the process.
ConcurrentMapWrites(s) ==
  /\ \E a, b \in cyc[s].update :
       a.name # b.name /\ Routine(s, a, "fail") /\ Routine(s, b, "fail")
  /\ Goto(s, IdleCycle)
  /\ UNCHANGED <<cloud, updates, faults, running, term, desire, report, causes>>

\* wg.Wait.
JoinApply(s) ==
  /\ At(s, "apply")
  /\ \A n \in Apps : cyc[s].gor[n] \in {"none", "done"}
  /\ Goto(s, [cyc[s] EXCEPT !.pc = "stats2", !.gor = NoRoutines])
  /\ UNCHANGED <<cloud, updates, faults, running, term, desire, report, causes>>

\* An error of nod.Report or of SyncApps ends the cycle.
CycleFails(s) ==
  /\ \E l \in {"report", "syncapps", "stats1", "stats2"} : At(s, l)
  /\ Fault /\ Goto(s, IdleCycle)
  /\ UNCHANGED <<cloud, updates, running, term, desire, report, causes>>

\* The process dies anywhere in its cycle and its supervisor restarts it.
Crash(s) == /\ Alive(s) /\ cyc[s].pc # "idle"
            /\ Fault /\ Goto(s, IdleCycle)
            /\ UNCHANGED <<cloud, updates, running, term, desire, report, causes>>

\* A process that was asked to stop exits: Close has waited for its cycle,
\* or the grace period is over and it is killed in the middle of one.
Exit(s) == /\ s \in term
           /\ term' = term \ {s}
           /\ Goto(s, IdleCycle)
           /\ UNCHANGED <<cloud, updates, faults, running, desire, report, causes>>

GoRoutine(s) == \E a \in AppInfo : \/ SyncResource(s, a) \/ Remove(s, a)
                                   \/ Install(s, a) \/ RecordCause(s, a)

EngineStep(s) == \/ Tick(s) \/ Collect(s) \/ Report(s) \/ CheckPorts(s)
                 \/ ReportAppStats(s) \/ DeleteApp(s) \/ StartApply(s)
                 \/ GoRoutine(s) \/ JoinApply(s)

EngineFault(s) == \/ CollectFails(s) \/ DeleteAppFails(s) \/ CycleFails(s)
                  \/ Crash(s) \/ ConcurrentMapWrites(s)
                  \/ \E a \in AppInfo : RoutineFails(s, a)

Next == \/ CloudUpdate
        \/ \E s \in Svcs : \/ SyncReport(s) \/ SyncNodeProps(s)
                           \/ EngineStep(s) \/ EngineFault(s) \/ Exit(s)

(***************************************************************************)
(* Fairness: the two tickers (engine.reporting, sync.reporting) keep       *)
(* firing and no call of a cycle blocks for ever.  The cloud and the       *)
(* faults need not happen.                                                 *)
(***************************************************************************)
Spec == /\ Init /\ [][Next]_vars
        /\ \A s \in Svcs : /\ WF_vars(EngineStep(s)) /\ WF_vars(SyncReport(s))
                           /\ WF_vars(Exit(s))
-----------------------------------------------------------------------------
ShadowLists == Seq(AppInfo) \cup {Nil}
Labels == {"idle", "collect", "report", "syncapps", "stats1", "delete", "apply", "stats2"}
Stages == {"none", "sync", "remove", "install", "fail", "done"}

Cycle == [pc : Labels, kind : Kinds, snap : [Kinds -> ShadowLists], rlist : Seq(AppInfo),
          ok : BOOLEAN, dlist : Seq(AppInfo), del : SUBSET AppInfo,
          update : SUBSET AppInfo, bad : SUBSET Apps, gor : [Apps -> Stages]]

\* Every variable has its type.
TypeOK == /\ cloud \in [Kinds -> Seq(AppInfo)]
          /\ updates \in 0..MaxUpdates /\ faults \in 0..MaxFaults
          /\ running \in [Apps -> Versions \cup {None}]
          /\ term \subseteq Svcs
          /\ desire \in [Svcs -> [Kinds -> ShadowLists]]
          /\ report \in [Svcs -> [Kinds -> ShadowLists]]
          /\ causes \in [Svcs -> [Kinds -> SUBSET Apps]]
          /\ cyc \in [Svcs -> Cycle]

\* The desired applications process s looks after in this half of its cycle.
Dapps(s) == Range(Filter(s, cyc[s].dlist))

\* When the goroutines of a cycle have been joined, every application that
\* the process looks after and that was desired when it reported is listed
\* at the desired version, or the statistics about to be reported name it
\* with a cause (reportAndApply, lines 313-342).  An error is never lost
\* between the goroutine that met it and the report.
ApplyOrExplain ==
  \A s \in Svcs :
    At(s, "stats2") =>
      \A a \in Dapps(s) : running[a.name] = a.ver \/ a.name \in cyc[s].bad

\* The applications started by one cycle never claim the same host port,
\* in whatever order Go ranges over the ports (checkMultiAppPort).
BatchPortsDisjoint ==
  \A s \in Svcs : cyc[s].pc \in {"delete", "apply"} =>
    \A a, b \in cyc[s].update :
      a.name # b.name => Range(HostPort[a]) \cap Range(HostPort[b]) = {}

\* baetyl-core never touches an application whose name contains
\* "baetyl-core", baetyl-init never touches any other (lines 303-310): the
\* two processes share the AMI without a lock and must not undo each
\* other's work.
OnlyOwnerTouches ==
  [][\A n \in Apps : running'[n] # running[n] =>
       \E s \in Svcs : Owns(s, n) /\ cyc[s].pc \in {"delete", "apply"}]_vars

\* An application that is listed at the version the process saw desired is
\* taken down only by a cycle whose StatsApps failed: no interleaving of
\* sync, the two processes, crashes and half-done cycles restarts a healthy
\* application.
NoNeedlessRestart ==
  [][\A n \in Apps : running[n] # None /\ running'[n] # running[n] =>
       \E s \in Svcs : /\ Owns(s, n)
                       /\ cyc[s].ok => [name |-> n, ver |-> running[n]] \notin Dapps(s)]_vars

\* One of the two processes is left to reinstall the other: ApplyApp
\* removes an application before it installs it, and the removal stops the
\* process.  In native mode the process is killed at once, so the first
\* remover survives whatever is upgraded; in kube mode both may be on their
\* way out when the cloud upgrades both.
SomeEngineAlive == \E s \in Svcs : Alive(s)

\* The names desired by the cloud that some process looks after.
Managed(n) == \E s \in Svcs : Owns(s, n)
Wanted == {a \in AppInfo : \E k \in Kinds : \E i \in DOMAIN cloud[k] : cloud[k][i] = a}
Contended(a) == \/ a \in MultiReplica /\ HostPort[a] # <<>>
                \/ \E b \in Wanted : b.name # a.name
                                     /\ Range(HostPort[a]) \cap Range(HostPort[b]) # {}
Converged ==
  \A n \in Apps : Managed(n) =>
    IF \E a \in Wanted : a.name = n
    THEN \A a \in Wanted : a.name = n => running[n] = a.ver \/ Contended(a)
    ELSE running[n] = None

\* Once the cloud has settled and the faults are over, the AMI lists what
\* the cloud desires and keeps doing so, wherever the faults, crashes and
\* late desires fell: the retry of every failed step is the next tick.
Convergence == <>[]Converged

-----------------------------------------------------------------------------
(***************************************************************************)
(* The inductive invariant behind ApplyOrExplain and NoNeedlessRestart:    *)
(* what the locals c of the cycle of process s say about the list run of   *)
(* the AMI, although sync, the other process and the goroutines go on      *)
(* between any two of its steps.                                           *)
(***************************************************************************)
Pending == {"none", "sync", "remove", "install"}
CycleApps(s, c) == Range(Filter(s, c.dlist))

\* Nothing is planned before the report, and no goroutine outlives applyApps.
NoPlan(c) ==
  /\ c.pc \in {"idle", "collect", "report"} =>
       c.dlist = <<>> /\ c.del = {} /\ c.update = {}
  /\ c.pc \in {"idle", "collect", "report", "syncapps"} => c.bad = {}
  /\ c.pc # "apply" => c.gor = NoRoutines
  /\ c.pc = "apply" => \A a \in c.update : c.gor[a.name] # "none"

\* The collected list is still true of the applications s looks after.
FreshReport(s, c, run) ==
  c.pc = "report" =>
    /\ Distinct(c.rlist)
    /\ \A a \in Range(c.rlist) : Owns(s, a.name) => run[a.name] = a.ver
    /\ c.ok => \A a \in AppInfo :
                 a.name \in AppsOf(c.kind) /\ Owns(s, a.name) /\ run[a.name] = a.ver
                   => a \in Range(c.rlist)

\* What is updated is desired, what is deleted is not.
SoundPlan(s, c) ==
  /\ Distinct(c.dlist) /\ Names(c.dlist) \subseteq AppsOf(c.kind)
  /\ c.update \subseteq CycleApps(s, c)
  /\ \A a \in c.del : Owns(s, a.name) /\ \A b \in CycleApps(s, c) : b.name # a.name

\* A desired application is listed, explained or still to be updated.
CompletePlan(s, c, run) ==
  /\ c.pc \in {"syncapps", "stats1", "delete", "apply"} =>
       \A a \in CycleApps(s, c) : \/ run[a.name] = a.ver \/ a.name \in c.bad
                                  \/ a \in c.update /\ c.gor[a.name] # "done"
  /\ c.pc = "stats2" =>
       \A a \in CycleApps(s, c) : run[a.name] = a.ver \/ a.name \in c.bad

\* What is still to be updated is not listed at the desired version.
NeededPlan(s, c, run) ==
  c.ok /\ c.pc # "stats2" =>
    \A a \in c.update : c.gor[a.name] \in Pending => run[a.name] # a.ver

CycleOK(s, c, run) == /\ NoPlan(c) /\ FreshReport(s, c, run) /\ SoundPlan(s, c)
                      /\ CompletePlan(s, c, run) /\ NeededPlan(s, c, run)

\* The plan of every cycle stays true of the AMI until it is carried out.
PlanInv == /\ cloud \in Desires
           /\ \A s \in Svcs : desire[s] \in Desires \cup {NoDesire}
           /\ \A s \in Svcs : CycleOK(s, cyc[s], running)
=============================================================================
