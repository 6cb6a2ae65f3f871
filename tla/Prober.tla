------------------------------- MODULE Prober -------------------------------
(***************************************************************************)
(* The probes of the native AMI (ami/native/prober) with the calls that    *)
(* start and stop them (ApplyApp, DeleteApp and StatsApps of               *)
(* ami/native/native.go).                                                  *)
(*                                                                         *)
(* The engine goroutine alternates between the two namespaces: StatsApps   *)
(* of one, then the applications of that namespace are deleted or applied. *)
(* Every probed application has a worker goroutine.  A worker removes      *)
(* itself from the manager when it ends; a stop signal waits in a channel  *)
(* of capacity one until the worker selects.  A key stands for one version *)
(* of an application with one service instance.                            *)
(***************************************************************************)
EXTENDS Naturals, FiniteSets

CONSTANTS Keys,              \* versions of applications
          NameOf,            \* Keys -> application name
          Sys,               \* the keys of the system namespace
          Probe,             \* Keys -> {"none", "liveness", "startup"}
          Handler,           \* Keys -> {"http", "tcp"}
          FailureThreshold,
          maxProbeRetries,
          MaxDeploys,        \* bound: applications applied or deleted
          MaxFaults          \* bound: failing StatsApps, restarts, sick processes

ASSUME SysAssumption == Sys \subseteq Keys
ASSUME ProbeAssumption == Probe \in [Keys -> {"none", "liveness", "startup"}]
ASSUME HandlerAssumption == Handler \in [Keys -> {"http", "tcp"}]
ASSUME ThresholdAssumption == FailureThreshold \in Nat \ {0} /\ maxProbeRetries \in Nat \ {0}
ASSUME BoundsAssumption == MaxDeploys \in Nat /\ MaxFaults \in Nat

VARIABLES installed,  \* keys with an instance directory
          proc,       \* service manager: status of the service of a key
          healthy,    \* whether the process answers its probe
          workers,    \* keys registered with the manager
          status,     \* collections in a row that did not see the key
          wk,         \* the worker goroutine of a key
          eng,        \* the engine goroutine
          missed,     \* failures in a row of StatsApps, by namespace
          crashed,    \* baetyl-core panicked
          deploys, faults

vars == <<installed, proc, healthy, workers, status, wk, eng, missed, crashed, deploys, faults>>

Namespaces == {"sys", "user"}
Of(ns) == IF ns = "sys" THEN Sys ELSE Keys \ Sys
Other(ns) == IF ns = "sys" THEN "user" ELSE "sys"
\* old, for the properties: the key was uninstalled while the worker lived,
\* and no collection has seen it since.
NoWorker == [pc |-> "none", stop |-> FALSE, fails |-> 0, old |-> FALSE]
Collecting(ns) == [pc |-> "stats", ns |-> ns, key |-> {}, dirs |-> {}, done |-> {}]

Init == /\ installed = {}
        /\ proc = [k \in Keys |-> "absent"]
        /\ healthy = [k \in Keys |-> TRUE]
        /\ workers = {}
        /\ status = [k \in Keys |-> 0]
        /\ wk = [k \in Keys |-> NoWorker]
        /\ eng = Collecting("sys")
        /\ missed = [ns \in Namespaces |-> 0]
        /\ crashed = FALSE
        /\ deploys = MaxDeploys
        /\ faults = MaxFaults

-----------------------------------------------------------------------------
(* The manager.  The lock makes each of its methods one step.              *)

\* The keys of S that AddApp starts a worker for: probed, not registered.
Added(S) == {k \in S : Probe[k] # "none" /\ k \notin workers}

\* Mutant: a collection does not look after applications without worker.
CheckAndStartNothing(S) == {}

\* CheckAndStart on the instances of a collection: AddApp for each.
CheckAndStart(S) == Added(S)

AddApps(S) ==
  /\ workers' = workers \cup Added(S)
  /\ wk' = [k \in Keys |-> IF k \in Added(S) THEN [NoWorker EXCEPT !.pc = "run"] ELSE wk[k]]
  /\ status' = [k \in Keys |-> IF k \in Added(S) THEN 0 ELSE status[k]]

\* stop: the channel holds one signal.
Stopped(w) == [w EXCEPT !.stop = TRUE]

RemoveApp(k) ==
  wk' = IF k \in workers THEN [wk EXCEPT ![k] = Stopped(@)] ELSE wk

\* Mutants: the first collection that misses a key stops its worker; none
\* ever does.
CleanupAppsNever(seen, ws, cnt, w) == [cnt |-> cnt, wk |-> w]
CleanupAppsAtOnce(seen, ws, cnt, w) ==
  [cnt |-> cnt, wk |-> [k \in Keys |-> IF k \in ws \ seen THEN Stopped(w[k]) ELSE w[k]]]

\* CleanupApps on the registered keys ws: the count is capped where it
\* makes no difference any more.
CleanupApps(seen, ws, cnt, w) ==
  LET n == [k \in Keys |-> IF k \notin ws THEN cnt[k]
                           ELSE IF k \in seen THEN 0
                           ELSE IF cnt[k] < maxProbeRetries THEN cnt[k] + 1 ELSE cnt[k]]
  IN  [cnt |-> n,
       wk  |-> [k \in Keys |-> IF k \in ws \ seen /\ n[k] >= maxProbeRetries THEN Stopped(w[k])
                               ELSE IF k \in ws \cap seen THEN [w[k] EXCEPT !.old = FALSE]
                               ELSE w[k]]]

-----------------------------------------------------------------------------
(* The engine goroutine: StatsApps, then what it applies and deletes.      *)

EngineAt(l) == eng.pc = l /\ ~crashed

\* StatsApps: CheckAndStart for every instance, then CleanupApps with the
\* instances of this namespace only.  (A namespace without a directory is
\* not cleaned up after; the system namespace always holds baetyl-core.)
StatsApps ==
  LET seen == installed \cap Of(eng.ns)
      new  == CheckAndStart(seen)
      w0   == [k \in Keys |-> IF k \in new THEN [NoWorker EXCEPT !.pc = "run"] ELSE wk[k]]
      c0   == [k \in Keys |-> IF k \in new THEN 0 ELSE status[k]]
      r    == CleanupApps(seen, workers \cup new, c0, w0)
  IN  /\ EngineAt("stats")
      /\ workers' = workers \cup new
      /\ status' = r.cnt
      /\ wk' = r.wk
      /\ missed' = [missed EXCEPT ![eng.ns] = 0]
      /\ eng' = [eng EXCEPT !.pc = "apply"]
      /\ UNCHANGED <<installed, proc, healthy, crashed, deploys, faults>>

\* A directory cannot be read: StatsApps returns before CleanupApps, having
\* called CheckAndStart for some of the instances.
StatsAppsFails ==
  /\ EngineAt("stats") /\ faults > 0
  /\ faults' = faults - 1
  /\ \E S \in SUBSET (installed \cap Of(eng.ns)) : AddApps(S)
  /\ missed' = [missed EXCEPT ![eng.ns] = @ + 1]
  /\ eng' = [eng EXCEPT !.pc = "apply"]
  /\ UNCHANGED <<installed, proc, healthy, crashed, deploys>>

Dirs(k) == {d \in installed : NameOf[d] = NameOf[k]}

\* ApplyApp begins with DeleteApp for the version it is about to install;
\* DeleteApp of the engine names the version that is deleted.  A cycle of
\* the engine handles a name once.
StartDeploy(k, pc) ==
  /\ EngineAt("apply") /\ deploys > 0 /\ k \in Of(eng.ns) /\ NameOf[k] \notin eng.done
  /\ pc = "delete" => k \in installed
  /\ deploys' = deploys - 1
  /\ eng' = [eng EXCEPT !.pc = pc, !.key = {k}, !.dirs = Dirs(k),
                        !.done = @ \cup {NameOf[k]}]
  /\ UNCHANGED <<installed, proc, healthy, workers, status, wk, missed, crashed, faults>>

InDelete == EngineAt("delete") \/ EngineAt("deleteOld")

\* DeleteApp goes through the version directories.  RemoveApp gets the
\* version DeleteApp was called with, whichever directory it is in.
StopService(k, d) ==
  /\ InDelete /\ eng.key = {k} /\ d \in eng.dirs
  /\ RemoveApp(k)
  /\ proc' = [proc EXCEPT ![d] = "stopped"]
  /\ eng' = [eng EXCEPT !.dirs = {d}, !.pc = IF @ = "delete" THEN "uninstall" ELSE "uninstallOld"]
  /\ UNCHANGED <<installed, healthy, workers, status, missed, crashed, deploys, faults>>

\* Uninstall and RemoveAll, then the directories that are left.  A process
\* that a worker restarted in between outlives its service.
Uninstall(d) ==
  /\ EngineAt("uninstall") \/ EngineAt("uninstallOld")
  /\ eng.dirs = {d}
  /\ installed' = installed \ {d}
  /\ proc' = [proc EXCEPT ![d] = IF @ = "running" THEN "orphan" ELSE "absent"]
  /\ eng' = [eng EXCEPT !.pc = IF @ = "uninstall" THEN "delete" ELSE "deleteOld",
                        !.dirs = {e \in installed \ {d} : \E k \in eng.key : NameOf[e] = NameOf[k]}]
  /\ wk' = [wk EXCEPT ![d].old = d \in workers]
  /\ UNCHANGED <<healthy, workers, status, missed, crashed, deploys, faults>>

\* ApplyApp goes on: install, start, AddApp.
InstallService(k) ==
  /\ EngineAt("deleteOld") /\ eng.dirs = {} /\ eng.key = {k}
  /\ installed' = installed \cup {k}
  /\ proc' = [proc EXCEPT ![k] = "running"]
  /\ healthy' = [healthy EXCEPT ![k] = TRUE]
  /\ AddApps({k})
  /\ eng' = [eng EXCEPT !.pc = "apply", !.key = {}]
  /\ UNCHANGED <<missed, crashed, deploys, faults>>

DeleteDone ==
  /\ EngineAt("delete") /\ eng.dirs = {}
  /\ eng' = [eng EXCEPT !.pc = "apply", !.key = {}]
  /\ UNCHANGED <<installed, proc, healthy, workers, status, wk, missed, crashed, deploys, faults>>

\* The other namespace, or the next cycle.
NextNamespace ==
  /\ EngineAt("apply")
  /\ eng' = Collecting(Other(eng.ns))
  /\ UNCHANGED <<installed, proc, healthy, workers, status, wk, missed, crashed, deploys, faults>>

-----------------------------------------------------------------------------
(* The worker of key k.                                                    *)

WorkerAt(k, l) == wk[k].pc = l /\ ~crashed
Worker(k, w) == /\ wk' = [wk EXCEPT ![k] = w]
                /\ UNCHANGED <<installed, healthy, workers, status, eng, missed, deploys, faults>>

\* run: newWorker takes the liveness probe of the application for any
\* worker, so the worker of a startup probe has none and panics outside
\* the recover of doProbe.
Run(k) == /\ WorkerAt(k, "run")
          /\ crashed' = (Probe[k] = "startup")
          /\ Worker(k, [wk[k] EXCEPT !.pc = "status"])
          /\ UNCHANGED proc

\* doProbe up to the probe: the status of the process.
CheckStatus(k) ==
  /\ WorkerAt(k, "status")
  /\ Worker(k, [wk[k] EXCEPT !.pc = CASE proc[k] = "stopped" -> "exit"
                                      [] proc[k] = "running" -> "probe"
                                      [] OTHER -> "wait"])
  /\ UNCHANGED <<proc, crashed>>

\* Mutant: the last result is not remembered.
ProbeOnceForgets(k) ==
  /\ WorkerAt(k, "probe")
  /\ Worker(k, IF ~healthy[k] /\ 1 >= FailureThreshold THEN [wk[k] EXCEPT !.pc = "restart"]
                                                       ELSE [wk[k] EXCEPT !.pc = "wait"])
  /\ UNCHANGED <<proc, crashed>>

\* Mutant: the first failure is enough.
ProbeOnceHasty(k) ==
  /\ WorkerAt(k, "probe")
  /\ Worker(k, [wk[k] EXCEPT !.pc = IF healthy[k] /\ proc[k] = "running" THEN "wait" ELSE "restart"])
  /\ UNCHANGED <<proc, crashed>>

\* The probe itself.  A TCP probe reads the port of the HTTP handler, which
\* is nil: the panic is eaten and nothing is learnt.
ProbeOnce(k) ==
  LET failed == ~(healthy[k] /\ proc[k] = "running")
      n      == IF failed THEN wk[k].fails + 1 ELSE 0
  IN  /\ WorkerAt(k, "probe")
      /\ Worker(k, CASE Handler[k] = "tcp" -> [wk[k] EXCEPT !.pc = "wait"]
                     [] n >= FailureThreshold -> [wk[k] EXCEPT !.pc = "restart"]
                     [] OTHER -> [wk[k] EXCEPT !.pc = "wait", !.fails = n])
      /\ UNCHANGED <<proc, crashed>>

\* svc.Restart, which fails when the service is gone.
Restart(k) ==
  /\ WorkerAt(k, "restart")
  /\ proc' = [proc EXCEPT ![k] = IF k \in installed THEN "running" ELSE @]
  /\ healthy' = [healthy EXCEPT ![k] = @ \/ k \in installed]
  /\ wk' = [wk EXCEPT ![k].pc = "wait", ![k].fails = 0]
  /\ UNCHANGED <<installed, workers, status, eng, missed, crashed, deploys, faults>>

\* The select of run: the next tick, or the stop signal.
ProbeTick(k) == /\ WorkerAt(k, "wait")
                /\ Worker(k, [wk[k] EXCEPT !.pc = "status"])
                /\ UNCHANGED <<proc, crashed>>

TakeStop(k) == /\ WorkerAt(k, "wait") /\ wk[k].stop
               /\ Worker(k, [wk[k] EXCEPT !.pc = "exit", !.stop = FALSE])
               /\ UNCHANGED <<proc, crashed>>

\* Mutant: the key stays registered.
removeWorkerLeaks(k) ==
  /\ WorkerAt(k, "exit")
  /\ wk' = [wk EXCEPT ![k] = NoWorker]
  /\ UNCHANGED <<installed, proc, healthy, workers, status, eng, missed, crashed, deploys, faults>>

removeWorker(k) ==
  /\ WorkerAt(k, "exit")
  /\ workers' = workers \ {k}
  /\ status' = [status EXCEPT ![k] = 0]
  /\ wk' = [wk EXCEPT ![k] = NoWorker]
  /\ UNCHANGED <<installed, proc, healthy, eng, missed, crashed, deploys, faults>>

-----------------------------------------------------------------------------
(* The environment.                                                        *)

\* The process of k stops answering, or stops.
ProcessFails(k) ==
  /\ faults > 0 /\ proc[k] = "running"
  /\ faults' = faults - 1
  /\ \/ healthy' = [healthy EXCEPT ![k] = FALSE] /\ UNCHANGED proc
     \/ proc' = [proc EXCEPT ![k] = "stopped"] /\ UNCHANGED healthy
  /\ UNCHANGED <<installed, workers, status, wk, eng, missed, crashed, deploys>>

\* The service manager starts a stopped service of an installed instance,
\* unless DeleteApp has just stopped it.
ServiceRestarts(k) ==
  /\ proc[k] = "stopped" /\ ~(eng.pc \in {"uninstall", "uninstallOld"} /\ k \in eng.dirs)
  /\ proc' = [proc EXCEPT ![k] = "running"]
  /\ healthy' = [healthy EXCEPT ![k] = TRUE]
  /\ UNCHANGED <<installed, workers, status, wk, eng, missed, crashed, deploys, faults>>

\* baetyl-core is restarted: after a panic, or because it is stopped.  The
\* manager starts empty, the services stay.
CoreRestart ==
  /\ faults > 0 /\ faults' = faults - 1
  /\ workers' = {}
  /\ status' = [k \in Keys |-> 0]
  /\ wk' = [k \in Keys |-> NoWorker]
  /\ eng' = Collecting("sys")
  /\ missed' = [ns \in Namespaces |-> 0]
  /\ crashed' = FALSE
  /\ UNCHANGED <<installed, proc, healthy, deploys>>

EngineStep == \/ StatsApps \/ NextNamespace \/ DeleteDone
              \/ \E k \in Keys : InstallService(k) \/ Uninstall(k)
              \/ \E k, d \in Keys : StopService(k, d)

WorkerStep(k) == \/ Run(k) \/ CheckStatus(k) \/ ProbeOnce(k) \/ Restart(k)
                 \/ ProbeTick(k) \/ removeWorker(k)

Next == \/ EngineStep \/ StatsAppsFails \/ CoreRestart
        \/ \E k \in Keys : \/ WorkerStep(k) \/ TakeStop(k)
                           \/ StartDeploy(k, "delete") \/ StartDeploy(k, "deleteOld")
                           \/ ProcessFails(k) \/ ServiceRestarts(k)

(***************************************************************************)
(* Fairness: the engine's ticker and the workers' tickers keep firing, the *)
(* service manager restarts what stopped.  The Go select of a worker       *)
(* chooses at random between a tick and a stop signal, so a waiting signal *)
(* is taken sooner or later (strong fairness).                             *)
(***************************************************************************)
Spec == /\ Init /\ [][Next]_vars
        /\ WF_vars(EngineStep)
        /\ \A k \in Keys : /\ WF_vars(WorkerStep(k)) /\ SF_vars(TakeStop(k))
                           /\ WF_vars(ServiceRestarts(k))
-----------------------------------------------------------------------------
Labels == {"none", "run", "status", "probe", "restart", "wait", "exit"}

\* Every variable has its type, and a key is registered exactly while its
\* worker goroutine lives.
TypeOK ==
  /\ installed \subseteq Keys
  /\ proc \in [Keys -> {"absent", "running", "stopped", "orphan"}]
  /\ healthy \in [Keys -> BOOLEAN]
  /\ workers = {k \in Keys : wk[k].pc # "none"}
  /\ status \in [Keys -> 0..maxProbeRetries]
  /\ wk \in [Keys -> [pc : Labels, stop : BOOLEAN, fails : 0..FailureThreshold,
                       old : BOOLEAN]]
  /\ eng.ns \in Namespaces
  /\ crashed \in BOOLEAN /\ deploys \in 0..MaxDeploys /\ faults \in 0..MaxFaults

NsOf(k) == IF k \in Sys THEN "sys" ELSE "user"

\* CleanupApps sees the instances of one namespace and goes through the
\* workers of both.  It stops the worker of an installed application only
\* when StatsApps of its namespace has failed in maxProbeRetries - 1 cycles
\* in a row, or when the worker is left over from an earlier installation
\* of the same version: AddApp keeps such a worker with its count.
NoInnocentStop ==
  [][\A k \in installed : eng.pc = "stats" /\ wk'[k].stop /\ ~wk[k].stop =>
       wk[k].old \/ missed[NsOf(k)] + 1 >= maxProbeRetries]_vars

Probed(k) == wk[k].pc \in {"status", "probe", "restart", "wait"}

\* In the end every installed application with a probe is probed, also
\* after a restart of baetyl-core, and when AddApp found the old worker of
\* the same key on its way out and did nothing (prober_manager.go, line 62).
EventuallyProbed == <>[](\A k \in installed : Probe[k] # "none" => Probed(k))

\* In the end no worker is left for a version that is not installed:
\* ApplyApp calls RemoveApp with the version it installs, so the worker of
\* the version it replaces depends on CleanupApps.
OrphanWorkersStop == <>[](workers \subseteq installed)

\* "The process fails a check, it will need to be restarted": a process
\* that stops answering is restarted.
FailingIsRestarted == <>[](\A k \in installed : Probe[k] # "none" => healthy[k])

\* A process outlives its service when its worker restarts it between Stop
\* and Uninstall of DeleteApp.  That takes a failure, or FailureThreshold
\* deletes that each make the same worker miss a probe, with no answer in
\* between: one delete of a healthy application never leaves its process
\* behind (worker.go, line 146).
OrphanNeedsFailure ==
  (\E k \in Keys : proc[k] = "orphan") =>
     faults < MaxFaults \/ MaxDeploys - deploys > FailureThreshold

\* "we keep it running to make sure it will work for restarted process":
\* starting a worker never takes baetyl-core down.
StartupWorkerRuns == ~crashed
=============================================================================
