--------------------------- MODULE Prober_proofs ----------------------------
(***************************************************************************)
(* Proofs about module Prober, for any applications, probes, thresholds    *)
(* and bounds.                                                             *)
(***************************************************************************)
EXTENDS Prober, TLAPS

Procs == {"absent", "running", "stopped", "orphan"}
WorkerRecords == [pc : Labels, stop : BOOLEAN, fails : 0..FailureThreshold, old : BOOLEAN]
InCall == {"delete", "deleteOld", "uninstall", "uninstallOld"}
Engine == [pc : {"stats", "apply"} \cup InCall, ns : Namespaces, key : SUBSET Keys,
           dirs : SUBSET Keys, done : SUBSET {NameOf[k] : k \in Keys}]

\* TypeOK with the record of the engine and the count of failures.
ProberTypes ==
  /\ installed \subseteq Keys
  /\ proc \in [Keys -> Procs]
  /\ healthy \in [Keys -> BOOLEAN]
  /\ workers = {k \in Keys : wk[k].pc # "none"}
  /\ status \in [Keys -> 0..maxProbeRetries]
  /\ wk \in [Keys -> WorkerRecords]
  /\ eng \in Engine
  /\ missed \in [Namespaces -> Nat]
  /\ crashed \in BOOLEAN /\ deploys \in 0..MaxDeploys /\ faults \in 0..MaxFaults

\* Since the last collection of its own namespace the other namespace was
\* collected, once more than the own one has failed.
Ahead(k) == (eng.ns = NsOf(k)) = (eng.pc = "stats")

\* A worker without an installation is old, and the count of one that is not
\* old is explained by the failures of its own namespace: each of them lets
\* one collection of the other namespace pass.
CountOK(k) ==
  k \in workers =>
    /\ k \notin installed => wk[k].old
    /\ ~wk[k].old => status[k] <= missed[NsOf(k)] + (IF Ahead(k) THEN 1 ELSE 0)

-----------------------------------------------------------------------------
(* One process and the deletes that stop it.                               *)

Excused == faults < MaxFaults \/ MaxDeploys - deploys > FailureThreshold

\* The call in progress has still to stop the process of k.
Named(k) == \E e \in eng.key : NameOf[k] = NameOf[e]
Ending(k) == eng.pc \in {"uninstall", "uninstallOld"} /\ k \in eng.dirs
Awaits(k) == eng.pc \in InCall /\ k \in installed /\ Named(k) /\ ~Ending(k)

\* The worker of k is about to miss a probe.
Misses(k) == wk[k].pc = "probe" /\ proc[k] # "running"

\* The probes that the worker of k missed, or is about to, in a row, and the
\* delete that is still to come, each belong to an application deployed;
\* one more was its installation.
Charged(k) == /\ k \in installed \/ k \in workers => deploys < MaxDeploys
              /\ k \in workers =>
                   wk[k].fails + (IF Misses(k) THEN 1 ELSE 0) + (IF Awaits(k) THEN 1 ELSE 0) + 1
                     <= MaxDeploys - deploys
              /\ wk[k].pc # "restart"

\* The process of an installed application runs and answers, but while it is
\* being deleted; the other processes are gone.
Alive(k) == /\ healthy[k]
            /\ k \in installed => proc[k] = IF Ending(k) THEN "stopped" ELSE "running"
            /\ k \notin installed => proc[k] = "absent"

\* What the engine goes through, in a call that was counted.
EngineOK ==
  /\ eng.pc \in InCall => deploys < MaxDeploys
  /\ eng.pc \in {"delete", "deleteOld"} => eng.dirs = {d \in installed : Named(d)}
  /\ eng.pc \in {"uninstall", "uninstallOld"} => eng.dirs \subseteq installed

Fine == EngineOK /\ \A k \in Keys : Charged(k) /\ Alive(k)

\* Without an excuse all is fine.
NoOrphan == Excused \/ Fine

ProberInv == ProberTypes /\ (\A k \in Keys : CountOK(k)) /\ NoOrphan

-----------------------------------------------------------------------------
(* The data.                                                               *)

\* The two namespaces share the keys out.
LEMMA NamespaceOf ==
  ASSUME NEW k \in Keys
  PROVE  /\ NsOf(k) \in Namespaces /\ k \in Of(NsOf(k))
         /\ \A ns \in Namespaces : k \in Of(ns) <=> ns = NsOf(k)
         /\ \A ns \in Namespaces : Other(ns) \in Namespaces /\ Other(ns) # ns
         /\ \A ns \in Namespaces : Other(ns) = NsOf(k) <=> ns # NsOf(k)
  BY SysAssumption DEF NsOf, Namespaces, Of, Other

\* The thresholds and bounds are numbers.
LEMMA Numbers == /\ FailureThreshold \in Nat /\ FailureThreshold > 0
                 /\ maxProbeRetries \in Nat /\ maxProbeRetries > 0
                 /\ MaxDeploys \in Nat /\ MaxFaults \in Nat
  BY ThresholdAssumption, BoundsAssumption

Fresh == [NoWorker EXCEPT !.pc = "run"]

\* The records of the workers that are started, and of none.
LEMMA WorkerTypes ==
  /\ NoWorker \in WorkerRecords /\ NoWorker.pc = "none" /\ NoWorker.fails = 0
  /\ Fresh \in WorkerRecords /\ Fresh.pc = "run" /\ Fresh.fails = 0
  /\ ~Fresh.old /\ ~Fresh.stop
<1>1. 0 \in 0..FailureThreshold
  BY Numbers
<1>2. NoWorker \in WorkerRecords /\ NoWorker.pc = "none" /\ NoWorker.fails = 0
      /\ ~NoWorker.old /\ ~NoWorker.stop
  BY <1>1 DEF NoWorker, WorkerRecords, Labels
<1>3. "run" \in Labels
  BY DEF Labels
<1> QED
  BY <1>2, <1>3 DEF Fresh, WorkerRecords

\* A stop signal.
LEMMA Signals ==
  ASSUME NEW w \in WorkerRecords
  PROVE  /\ Stopped(w) \in WorkerRecords /\ Stopped(w).pc = w.pc
         /\ Stopped(w).fails = w.fails /\ Stopped(w).old = w.old
  BY DEF Stopped, WorkerRecords

\* What a collection does to worker and count of key k.
LEMMA StatsFacts ==
  ASSUME ProberTypes, StatsApps, NEW k \in Keys,
         NEW seen, seen = installed \cap Of(eng.ns)
  PROVE  /\ wk'[k] \in WorkerRecords /\ status'[k] \in 0..maxProbeRetries
         /\ k \in workers' <=> k \in workers \/ k \in Added(seen)
         /\ k \in Added(seen) => /\ k \in seen /\ k \notin workers
                                 /\ wk'[k].pc = "run" /\ wk'[k].fails = 0
                                 /\ ~wk'[k].old /\ ~wk'[k].stop
                                 /\ status'[k] = 0
         /\ k \notin Added(seen) => wk'[k].pc = wk[k].pc /\ wk'[k].fails = wk[k].fails
         /\ k \in workers /\ k \in seen => /\ ~wk'[k].old /\ status'[k] = 0
                                           /\ wk'[k].stop = wk[k].stop
         /\ k \in workers /\ k \notin seen =>
              /\ wk'[k].old = wk[k].old /\ status'[k] <= status[k] + 1
              /\ wk'[k].stop = wk[k].stop \/ status'[k] >= maxProbeRetries
         /\ k \notin workers /\ k \notin Added(seen) => wk'[k] = wk[k]
<1> DEFINE new  == Added(seen)
           w0   == [j \in Keys |-> IF j \in new THEN Fresh ELSE wk[j]]
           c0   == [j \in Keys |-> IF j \in new THEN 0 ELSE status[j]]
           ws   == workers \cup new
           n    == [j \in Keys |-> IF j \notin ws THEN c0[j]
                           ELSE IF j \in seen THEN 0
                           ELSE IF c0[j] < maxProbeRetries THEN c0[j] + 1 ELSE c0[j]]
<1>1. /\ workers' = ws /\ status'[k] = n[k]
      /\ wk'[k] = IF k \in ws \ seen /\ n[k] >= maxProbeRetries THEN Stopped(w0[k])
                  ELSE IF k \in ws \cap seen THEN [w0[k] EXCEPT !.old = FALSE]
                  ELSE w0[k]
  BY DEF StatsApps, CleanupApps, CheckAndStart, Fresh
<1>2. /\ wk[k] \in WorkerRecords /\ status[k] \in 0..maxProbeRetries /\ maxProbeRetries \in Nat
  BY Numbers DEF ProberTypes
<1>3. new \subseteq seen /\ new \cap workers = {}
  BY DEF Added
<1>4. k \in workers' <=> k \in workers \/ k \in Added(seen)
  BY <1>1
<1>5. 0 \in 0..maxProbeRetries
  BY <1>2
<1>6. CASE k \in new
  <2>1. /\ w0[k] = Fresh /\ n[k] = 0 /\ k \in ws \cap seen /\ k \notin workers
    BY <1>3, <1>6
  <2>2. wk'[k] = [Fresh EXCEPT !.old = FALSE] /\ Fresh \in WorkerRecords
    BY <1>1, <2>1, WorkerTypes
  <2>3. /\ wk'[k] \in WorkerRecords /\ wk'[k].pc = "run" /\ wk'[k].fails = 0
        /\ ~wk'[k].old /\ ~wk'[k].stop
    BY <2>2, WorkerTypes DEF WorkerRecords
  <2> QED
    BY <1>1, <1>4, <1>5, <1>6, <2>1, <2>3
<1>7. CASE k \notin new /\ k \in workers /\ k \in seen
  <2>1. wk'[k] = [wk[k] EXCEPT !.old = FALSE] /\ status'[k] = 0
    BY <1>1, <1>7
  <2>2. /\ wk'[k] \in WorkerRecords /\ wk'[k].pc = wk[k].pc /\ wk'[k].fails = wk[k].fails
        /\ ~wk'[k].old /\ wk'[k].stop = wk[k].stop
    BY <1>2, <2>1 DEF WorkerRecords
  <2> QED
    BY <1>4, <1>5, <1>7, <2>1, <2>2
<1>8. CASE k \notin new /\ k \in workers /\ k \notin seen
  <2>1. /\ wk'[k] = IF n[k] >= maxProbeRetries THEN Stopped(wk[k]) ELSE wk[k]
        /\ status'[k] = IF status[k] < maxProbeRetries THEN status[k] + 1 ELSE status[k]
    BY <1>1, <1>8
  <2>2. /\ status'[k] \in 0..maxProbeRetries /\ status'[k] <= status[k] + 1
    BY <1>2, <2>1
  <2>3. /\ wk'[k] \in WorkerRecords /\ wk'[k].pc = wk[k].pc /\ wk'[k].fails = wk[k].fails
        /\ wk'[k].old = wk[k].old
    BY <1>2, <2>1, Signals
  <2>4. wk'[k].stop = wk[k].stop \/ status'[k] >= maxProbeRetries
    BY <1>1, <2>1
  <2> QED
    BY <1>4, <1>8, <2>2, <2>3, <2>4
<1>9. CASE k \notin new /\ k \notin workers
  <2>1. wk'[k] = wk[k] /\ status'[k] = status[k]
    BY <1>1, <1>9
  <2> QED
    BY <1>4, <1>2, <1>9, <2>1
<1> QED
  BY <1>6, <1>7, <1>8, <1>9

\* What AddApp does to worker and count of key k.
LEMMA AddFacts ==
  ASSUME ProberTypes, NEW S \in SUBSET Keys, AddApps(S), NEW k \in Keys
  PROVE  /\ wk'[k] \in WorkerRecords /\ status'[k] \in 0..maxProbeRetries
         /\ k \in workers' <=> k \in workers \/ k \in Added(S)
         /\ k \in Added(S) => /\ k \in S /\ k \notin workers
                              /\ wk'[k].pc = "run" /\ wk'[k].fails = 0
                              /\ ~wk'[k].old /\ ~wk'[k].stop
                              /\ status'[k] = 0
         /\ k \notin Added(S) => wk'[k] = wk[k] /\ status'[k] = status[k]
<1>1. /\ workers' = workers \cup Added(S)
      /\ wk'[k] = IF k \in Added(S) THEN Fresh ELSE wk[k]
      /\ status'[k] = IF k \in Added(S) THEN 0 ELSE status[k]
  BY DEF AddApps, Fresh
<1>2. wk[k] \in WorkerRecords /\ status[k] \in 0..maxProbeRetries /\ maxProbeRetries \in Nat
  BY Numbers DEF ProberTypes
<1>3. k \in Added(S) => k \in S /\ k \notin workers
  BY DEF Added
<1> QED
  BY <1>1, <1>2, <1>3, WorkerTypes

-----------------------------------------------------------------------------
(* Types.                                                                  *)

\* Steps in which workers are added.
LEMMA AddTypes ==
  ASSUME ProberTypes, StatsApps \/ StatsAppsFails \/ \E k \in Keys : InstallService(k)
  PROVE  /\ status' \in [Keys -> 0..maxProbeRetries] /\ wk' \in [Keys -> WorkerRecords]
         /\ workers' = {k \in Keys : wk'[k].pc # "none"}
<1>1. \A k \in Keys : /\ wk'[k] \in WorkerRecords /\ status'[k] \in 0..maxProbeRetries
                      /\ k \in workers' <=> wk'[k].pc # "none"
  <2>1. \A k \in Keys : k \in workers <=> wk[k].pc # "none"
    BY DEF ProberTypes
  <2>2. ASSUME NEW k \in Keys, StatsApps
        PROVE  /\ wk'[k] \in WorkerRecords /\ status'[k] \in 0..maxProbeRetries
               /\ k \in workers' <=> wk'[k].pc # "none"
    BY <2>1, <2>2, StatsFacts
  <2>3. ASSUME NEW k \in Keys, NEW S \in SUBSET Keys, AddApps(S)
        PROVE  /\ wk'[k] \in WorkerRecords /\ status'[k] \in 0..maxProbeRetries
               /\ k \in workers' <=> wk'[k].pc # "none"
    BY <2>1, <2>3, AddFacts
  <2>4. StatsApps \/ \E S \in SUBSET Keys : AddApps(S)
    <3>1. \A S \in SUBSET (installed \cap Of(eng.ns)) : S \in SUBSET Keys
      BY DEF ProberTypes
    <3> QED
      BY <3>1 DEF StatsAppsFails, InstallService
  <2> QED
    BY <2>2, <2>3, <2>4
<1>2. /\ wk' = [k \in Keys |-> wk'[k]] /\ status' = [k \in Keys |-> status'[k]]
  BY DEF StatsApps, StatsAppsFails, InstallService, AddApps, CleanupApps
<1>3. workers' \subseteq Keys
  BY DEF StatsApps, StatsAppsFails, InstallService, AddApps, Added, CheckAndStart, ProberTypes
<1> QED
  BY <1>1, <1>2, <1>3

\* A worker goes on with record w.
LEMMA WorkerMoves ==
  ASSUME ProberTypes, NEW k \in workers, NEW w \in WorkerRecords, w.pc # "none",
         wk' = [wk EXCEPT ![k] = w], UNCHANGED workers
  PROVE  /\ wk' \in [Keys -> WorkerRecords] /\ workers' = {j \in Keys : wk'[j].pc # "none"}
         /\ wk'[k] = w /\ \A j \in Keys \ {k} : wk'[j] = wk[j]
<1>1. wk \in [Keys -> WorkerRecords] /\ workers = {j \in Keys : wk[j].pc # "none"} /\ k \in Keys
  BY DEF ProberTypes
<1>2. wk' \in [Keys -> WorkerRecords] /\ wk'[k] = w /\ \A j \in Keys \ {k} : wk'[j] = wk[j]
  BY <1>1
<1> QED
  BY <1>1, <1>2

\* The steps of a worker, short of its end.
Moves(k) == \/ Run(k) \/ CheckStatus(k) \/ ProbeOnce(k) \/ Restart(k)
            \/ ProbeTick(k) \/ TakeStop(k)

\* The worker of k goes on as it is, or has taken the signal.
GoesOn(k) == \E w \in WorkerRecords : /\ wk' = [wk EXCEPT ![k] = w] /\ w.pc # "none"
                                      /\ w.old = wk[k].old /\ (w.stop => wk[k].stop)

\* What a step of the worker of k does to its record.
LEMMA MoveFacts ==
  ASSUME ProberTypes, NEW k \in Keys, Moves(k)
  PROVE  /\ k \in workers
         /\ UNCHANGED <<installed, workers, status, eng, missed, deploys, faults>>
         /\ GoesOn(k)
<1>1. wk[k] \in WorkerRecords /\ 0 \in 0..FailureThreshold
  BY Numbers DEF ProberTypes
<1>2. k \in workers
  BY DEF ProberTypes, Moves, Run, CheckStatus, ProbeOnce, Restart, ProbeTick, TakeStop, WorkerAt
<1>3. UNCHANGED <<installed, workers, status, eng, missed, deploys, faults>>
  BY DEF Moves, Run, CheckStatus, ProbeOnce, Restart, ProbeTick, TakeStop, Worker
<1>4. ASSUME NEW l \in Labels \ {"none"}
      PROVE  /\ [wk[k] EXCEPT !.pc = l] \in WorkerRecords
             /\ [wk[k] EXCEPT !.pc = l].pc = l
             /\ [wk[k] EXCEPT !.pc = l].old = wk[k].old
             /\ [wk[k] EXCEPT !.pc = l].stop = wk[k].stop
  BY <1>1 DEF WorkerRecords
<1>5. ASSUME NEW l \in Labels \ {"none"}, wk' = [wk EXCEPT ![k] = [wk[k] EXCEPT !.pc = l]]
      PROVE  GoesOn(k)
  BY <1>4, <1>5 DEF GoesOn
<1>6. {"run", "status", "probe", "restart", "wait", "exit"} \subseteq Labels \ {"none"}
  BY DEF Labels
<1>7. ASSUME Run(k) \/ ProbeTick(k) PROVE GoesOn(k)
  BY <1>5, <1>6, <1>7 DEF Run, ProbeTick, Worker
<1>8. ASSUME CheckStatus(k) PROVE GoesOn(k)
  <2>1. PICK l : l = CASE proc[k] = "stopped" -> "exit"
                       [] proc[k] = "running" -> "probe"
                       [] OTHER -> "wait"
    OBVIOUS
  <2>2. l \in Labels \ {"none"}
    BY <1>6, <2>1
  <2>3. wk' = [wk EXCEPT ![k] = [wk[k] EXCEPT !.pc = l]]
    BY <1>8, <2>1 DEF CheckStatus, Worker
  <2> QED
    BY <1>5, <2>2, <2>3
<1>9. ASSUME ProbeOnce(k) PROVE GoesOn(k)
  <2>1. ASSUME NEW n \in 0..FailureThreshold,
               wk' = [wk EXCEPT ![k] = [wk[k] EXCEPT !.pc = "wait", !.fails = n]]
        PROVE  GoesOn(k)
    <3>1. PICK w : w = [wk[k] EXCEPT !.pc = "wait", !.fails = n]
      OBVIOUS
    <3>2. w \in WorkerRecords /\ w.pc = "wait" /\ w.old = wk[k].old /\ w.stop = wk[k].stop
      BY <1>1, <1>6, <3>1 DEF WorkerRecords
    <3> QED
      BY <2>1, <3>1, <3>2 DEF GoesOn
  <2>2. PICK n : n = IF ~(healthy[k] /\ proc[k] = "running") THEN wk[k].fails + 1 ELSE 0
    OBVIOUS
  <2>3. n < FailureThreshold => n \in 0..FailureThreshold
    BY <1>1, <2>2, Numbers DEF WorkerRecords
  <2>4. n \in Nat /\ FailureThreshold \in Nat
    BY <1>1, <2>2, Numbers DEF WorkerRecords
  <2>5. \/ wk' = [wk EXCEPT ![k] = [wk[k] EXCEPT !.pc = "wait"]]
        \/ wk' = [wk EXCEPT ![k] = [wk[k] EXCEPT !.pc = "restart"]]
        \/ ~(n >= FailureThreshold) /\ wk' = [wk EXCEPT ![k] = [wk[k] EXCEPT !.pc = "wait", !.fails = n]]
    <3>1. PICK x : x = CASE Handler[k] = "tcp" -> [wk[k] EXCEPT !.pc = "wait"]
                         [] n >= FailureThreshold -> [wk[k] EXCEPT !.pc = "restart"]
                         [] OTHER -> [wk[k] EXCEPT !.pc = "wait", !.fails = n]
      OBVIOUS
    <3>2. wk' = [wk EXCEPT ![k] = x]
      BY <1>9, <2>2, <3>1 DEF ProbeOnce, Worker
    <3>3. \/ x = [wk[k] EXCEPT !.pc = "wait"]
          \/ x = [wk[k] EXCEPT !.pc = "restart"]
          \/ ~(n >= FailureThreshold) /\ x = [wk[k] EXCEPT !.pc = "wait", !.fails = n]
      BY <3>1
    <3> QED
      BY <3>2, <3>3
  <2>6. n < FailureThreshold \/ n >= FailureThreshold
    BY <2>4
  <2>7. CASE wk' = [wk EXCEPT ![k] = [wk[k] EXCEPT !.pc = "wait"]]
    BY <1>5, <1>6, <2>7
  <2>8. CASE wk' = [wk EXCEPT ![k] = [wk[k] EXCEPT !.pc = "restart"]]
    BY <1>5, <1>6, <2>8
  <2> QED
    BY <2>1, <2>3, <2>5, <2>6, <2>7, <2>8
<1>10. ASSUME Restart(k) PROVE GoesOn(k)
  <2>1. PICK w : w = [wk[k] EXCEPT !.pc = "wait", !.fails = 0]
    OBVIOUS
  <2>2. w \in WorkerRecords /\ w.pc = "wait" /\ w.old = wk[k].old /\ w.stop = wk[k].stop
    BY <1>1, <1>6, <2>1 DEF WorkerRecords
  <2>3. wk' = [wk EXCEPT ![k] = w]
    BY <1>10, <2>1 DEF Restart
  <2> QED
    BY <2>2, <2>3 DEF GoesOn
<1>11. ASSUME TakeStop(k) PROVE GoesOn(k)
  <2>1. PICK w : w = [wk[k] EXCEPT !.pc = "exit", !.stop = FALSE]
    OBVIOUS
  <2>2. w \in WorkerRecords /\ w.pc = "exit" /\ w.old = wk[k].old /\ ~w.stop
    BY <1>1, <1>6, <2>1 DEF WorkerRecords
  <2>3. wk' = [wk EXCEPT ![k] = w]
    BY <1>11, <2>1 DEF TakeStop, Worker
  <2> QED
    BY <2>2, <2>3 DEF GoesOn
<1>12. GoesOn(k)
  BY <1>7, <1>8, <1>9, <1>10, <1>11 DEF Moves
<1> QED
  BY <1>2, <1>3, <1>12

\* The records of the workers after such a step.
LEMMA MoveTypes ==
  ASSUME ProberTypes, NEW k \in Keys, Moves(k)
  PROVE  /\ wk' \in [Keys -> WorkerRecords] /\ workers' = {j \in Keys : wk'[j].pc # "none"}
         /\ wk'[k].old = wk[k].old /\ (wk'[k].stop => wk[k].stop)
         /\ \A j \in Keys \ {k} : wk'[j] = wk[j]
<1>1. PICK w \in WorkerRecords : /\ wk' = [wk EXCEPT ![k] = w] /\ w.pc # "none"
                                 /\ w.old = wk[k].old /\ (w.stop => wk[k].stop)
  BY MoveFacts DEF GoesOn
<1>2. k \in workers /\ UNCHANGED workers
  BY MoveFacts
<1>3. /\ wk' \in [Keys -> WorkerRecords] /\ workers' = {j \in Keys : wk'[j].pc # "none"}
      /\ wk'[k] = w /\ \A j \in Keys \ {k} : wk'[j] = wk[j]
  BY <1>1, <1>2, WorkerMoves
<1> QED
  BY <1>1, <1>3

\* The engine begins to delete.
LEMMA StartFacts ==
  ASSUME ProberTypes, NEW k \in Keys, NEW l \in {"delete", "deleteOld"}, StartDeploy(k, l)
  PROVE  /\ eng' \in Engine /\ eng'.pc = l /\ eng'.ns = eng.ns /\ eng'.key = {k}
         /\ eng'.dirs = {d \in installed : NameOf[d] = NameOf[k]}
         /\ deploys > 0 /\ deploys' = deploys - 1 /\ eng.pc = "apply"
<1>1. eng \in Engine /\ Dirs(k) \in SUBSET Keys /\ {k} \in SUBSET Keys
  BY DEF ProberTypes, Dirs
<1>2. eng.done \cup {NameOf[k]} \in SUBSET {NameOf[j] : j \in Keys}
  BY <1>1 DEF Engine
<1>3. l \in {"stats", "apply"} \cup InCall
  BY DEF InCall
<1>4. eng' = [eng EXCEPT !.pc = l, !.key = {k}, !.dirs = Dirs(k), !.done = eng.done \cup {NameOf[k]}]
  BY DEF StartDeploy
<1>5. /\ eng' \in Engine /\ eng'.pc = l /\ eng'.ns = eng.ns /\ eng'.key = {k}
      /\ eng'.dirs = Dirs(k)
  BY <1>1, <1>2, <1>3, <1>4 DEF Engine
<1> QED
  BY <1>5 DEF StartDeploy, EngineAt, Dirs

\* The engine goes through one directory.
LEMMA StopFacts ==
  ASSUME ProberTypes, NEW k \in Keys, NEW d \in Keys, StopService(k, d)
  PROVE  /\ eng' \in Engine /\ eng'.ns = eng.ns /\ eng'.key = eng.key /\ eng'.dirs = {d}
         /\ eng.pc \in {"delete", "deleteOld"} /\ eng'.pc \in {"uninstall", "uninstallOld"}
<1>1. eng \in Engine /\ {d} \in SUBSET Keys
  BY DEF ProberTypes
<1>2. PICK l : l = IF eng.pc = "delete" THEN "uninstall" ELSE "uninstallOld"
  OBVIOUS
<1>3. l \in {"uninstall", "uninstallOld"} /\ l \in {"stats", "apply"} \cup InCall
  BY <1>2 DEF InCall
<1>4. eng' = [eng EXCEPT !.dirs = {d}, !.pc = l]
  BY <1>2 DEF StopService
<1>5. /\ eng' \in Engine /\ eng'.ns = eng.ns /\ eng'.key = eng.key /\ eng'.dirs = {d} /\ eng'.pc = l
  BY <1>1, <1>3, <1>4 DEF Engine
<1> QED
  BY <1>3, <1>5 DEF StopService, InDelete, EngineAt

\* And on to the next.
LEMMA UninstallFacts ==
  ASSUME ProberTypes, NEW d \in Keys, Uninstall(d)
  PROVE  /\ eng' \in Engine /\ eng'.ns = eng.ns /\ eng'.key = eng.key
         /\ eng'.dirs = {e \in installed' : \E k \in eng.key : NameOf[e] = NameOf[k]}
         /\ eng.pc \in {"uninstall", "uninstallOld"} /\ eng'.pc \in {"delete", "deleteOld"}
<1>1. PICK D : D = {e \in installed \ {d} : \E k \in eng.key : NameOf[e] = NameOf[k]}
  OBVIOUS
<1>2. eng \in Engine /\ D \in SUBSET Keys
  BY <1>1 DEF ProberTypes
<1>3. PICK l : l = IF eng.pc = "uninstall" THEN "delete" ELSE "deleteOld"
  OBVIOUS
<1>4. l \in {"delete", "deleteOld"} /\ l \in {"stats", "apply"} \cup InCall
  BY <1>3 DEF InCall
<1>5. eng' = [eng EXCEPT !.pc = l, !.dirs = D]
  BY <1>1, <1>3 DEF Uninstall
<1>6. /\ eng' \in Engine /\ eng'.ns = eng.ns /\ eng'.key = eng.key /\ eng'.dirs = D /\ eng'.pc = l
  BY <1>2, <1>4, <1>5 DEF Engine
<1> QED
  BY <1>1, <1>4, <1>6 DEF Uninstall, EngineAt

\* The call ends, or a collection.
LEMMA ApplyFacts ==
  ASSUME ProberTypes,
         StatsApps \/ StatsAppsFails \/ DeleteDone \/ \E k \in Keys : InstallService(k)
  PROVE  eng' \in Engine /\ eng'.ns = eng.ns /\ eng'.pc = "apply"
<1>1. eng \in Engine /\ {} \in SUBSET Keys /\ "apply" \in {"stats", "apply"} \cup InCall
  BY DEF ProberTypes
<1>2. eng' = [eng EXCEPT !.pc = "apply"] \/ eng' = [eng EXCEPT !.pc = "apply", !.key = {}]
  BY DEF StatsApps, StatsAppsFails, DeleteDone, InstallService
<1>3. CASE eng' = [eng EXCEPT !.pc = "apply"]
  BY <1>1, <1>3 DEF Engine
<1>4. CASE eng' = [eng EXCEPT !.pc = "apply", !.key = {}]
  BY <1>1, <1>4 DEF Engine
<1> QED
  BY <1>2, <1>3, <1>4

\* A collection begins.
LEMMA CollectingTypes ==
  ASSUME NEW ns \in Namespaces
  PROVE  /\ Collecting(ns) \in Engine /\ Collecting(ns).pc = "stats" /\ Collecting(ns).ns = ns
         /\ Collecting(ns).dirs = {}
  BY DEF Collecting, Engine

\* The actions, as the proofs take them.
LEMMA Actions ==
  ASSUME Next
  PROVE  \/ StatsApps \/ StatsAppsFails \/ CoreRestart \/ NextNamespace \/ DeleteDone
         \/ \E k \in Keys : \/ Moves(k) \/ removeWorker(k) \/ InstallService(k) \/ Uninstall(k)
                            \/ ProcessFails(k) \/ ServiceRestarts(k)
                            \/ \E l \in {"delete", "deleteOld"} : StartDeploy(k, l)
                            \/ \E d \in Keys : StopService(k, d)
  BY DEF Next, EngineStep, WorkerStep, Moves

\* The types are kept.
LEMMA TypesStep ==
  ASSUME ProberTypes, [Next]_vars
  PROVE  ProberTypes'
<1>1. CASE UNCHANGED vars
  BY <1>1 DEF vars, ProberTypes
<1>2. CASE StatsApps \/ StatsAppsFails \/ \E k \in Keys : InstallService(k)
  <2>1. /\ status' \in [Keys -> 0..maxProbeRetries] /\ wk' \in [Keys -> WorkerRecords]
        /\ workers' = {k \in Keys : wk'[k].pc # "none"} /\ eng' \in Engine
    BY <1>2, AddTypes, ApplyFacts
  <2>2. eng.ns \in Namespaces /\ missed \in [Namespaces -> Nat]
    BY DEF ProberTypes, Engine
  <2>3. missed' \in [Namespaces -> Nat]
    <3>1. \/ missed' = missed \/ missed' = [missed EXCEPT ![eng.ns] = 0]
          \/ missed' = [missed EXCEPT ![eng.ns] = missed[eng.ns] + 1]
      BY <1>2 DEF StatsApps, StatsAppsFails, InstallService
    <3>2. missed[eng.ns] + 1 \in Nat /\ 0 \in Nat
      BY <2>2
    <3> QED
      BY <2>2, <3>1, <3>2
  <2>4. /\ installed' \subseteq Keys /\ proc' \in [Keys -> Procs] /\ healthy' \in [Keys -> BOOLEAN]
    BY <1>2 DEF ProberTypes, StatsApps, StatsAppsFails, InstallService, Procs
  <2>5. /\ crashed' \in BOOLEAN /\ deploys' \in 0..MaxDeploys /\ faults' \in 0..MaxFaults
    <3>1. /\ UNCHANGED <<crashed, deploys>>
          /\ (UNCHANGED faults \/ (faults > 0 /\ faults' = faults - 1))
      BY <1>2 DEF StatsApps, StatsAppsFails, InstallService
    <3>2. faults' \in 0..MaxFaults
      BY <3>1, Numbers DEF ProberTypes
    <3> QED
      BY <3>1, <3>2 DEF ProberTypes
  <2> QED
    BY <2>1, <2>3, <2>4, <2>5 DEF ProberTypes
<1>3. CASE CoreRestart
  <2>1. /\ "sys" \in Namespaces /\ 0 \in 0..maxProbeRetries
    BY Numbers DEF Namespaces
  <2>2. /\ status' \in [Keys -> 0..maxProbeRetries] /\ wk' \in [Keys -> WorkerRecords]
        /\ workers' = {k \in Keys : wk'[k].pc # "none"} /\ eng' \in Engine
        /\ missed' \in [Namespaces -> Nat]
    BY <1>3, <2>1, WorkerTypes, CollectingTypes DEF CoreRestart
  <2>3. /\ crashed' \in BOOLEAN /\ deploys' \in 0..MaxDeploys /\ faults' \in 0..MaxFaults
    <3>1. ~crashed' /\ UNCHANGED deploys /\ faults > 0 /\ faults' = faults - 1 /\ crashed' \in BOOLEAN
      BY <1>3 DEF CoreRestart
    <3>2. faults' \in 0..MaxFaults
      BY <3>1, Numbers DEF ProberTypes
    <3> QED
      BY <3>1, <3>2 DEF ProberTypes
  <2>4. installed' \subseteq Keys /\ proc' \in [Keys -> Procs] /\ healthy' \in [Keys -> BOOLEAN]
    BY <1>3 DEF ProberTypes, CoreRestart
  <2> QED
    BY <2>2, <2>3, <2>4 DEF ProberTypes
<1>4. CASE NextNamespace
  <2>1. Other(eng.ns) \in Namespaces
    BY DEF ProberTypes, Engine, Other, Namespaces
  <2>2. eng' \in Engine
    BY <1>4, <2>1, CollectingTypes DEF NextNamespace
  <2> QED
    BY <1>4, <2>2 DEF ProberTypes, NextNamespace
<1>5. CASE DeleteDone
  <2>1. eng' \in Engine
    BY <1>5, ApplyFacts
  <2> QED
    BY <1>5, <2>1 DEF ProberTypes, DeleteDone
<1>6. ASSUME NEW k \in Keys, Moves(k) PROVE ProberTypes'
  <2>1. wk' \in [Keys -> WorkerRecords] /\ workers' = {j \in Keys : wk'[j].pc # "none"}
    BY <1>6, MoveTypes
  <2>2. UNCHANGED <<installed, workers, status, eng, missed, deploys, faults>>
    BY <1>6, MoveFacts
  <2>3. crashed' \in BOOLEAN
    BY <1>6 DEF ProberTypes, Moves, Run, CheckStatus, ProbeOnce, Restart, ProbeTick, TakeStop
  <2>4. proc' \in [Keys -> Procs]
    BY <1>6 DEF ProberTypes, Moves, Run, CheckStatus, ProbeOnce, Restart, ProbeTick, TakeStop, Procs
  <2>5. healthy' \in [Keys -> BOOLEAN]
    <3>1. healthy' = healthy \/ healthy' = [healthy EXCEPT ![k] = healthy[k] \/ k \in installed]
      BY <1>6 DEF Moves, Run, CheckStatus, ProbeOnce, Restart, ProbeTick, TakeStop, Worker
    <3>2. healthy \in [Keys -> BOOLEAN] /\ (healthy[k] \/ k \in installed) \in BOOLEAN
      BY DEF ProberTypes
    <3> QED
      BY <3>1, <3>2
  <2> QED
    BY <2>1, <2>2, <2>3, <2>4, <2>5 DEF ProberTypes
<1>7. ASSUME NEW k \in Keys, removeWorker(k) PROVE ProberTypes'
  <2>1. 0 \in 0..maxProbeRetries
    BY Numbers
  <2>2. /\ wk' \in [Keys -> WorkerRecords] /\ status' \in [Keys -> 0..maxProbeRetries]
        /\ workers' = {j \in Keys : wk'[j].pc # "none"}
    BY <1>7, <2>1, WorkerTypes DEF ProberTypes, removeWorker
  <2> QED
    BY <1>7, <2>2 DEF ProberTypes, removeWorker
<1>8. ASSUME NEW d \in Keys, Uninstall(d) PROVE ProberTypes'
  <2>1. eng' \in Engine
    BY <1>8, UninstallFacts
  <2>2. PICK w : w = [wk[d] EXCEPT !.old = (d \in workers)]
    OBVIOUS
  <2>3. w \in WorkerRecords /\ w.pc = wk[d].pc /\ wk' = [wk EXCEPT ![d] = w]
    <3>1. wk[d] \in WorkerRecords /\ (d \in workers) \in BOOLEAN
      BY DEF ProberTypes
    <3>2. w \in WorkerRecords /\ w.pc = wk[d].pc
      BY <2>2, <3>1 DEF WorkerRecords
    <3>3. wk' = [wk EXCEPT ![d] = w]
      BY <1>8, <2>2 DEF Uninstall
    <3> QED
      BY <3>2, <3>3
  <2>4. wk' \in [Keys -> WorkerRecords] /\ workers' = {j \in Keys : wk'[j].pc # "none"}
    BY <1>8, <2>3 DEF ProberTypes, Uninstall
  <2>5. proc' \in [Keys -> Procs] /\ installed' \subseteq Keys
    BY <1>8 DEF ProberTypes, Uninstall, Procs
  <2> QED
    BY <1>8, <2>1, <2>4, <2>5 DEF ProberTypes, Uninstall
<1>9. ASSUME NEW k \in Keys, NEW d \in Keys, StopService(k, d) PROVE ProberTypes'
  <2>1. eng' \in Engine
    BY <1>9, StopFacts
  <2>2. Stopped(wk[k]) \in WorkerRecords /\ Stopped(wk[k]).pc = wk[k].pc
    BY Signals DEF ProberTypes
  <2>3. wk' \in [Keys -> WorkerRecords] /\ workers' = {j \in Keys : wk'[j].pc # "none"}
    BY <1>9, <2>2 DEF ProberTypes, StopService, RemoveApp
  <2>4. proc' \in [Keys -> Procs]
    BY <1>9 DEF ProberTypes, StopService, Procs
  <2> QED
    BY <1>9, <2>1, <2>3, <2>4 DEF ProberTypes, StopService
<1>10. ASSUME NEW k \in Keys, NEW l \in {"delete", "deleteOld"}, StartDeploy(k, l)
       PROVE  ProberTypes'
  <2>1. eng' \in Engine /\ deploys > 0 /\ deploys' = deploys - 1
    BY <1>10, StartFacts
  <2>2. deploys' \in 0..MaxDeploys
    BY <2>1, Numbers DEF ProberTypes
  <2> QED
    BY <1>10, <2>1, <2>2 DEF ProberTypes, StartDeploy
<1>11. ASSUME NEW k \in Keys, ProcessFails(k) \/ ServiceRestarts(k) PROVE ProberTypes'
  <2>1. faults' \in 0..MaxFaults
    BY <1>11, Numbers DEF ProberTypes, ProcessFails, ServiceRestarts
  <2>2. proc' \in [Keys -> Procs] /\ healthy' \in [Keys -> BOOLEAN]
    BY <1>11 DEF ProberTypes, ProcessFails, ServiceRestarts, Procs
  <2> QED
    BY <1>11, <2>1, <2>2 DEF ProberTypes, ProcessFails, ServiceRestarts
<1> QED
  BY <1>1, <1>2, <1>3, <1>4, <1>5, <1>6, <1>7, <1>8, <1>9, <1>10, <1>11, Actions

-----------------------------------------------------------------------------
(* The counts.                                                             *)

\* A step that does nothing to the key keeps its count.
LEMMA CountFrame ==
  ASSUME NEW k \in Keys, CountOK(k), k \in workers' => k \in workers,
         k \in installed => k \in installed', k \in workers' => wk'[k].old = wk[k].old,
         k \in workers' => status'[k] = status[k],
         UNCHANGED missed, Ahead(k)' = Ahead(k)
  PROVE  CountOK(k)'
  BY DEF CountOK

\* Steps of the engine outside a collection.
LEMMA AheadFrame ==
  ASSUME ProberTypes, NEW k \in Keys,
         \/ UNCHANGED eng
         \/ NextNamespace
         \/ eng'.ns = eng.ns /\ eng.pc # "stats" /\ eng'.pc # "stats"
  PROVE  Ahead(k)' = Ahead(k)
<1>1. eng.ns \in Namespaces
  BY DEF ProberTypes, Engine
<1>2. CASE NextNamespace
  <2>1. eng'.ns = Other(eng.ns) /\ eng'.pc = "stats" /\ eng.pc = "apply"
    BY <1>2 DEF NextNamespace, Collecting, EngineAt
  <2> QED
    BY <1>1, <2>1, NamespaceOf DEF Ahead
<1> QED
  BY <1>2 DEF Ahead

\* A collection: what it does not see belongs to the other namespace, or to
\* no installation.
LEMMA StatsCount ==
  ASSUME ProberTypes, NEW k \in Keys, CountOK(k), StatsApps
  PROVE  CountOK(k)'
<1>1. PICK seen : seen = installed \cap Of(eng.ns)
  OBVIOUS
<1>2. eng.ns \in Namespaces /\ missed \in [Namespaces -> Nat] /\ status[k] \in 0..maxProbeRetries
  BY DEF ProberTypes, Engine
<1>3. /\ eng'.ns = eng.ns /\ eng'.pc = "apply" /\ eng.pc = "stats"
      /\ installed' = installed /\ missed' = [missed EXCEPT ![eng.ns] = 0]
  BY ApplyFacts DEF StatsApps, EngineAt
<1>4. missed'[NsOf(k)] \in Nat /\ (NsOf(k) # eng.ns => missed'[NsOf(k)] = missed[NsOf(k)])
  BY <1>2, <1>3, NamespaceOf
<1>5. CASE k \in seen
  <2>1. k \in workers' => ~wk'[k].old /\ status'[k] = 0
    BY <1>1, <1>5, StatsFacts
  <2> QED
    BY <1>1, <1>3, <1>4, <1>5, <2>1 DEF CountOK
<1>6. CASE k \notin seen
  <2>1. k \in workers' => /\ k \in workers /\ wk'[k].old = wk[k].old
                          /\ status'[k] <= status[k] + 1 /\ status'[k] \in 0..maxProbeRetries
    BY <1>1, <1>6, StatsFacts
  <2>2. CASE NsOf(k) = eng.ns
    <3>1. k \notin installed
      BY <1>1, <1>6, <2>2, NamespaceOf
    <3> QED
      BY <1>3, <2>1, <3>1 DEF CountOK
  <2>3. CASE NsOf(k) # eng.ns
    <3>1. ~Ahead(k) /\ Ahead(k)'
      BY <1>3, <2>3 DEF Ahead, NsOf
    <3>2. k \in workers /\ ~wk[k].old => status[k] <= missed[NsOf(k)]
      BY <1>2, <3>1, NamespaceOf DEF CountOK
    <3>3. k \in workers' /\ ~wk'[k].old => status'[k] <= missed'[NsOf(k)] + 1
      BY <1>2, <1>4, <2>1, <2>3, <3>2, Numbers, NamespaceOf
    <3>4. (k \in workers' /\ k \notin installed') => wk'[k].old
      BY <1>3, <2>1 DEF CountOK
    <3> QED
      BY <3>1, <3>3, <3>4 DEF CountOK, NsOf
  <2> QED
    BY <2>2, <2>3
<1> QED
  BY <1>5, <1>6

\* A collection that fails is counted.
LEMMA FailsCount ==
  ASSUME ProberTypes, NEW k \in Keys, CountOK(k), StatsAppsFails
  PROVE  CountOK(k)'
<1>1. eng.ns \in Namespaces /\ missed \in [Namespaces -> Nat] /\ status[k] \in 0..maxProbeRetries
  BY DEF ProberTypes, Engine
<1>2. /\ eng'.ns = eng.ns /\ eng'.pc = "apply" /\ eng.pc = "stats"
      /\ installed' = installed /\ missed' = [missed EXCEPT ![eng.ns] = missed[eng.ns] + 1]
  BY ApplyFacts DEF StatsAppsFails, EngineAt
<1>3. /\ missed'[NsOf(k)] \in Nat /\ missed[NsOf(k)] \in Nat
      /\ (NsOf(k) # eng.ns => missed'[NsOf(k)] = missed[NsOf(k)])
      /\ (NsOf(k) = eng.ns => missed'[NsOf(k)] = missed[NsOf(k)] + 1)
  BY <1>1, <1>2, NamespaceOf
<1>4. PICK S \in SUBSET Keys : AddApps(S) /\ S \subseteq installed
  BY DEF StatsAppsFails, ProberTypes
<1>5. CASE k \in Added(S)
  <2>1. ~wk'[k].old /\ status'[k] = 0 /\ k \in installed
    BY <1>4, <1>5, AddFacts
  <2> QED
    BY <1>2, <1>3, <2>1 DEF CountOK
<1>6. CASE k \notin Added(S)
  <2>1. /\ wk'[k] = wk[k] /\ status'[k] = status[k] /\ (k \in workers' <=> k \in workers)
    BY <1>4, <1>6, AddFacts
  <2>2. (Ahead(k) <=> NsOf(k) = eng.ns) /\ (Ahead(k)' <=> NsOf(k) # eng.ns)
    BY <1>2 DEF Ahead, NsOf
  <2>3. k \in workers /\ ~wk[k].old => status[k] <= missed[NsOf(k)] + (IF Ahead(k) THEN 1 ELSE 0)
    BY DEF CountOK
  <2>4. k \in workers' /\ ~wk'[k].old => status'[k] <= missed'[NsOf(k)] + (IF Ahead(k)' THEN 1 ELSE 0)
    BY <1>1, <1>3, <2>1, <2>2, <2>3, Numbers
  <2>5. (k \in workers' /\ k \notin installed') => wk'[k].old
    BY <1>2, <2>1 DEF CountOK
  <2> QED
    BY <2>4, <2>5 DEF CountOK, NsOf
<1> QED
  BY <1>5, <1>6

\* The counts are kept.
LEMMA CountStep ==
  ASSUME ProberTypes, [Next]_vars, NEW k \in Keys, CountOK(k)
  PROVE  CountOK(k)'
<1>1. CASE UNCHANGED vars
  BY <1>1 DEF vars, CountOK, Ahead
<1>2. CASE StatsApps
  BY <1>2, StatsCount
<1>3. CASE StatsAppsFails
  BY <1>3, FailsCount
<1>4. CASE CoreRestart
  BY <1>4 DEF CoreRestart, CountOK
<1>5. CASE NextNamespace
  <2>1. Ahead(k)' = Ahead(k)
    BY <1>5, AheadFrame
  <2> QED
    BY <1>5, <2>1, CountFrame DEF NextNamespace
<1>6. CASE DeleteDone
  <2>1. eng'.ns = eng.ns /\ eng.pc # "stats" /\ eng'.pc # "stats"
    BY <1>6, ApplyFacts DEF DeleteDone, EngineAt
  <2>2. Ahead(k)' = Ahead(k)
    BY <2>1, AheadFrame
  <2> QED
    BY <1>6, <2>2, CountFrame DEF DeleteDone
<1>7. ASSUME NEW j \in Keys, Moves(j) PROVE CountOK(k)'
  <2>1. /\ UNCHANGED <<installed, workers, status, eng, missed>>
    BY <1>7, MoveFacts
  <2>2. wk'[k].old = wk[k].old
    BY <1>7, MoveTypes
  <2>3. Ahead(k)' = Ahead(k)
    BY <2>1, AheadFrame
  <2> QED
    BY <2>1, <2>2, <2>3, CountFrame
<1>8. ASSUME NEW j \in Keys, removeWorker(j) PROVE CountOK(k)'
  <2>1. /\ UNCHANGED <<installed, eng, missed>> /\ workers' = workers \ {j}
        /\ (k # j => wk'[k] = wk[k] /\ status'[k] = status[k])
    BY <1>8 DEF removeWorker, ProberTypes
  <2>2. Ahead(k)' = Ahead(k)
    BY <2>1, AheadFrame
  <2> QED
    BY <2>1, <2>2, CountFrame
<1>9. ASSUME NEW j \in Keys, InstallService(j) PROVE CountOK(k)'
  <2>1. /\ eng'.ns = eng.ns /\ eng.pc # "stats" /\ eng'.pc # "stats"
        /\ installed' = installed \cup {j} /\ UNCHANGED missed /\ AddApps({j})
    BY <1>9, ApplyFacts DEF InstallService, EngineAt
  <2>2. Ahead(k)' = Ahead(k)
    BY <2>1, AheadFrame
  <2>3. CASE k \in Added({j})
    <3>1. ~wk'[k].old /\ status'[k] = 0 /\ k = j
      BY <2>1, <2>3, AddFacts
    <3>2. missed'[NsOf(k)] \in Nat
      BY <2>1, NamespaceOf DEF ProberTypes
    <3> QED
      BY <2>1, <3>1, <3>2 DEF CountOK
  <2>4. CASE k \notin Added({j})
    <3>1. /\ wk'[k] = wk[k] /\ status'[k] = status[k] /\ (k \in workers' <=> k \in workers)
      BY <2>1, <2>4, AddFacts
    <3> QED
      BY <2>1, <2>2, <3>1, CountFrame
  <2> QED
    BY <2>3, <2>4
<1>10. ASSUME NEW d \in Keys, Uninstall(d) PROVE CountOK(k)'
  <2>1. /\ eng'.ns = eng.ns /\ eng.pc # "stats" /\ eng'.pc # "stats"
        /\ installed' = installed \ {d} /\ UNCHANGED <<missed, workers, status>>
    BY <1>10, UninstallFacts DEF Uninstall
  <2>2. Ahead(k)' = Ahead(k)
    BY <2>1, AheadFrame
  <2>3. CASE k = d
    <3>1. k \in workers => wk'[k].old
      BY <1>10, <2>3 DEF Uninstall, ProberTypes, WorkerRecords
    <3> QED
      BY <2>1, <3>1 DEF CountOK
  <2>4. CASE k # d
    <3>1. wk'[k] = wk[k]
      BY <1>10, <2>4 DEF Uninstall, ProberTypes
    <3> QED
      BY <2>1, <2>2, <2>4, <3>1, CountFrame
  <2> QED
    BY <2>3, <2>4
<1>11. ASSUME NEW j \in Keys, NEW d \in Keys, StopService(j, d) PROVE CountOK(k)'
  <2>1. /\ eng'.ns = eng.ns /\ eng.pc # "stats" /\ eng'.pc # "stats"
        /\ UNCHANGED <<installed, missed, workers, status>>
    BY <1>11, StopFacts DEF StopService
  <2>2. Ahead(k)' = Ahead(k)
    BY <2>1, AheadFrame
  <2>3. wk'[k] = wk[k] \/ wk'[k] = Stopped(wk[k])
    BY <1>11 DEF StopService, RemoveApp, ProberTypes
  <2>4. wk'[k].old = wk[k].old
    BY <2>3, Signals DEF ProberTypes
  <2> QED
    BY <2>1, <2>2, <2>4, CountFrame
<1>12. ASSUME NEW j \in Keys, NEW l \in {"delete", "deleteOld"}, StartDeploy(j, l)
       PROVE  CountOK(k)'
  <2>1. eng'.ns = eng.ns /\ eng.pc # "stats" /\ eng'.pc # "stats"
    BY <1>12, StartFacts
  <2>2. Ahead(k)' = Ahead(k)
    BY <2>1, AheadFrame
  <2> QED
    BY <1>12, <2>2, CountFrame DEF StartDeploy
<1>13. ASSUME NEW j \in Keys, ProcessFails(j) \/ ServiceRestarts(j) PROVE CountOK(k)'
  <2>1. UNCHANGED <<installed, workers, status, wk, eng, missed>>
    BY <1>13 DEF ProcessFails, ServiceRestarts
  <2>2. Ahead(k)' = Ahead(k)
    BY <2>1, AheadFrame
  <2> QED
    BY <2>1, <2>2, CountFrame
<1> QED
  BY <1>1, <1>2, <1>3, <1>4, <1>5, <1>6, <1>7, <1>8, <1>9, <1>10, <1>11, <1>12, <1>13, Actions

-----------------------------------------------------------------------------
(* The processes.                                                          *)

\* An excuse stays one, and a failure is one.
LEMMA ExcusedStep ==
  ASSUME ProberTypes, [Next]_vars
  PROVE  /\ Excused => Excused'
         /\ faults' # faults => Excused'
         /\ deploys' <= deploys
<1>1. /\ faults \in 0..MaxFaults /\ deploys \in 0..MaxDeploys
      /\ MaxFaults \in Nat /\ MaxDeploys \in Nat /\ FailureThreshold \in Nat
  BY Numbers DEF ProberTypes
<1>2. (faults > 0 /\ faults' = faults - 1) \/ faults' = faults
  <2>1. ASSUME NEW k \in Keys, Moves(k) PROVE faults' = faults
    BY <2>1, MoveFacts
  <2> QED
    BY <2>1, Actions DEF vars, StatsApps, StatsAppsFails, CoreRestart, NextNamespace, DeleteDone,
       removeWorker, InstallService, Uninstall, ProcessFails, ServiceRestarts, StartDeploy, StopService
<1>3. (deploys > 0 /\ deploys' = deploys - 1) \/ deploys' = deploys
  <2>1. ASSUME NEW k \in Keys, Moves(k) PROVE deploys' = deploys
    BY <2>1, MoveFacts
  <2> QED
    BY <2>1, Actions DEF vars, StatsApps, StatsAppsFails, CoreRestart, NextNamespace, DeleteDone,
       removeWorker, InstallService, Uninstall, ProcessFails, ServiceRestarts, StartDeploy, StopService
<1> QED
  BY <1>1, <1>2, <1>3 DEF Excused

\* As long as no probe can fail FailureThreshold times in a row, a step of
\* the worker of k leaves the process alone and misses only what it was
\* about to miss.
LEMMA QuietMove ==
  ASSUME ProberTypes, NEW k \in Keys, Moves(k), healthy[k], wk[k].pc # "restart",
         wk[k].fails + (IF Misses(k) THEN 1 ELSE 0) + 1 <= FailureThreshold
  PROVE  /\ UNCHANGED <<proc, healthy>> /\ wk'[k].pc # "restart" /\ ~Misses(k)'
         /\ wk'[k].fails <= wk[k].fails + (IF Misses(k) THEN 1 ELSE 0)
<1>1. /\ wk[k] \in WorkerRecords /\ wk[k].fails \in Nat /\ FailureThreshold \in Nat
      /\ wk \in [Keys -> WorkerRecords]
  BY Numbers DEF ProberTypes, WorkerRecords
<1>2. UNCHANGED <<proc, healthy>>
  BY DEF Moves, Run, CheckStatus, ProbeOnce, Restart, ProbeTick, TakeStop, Worker, WorkerAt
<1>3. ASSUME NEW l, wk'[k] = [wk[k] EXCEPT !.pc = l], l # "restart",
             l = "probe" => proc[k] = "running"
      PROVE  /\ wk'[k].pc # "restart" /\ ~Misses(k)' /\ wk'[k].fails = wk[k].fails
  <2>1. wk'[k].pc = l /\ wk'[k].fails = wk[k].fails
    BY <1>1, <1>3 DEF WorkerRecords
  <2> QED
    BY <1>2, <1>3, <2>1 DEF Misses
<1>4. CASE Run(k) \/ ProbeTick(k)
  <2>1. wk'[k] = [wk[k] EXCEPT !.pc = "status"]
    BY <1>1, <1>4 DEF Run, ProbeTick, Worker
  <2>2. /\ wk'[k].pc # "restart" /\ ~Misses(k)' /\ wk'[k].fails = wk[k].fails
    BY <1>3, <2>1
  <2> QED
    BY <1>1, <1>2, <2>2
<1>5. CASE CheckStatus(k)
  <2>1. PICK l : l = CASE proc[k] = "stopped" -> "exit"
                       [] proc[k] = "running" -> "probe"
                       [] OTHER -> "wait"
    OBVIOUS
  <2>2. l # "restart" /\ (l = "probe" => proc[k] = "running")
    BY <2>1
  <2>3. wk' = [wk EXCEPT ![k] = [wk[k] EXCEPT !.pc = l]]
    BY <1>5, <2>1 DEF CheckStatus, Worker
  <2>4. wk'[k] = [wk[k] EXCEPT !.pc = l]
    BY <1>1, <2>3
  <2>5. /\ wk'[k].pc # "restart" /\ ~Misses(k)' /\ wk'[k].fails = wk[k].fails
    BY <1>3, <2>2, <2>4
  <2> QED
    BY <1>1, <1>2, <2>5
<1>6. CASE ProbeOnce(k)
  <2>1. PICK n : n = IF ~(healthy[k] /\ proc[k] = "running") THEN wk[k].fails + 1 ELSE 0
    OBVIOUS
  <2>2. wk[k].pc = "probe"
    BY <1>6 DEF ProbeOnce, WorkerAt
  <2>3. ~(n >= FailureThreshold) /\ n <= wk[k].fails + (IF Misses(k) THEN 1 ELSE 0) /\ n \in Nat
    BY <1>1, <2>1, <2>2, Numbers DEF Misses
  <2>4. PICK x : x = CASE Handler[k] = "tcp" -> [wk[k] EXCEPT !.pc = "wait"]
                       [] n >= FailureThreshold -> [wk[k] EXCEPT !.pc = "restart"]
                       [] OTHER -> [wk[k] EXCEPT !.pc = "wait", !.fails = n]
    OBVIOUS
  <2>5. wk' = [wk EXCEPT ![k] = x]
    BY <1>6, <2>1, <2>4 DEF ProbeOnce, Worker
  <2>6. wk'[k] = x
    BY <1>1, <2>5
  <2>7. x = [wk[k] EXCEPT !.pc = "wait"] \/ x = [wk[k] EXCEPT !.pc = "wait", !.fails = n]
    BY <2>3, <2>4
  <2>8. x.pc = "wait" /\ (x.fails = wk[k].fails \/ x.fails = n)
    BY <1>1, <2>7 DEF WorkerRecords
  <2>9. wk'[k].pc = "wait" /\ wk'[k].fails <= wk[k].fails + (IF Misses(k) THEN 1 ELSE 0)
    BY <1>1, <2>3, <2>6, <2>8
  <2> QED
    BY <1>2, <2>9 DEF Misses
<1>7. CASE TakeStop(k)
  <2>1. wk'[k] = [wk[k] EXCEPT !.pc = "exit", !.stop = FALSE]
    BY <1>1, <1>7 DEF TakeStop, Worker
  <2>2. wk'[k].pc = "exit" /\ wk'[k].fails = wk[k].fails
    BY <1>1, <2>1 DEF WorkerRecords
  <2> QED
    BY <1>1, <1>2, <2>2 DEF Misses
<1>8. ~Restart(k)
  BY DEF Restart, WorkerAt
<1> QED
  BY <1>4, <1>5, <1>6, <1>7, <1>8 DEF Moves

\* A key with nothing new against it stays charged.
LEMMA ChargedFrame ==
  ASSUME ProberTypes, NEW k \in Keys, Charged(k), deploys' \in Nat, deploys' <= deploys,
         k \in workers' => k \in workers, k \in installed' => k \in installed,
         wk'[k].pc # "restart",
         k \in workers' => /\ wk'[k].fails \in Nat
                           /\ wk'[k].fails <= wk[k].fails
                           /\ (Misses(k)' => Misses(k)) /\ (Awaits(k)' => Awaits(k))
  PROVE  Charged(k)'
<1>1. /\ deploys \in Nat /\ MaxDeploys \in Nat /\ wk[k].fails \in Nat
  BY Numbers DEF ProberTypes, WorkerRecords
<1>2. (k \in installed' \/ k \in workers') => deploys' < MaxDeploys
  BY <1>1 DEF Charged
<1>3. k \in workers' =>
        wk'[k].fails + (IF Misses(k)' THEN 1 ELSE 0) + (IF Awaits(k)' THEN 1 ELSE 0) + 1
          <= MaxDeploys - deploys'
  BY <1>1 DEF Charged
<1> QED
  BY <1>2, <1>3 DEF Charged

\* What the types say about one key.
LEMMA KeyTypes ==
  ASSUME ProberTypes, NEW k \in Keys
  PROVE  /\ wk[k] \in WorkerRecords /\ wk[k].fails \in Nat /\ deploys \in Nat /\ deploys <= MaxDeploys
         /\ MaxDeploys \in Nat /\ FailureThreshold \in Nat /\ FailureThreshold > 0
         /\ installed \subseteq Keys /\ eng \in Engine /\ (k \in workers <=> wk[k].pc # "none")
  BY Numbers DEF ProberTypes, WorkerRecords

\* Steps of the workers.
LEMMA FineMove ==
  ASSUME ProberTypes, ProberTypes', Fine, ~Excused, NEW j \in Keys, Moves(j)
  PROVE  Fine'
<1>1. UNCHANGED <<installed, workers, status, eng, missed, deploys, faults>> /\ j \in workers
  BY MoveFacts
<1>2. Charged(j) /\ Alive(j)
  BY DEF Fine
<1>3. wk[j].fails + (IF Misses(j) THEN 1 ELSE 0) + 1 <= FailureThreshold
  BY <1>1, <1>2, KeyTypes DEF Charged, Excused
<1>4. /\ UNCHANGED <<proc, healthy>> /\ wk'[j].pc # "restart" /\ ~Misses(j)'
      /\ wk'[j].fails <= wk[j].fails + (IF Misses(j) THEN 1 ELSE 0)
  BY <1>2, <1>3, QuietMove DEF Charged, Alive
<1>5. EngineOK'
  BY <1>1 DEF Fine, EngineOK, Named
<1>6. ASSUME NEW k \in Keys PROVE Charged(k)' /\ Alive(k)'
  <2>1. Alive(k)'
    BY <1>1, <1>4 DEF Fine, Alive, Ending
  <2>2. Awaits(k)' <=> Awaits(k)
    BY <1>1 DEF Awaits, Named, Ending
  <2>3. Charged(k)
    BY DEF Fine
  <2>4. CASE k = j
    <3>1. wk'[k].fails \in Nat
      BY DEF ProberTypes, WorkerRecords
    <3>2. wk'[k].fails + (IF Misses(k)' THEN 1 ELSE 0) + (IF Awaits(k)' THEN 1 ELSE 0) + 1
            <= MaxDeploys - deploys
      BY <1>1, <1>2, <1>4, <2>2, <2>4, <3>1, KeyTypes DEF Charged
    <3> QED
      BY <1>1, <1>4, <2>1, <2>3, <2>4, <3>2 DEF Charged
  <2>5. CASE k # j
    <3>1. wk'[k] = wk[k]
      BY <2>5, MoveTypes
    <3>2. Misses(k)' <=> Misses(k)
      BY <1>4, <3>1 DEF Misses
    <3> QED
      BY <1>1, <2>1, <2>2, <2>3, <3>1, <3>2 DEF Charged
  <2> QED
    BY <2>4, <2>5
<1> QED
  BY <1>5, <1>6 DEF Fine

\* A delete begins: the deploy it costs pays for the probe it will make the
\* worker miss.
LEMMA FineStart ==
  ASSUME ProberTypes, ProberTypes', Fine, NEW j \in Keys, NEW l \in {"delete", "deleteOld"},
         StartDeploy(j, l)
  PROVE  Fine'
<1>1. /\ UNCHANGED <<installed, proc, healthy, workers, wk>>
      /\ eng'.pc = l /\ eng'.key = {j} /\ eng'.dirs = {d \in installed : NameOf[d] = NameOf[j]}
      /\ deploys > 0 /\ deploys' = deploys - 1 /\ eng.pc = "apply"
  BY StartFacts DEF StartDeploy
<1>2. deploys' < MaxDeploys /\ deploys' \in Nat
  BY <1>1, KeyTypes
<1>3. EngineOK'
  BY <1>1, <1>2 DEF EngineOK, Named
<1>4. ASSUME NEW k \in Keys PROVE Charged(k)' /\ Alive(k)'
  <2>1. ~Ending(k) /\ ~Ending(k)' /\ ~Awaits(k)
    BY <1>1 DEF Ending, Awaits, InCall
  <2>2. Alive(k)'
    BY <1>1, <2>1 DEF Fine, Alive
  <2>3. Misses(k)' <=> Misses(k)
    BY <1>1 DEF Misses
  <2>4. Charged(k)
    BY DEF Fine
  <2>5. k \in workers =>
          wk[k].fails + (IF Misses(k) THEN 1 ELSE 0) + (IF Awaits(k)' THEN 1 ELSE 0) + 1
            <= MaxDeploys - deploys'
    BY <1>1, <1>2, <2>1, <2>4, KeyTypes DEF Charged
  <2> QED
    BY <1>1, <1>2, <2>2, <2>3, <2>4, <2>5 DEF Charged
<1> QED
  BY <1>3, <1>4 DEF Fine

\* Stop: the worker may miss a probe now, the call no longer awaits it.
LEMMA FineStop ==
  ASSUME ProberTypes, ProberTypes', Fine, NEW j \in Keys, NEW d \in Keys, StopService(j, d)
  PROVE  Fine'
<1>1. /\ UNCHANGED <<installed, healthy, workers, deploys>> /\ d \in eng.dirs
      /\ proc' = [proc EXCEPT ![d] = "stopped"]
      /\ eng'.key = eng.key /\ eng'.dirs = {d}
      /\ eng.pc \in {"delete", "deleteOld"} /\ eng'.pc \in {"uninstall", "uninstallOld"}
  BY StopFacts DEF StopService
<1>2. /\ eng.dirs = {e \in installed : Named(e)} /\ deploys < MaxDeploys
  BY <1>1 DEF Fine, EngineOK, InCall
<1>3. EngineOK'
  BY <1>1, <1>2 DEF EngineOK
<1>4. ASSUME NEW k \in Keys PROVE Charged(k)' /\ Alive(k)'
  <2>1. Charged(k) /\ Alive(k)
    BY DEF Fine
  <2>2. wk'[k].pc = wk[k].pc /\ wk'[k].fails = wk[k].fails
    <3>1. wk'[k] = wk[k] \/ wk'[k] = Stopped(wk[k])
      BY DEF StopService, RemoveApp, ProberTypes
    <3> QED
      BY <3>1, Signals, KeyTypes
  <2>3. ~Ending(k) /\ (Ending(k)' <=> k = d)
    BY <1>1 DEF Ending
  <2>4. CASE k = d
    <3>1. proc'[k] = "stopped"
      BY <1>1, <2>4 DEF ProberTypes
    <3>2. Awaits(k) /\ ~Awaits(k)'
      BY <1>1, <1>2, <2>3, <2>4 DEF Awaits, InCall
    <3>3. k \in workers =>
            wk'[k].fails + (IF Misses(k)' THEN 1 ELSE 0) + (IF Awaits(k)' THEN 1 ELSE 0) + 1
              <= MaxDeploys - deploys
      BY <2>1, <2>2, <3>2, KeyTypes DEF Charged
    <3> QED
      BY <1>1, <1>2, <2>1, <2>2, <2>3, <2>4, <3>1, <3>3 DEF Charged, Alive
  <2>5. CASE k # d
    <3>1. proc'[k] = proc[k]
      BY <1>1, <2>5 DEF ProberTypes
    <3>2. (Awaits(k)' => Awaits(k)) /\ (Misses(k)' => Misses(k))
      BY <1>1, <2>2, <2>3, <3>1 DEF Awaits, InCall, Named, Misses
    <3>3. Charged(k)'
      BY <1>1, <2>1, <2>2, <3>2, ChargedFrame, KeyTypes DEF Charged
    <3> QED
      BY <1>1, <2>1, <2>3, <2>5, <3>1, <3>3 DEF Alive
  <2> QED
    BY <2>4, <2>5
<1> QED
  BY <1>3, <1>4 DEF Fine

\* Uninstall finds the process stopped.
LEMMA FineUninstall ==
  ASSUME ProberTypes, ProberTypes', Fine, NEW d \in Keys, Uninstall(d)
  PROVE  Fine'
<1>1. /\ UNCHANGED <<healthy, workers, deploys>> /\ eng.dirs = {d} /\ installed' = installed \ {d}
      /\ proc' = [proc EXCEPT ![d] = IF proc[d] = "running" THEN "orphan" ELSE "absent"]
      /\ eng'.key = eng.key
      /\ eng'.dirs = {e \in installed' : \E k \in eng.key : NameOf[e] = NameOf[k]}
      /\ eng.pc \in {"uninstall", "uninstallOld"} /\ eng'.pc \in {"delete", "deleteOld"}
  BY UninstallFacts DEF Uninstall
<1>2. deploys < MaxDeploys /\ d \in installed /\ Ending(d)
  BY <1>1 DEF Fine, EngineOK, InCall, Ending
<1>3. EngineOK'
  BY <1>1, <1>2 DEF EngineOK, Named
<1>4. proc[d] = "stopped"
  BY <1>2 DEF Fine, Alive
<1>5. ASSUME NEW k \in Keys PROVE Charged(k)' /\ Alive(k)'
  <2>1. Charged(k) /\ Alive(k) /\ ~Ending(k)' /\ (Ending(k) <=> k = d)
    BY <1>1 DEF Fine, Ending
  <2>2. wk'[k].pc = wk[k].pc /\ wk'[k].fails = wk[k].fails
    <3>1. wk'[k] = wk[k] \/ (k = d /\ wk'[k] = [wk[d] EXCEPT !.old = d \in workers])
      BY DEF Uninstall, ProberTypes
    <3> QED
      BY <3>1, KeyTypes DEF WorkerRecords
  <2>3. proc'[k] = IF k = d THEN "absent" ELSE proc[k]
    BY <1>1, <1>4 DEF ProberTypes
  <2>4. Alive(k)'
    BY <1>1, <2>1, <2>3 DEF Alive
  <2>5. (Awaits(k)' => Awaits(k)) /\ (Misses(k)' => Misses(k))
    BY <1>1, <1>4, <2>1, <2>2, <2>3 DEF Awaits, InCall, Named, Misses
  <2>6. Charged(k)'
    BY <1>1, <2>1, <2>2, <2>5, ChargedFrame, KeyTypes DEF Charged
  <2> QED
    BY <2>4, <2>6
<1> QED
  BY <1>3, <1>5 DEF Fine

\* Install: no version of the name is left.
LEMMA FineInstall ==
  ASSUME ProberTypes, ProberTypes', Fine, NEW j \in Keys, InstallService(j)
  PROVE  Fine'
<1>1. /\ UNCHANGED deploys /\ eng.dirs = {} /\ eng.key = {j} /\ installed' = installed \cup {j}
      /\ proc' = [proc EXCEPT ![j] = "running"] /\ healthy' = [healthy EXCEPT ![j] = TRUE]
      /\ AddApps({j}) /\ eng.pc = "deleteOld" /\ eng'.pc = "apply"
  BY ApplyFacts DEF InstallService, EngineAt
<1>2. deploys < MaxDeploys
  BY <1>1 DEF Fine, EngineOK, InCall
<1>3. EngineOK'
  BY <1>1 DEF EngineOK, InCall
<1>4. ASSUME NEW k \in Keys PROVE Charged(k)' /\ Alive(k)'
  <2>1. Charged(k) /\ Alive(k) /\ ~Ending(k)' /\ ~Ending(k) /\ ~Awaits(k)'
    BY <1>1 DEF Fine, Ending, Awaits, InCall
  <2>2. /\ proc'[k] = IF k = j THEN "running" ELSE proc[k]
        /\ healthy'[k] = IF k = j THEN TRUE ELSE healthy[k]
    BY <1>1 DEF ProberTypes
  <2>3. Alive(k)'
    BY <1>1, <2>1, <2>2 DEF Alive
  <2>4. CASE k \in Added({j})
    <3>1. wk'[k].pc = "run" /\ wk'[k].fails = 0
      BY <1>1, <2>4, AddFacts
    <3>2. ~Misses(k)'
      BY <3>1 DEF Misses
    <3>3. wk'[k].fails + (IF Misses(k)' THEN 1 ELSE 0) + (IF Awaits(k)' THEN 1 ELSE 0) + 1
            <= MaxDeploys - deploys'
      BY <1>1, <1>2, <2>1, <3>1, <3>2, KeyTypes
    <3> QED
      BY <1>1, <1>2, <2>3, <3>1, <3>3 DEF Charged
  <2>5. CASE k \notin Added({j})
    <3>1. wk'[k] = wk[k] /\ (k \in workers' <=> k \in workers)
      BY <1>1, <2>5, AddFacts
    <3>2. Misses(k)' => Misses(k)
      BY <2>2, <3>1 DEF Misses
    <3>3. k \in workers' =>
            wk'[k].fails + (IF Misses(k)' THEN 1 ELSE 0) + (IF Awaits(k)' THEN 1 ELSE 0) + 1
              <= MaxDeploys - deploys'
      BY <1>1, <2>1, <3>1, <3>2, KeyTypes DEF Charged
    <3> QED
      BY <1>1, <1>2, <2>1, <2>3, <3>1, <3>3 DEF Charged
  <2> QED
    BY <2>4, <2>5
<1> QED
  BY <1>3, <1>4 DEF Fine

\* A collection starts workers for what is installed.
LEMMA FineStats ==
  ASSUME ProberTypes, ProberTypes', Fine, StatsApps
  PROVE  Fine'
<1>1. /\ UNCHANGED <<installed, proc, healthy, deploys>> /\ eng.pc = "stats" /\ eng'.pc = "apply"
  BY ApplyFacts DEF StatsApps, EngineAt
<1>2. EngineOK'
  BY <1>1 DEF EngineOK, InCall
<1>3. PICK seen : seen = installed \cap Of(eng.ns)
  OBVIOUS
<1>4. ASSUME NEW k \in Keys PROVE Charged(k)' /\ Alive(k)'
  <2>1. Charged(k) /\ Alive(k) /\ ~Ending(k)' /\ ~Ending(k) /\ ~Awaits(k)'
    BY <1>1 DEF Fine, Ending, Awaits, InCall
  <2>2. Alive(k)'
    BY <1>1, <2>1 DEF Alive
  <2>3. CASE k \in Added(seen)
    <3>1. wk'[k].pc = "run" /\ wk'[k].fails = 0 /\ k \in installed
      BY <1>3, <2>3, StatsFacts
    <3>2. ~Misses(k)' /\ deploys < MaxDeploys
      BY <2>1, <3>1 DEF Misses, Charged
    <3>3. wk'[k].fails + (IF Misses(k)' THEN 1 ELSE 0) + (IF Awaits(k)' THEN 1 ELSE 0) + 1
            <= MaxDeploys - deploys'
      BY <1>1, <2>1, <3>1, <3>2, KeyTypes
    <3> QED
      BY <1>1, <2>2, <3>1, <3>2, <3>3 DEF Charged
  <2>4. CASE k \notin Added(seen)
    <3>1. /\ wk'[k].pc = wk[k].pc /\ wk'[k].fails = wk[k].fails
          /\ (k \in workers' <=> k \in workers)
      BY <1>3, <2>4, StatsFacts
    <3>2. Misses(k)' => Misses(k)
      BY <1>1, <3>1 DEF Misses
    <3>3. Charged(k)'
      BY <1>1, <2>1, <3>1, <3>2, ChargedFrame, KeyTypes DEF Charged
    <3> QED
      BY <2>2, <3>3
  <2> QED
    BY <2>3, <2>4
<1> QED
  BY <1>2, <1>4 DEF Fine

\* The end of a worker, of a call and of the applications of a namespace.
LEMMA FineEnd ==
  ASSUME ProberTypes, ProberTypes', Fine,
         NextNamespace \/ DeleteDone \/ \E k \in Keys : removeWorker(k)
  PROVE  Fine'
<1>1. UNCHANGED <<installed, proc, healthy, deploys>>
  BY DEF NextNamespace, DeleteDone, removeWorker
<1>2. \/ UNCHANGED eng
      \/ eng'.pc \in {"stats", "apply"} /\ eng.pc \in {"apply", "delete"}
  BY ApplyFacts DEF NextNamespace, DeleteDone, removeWorker, Collecting, EngineAt
<1>3. EngineOK'
  BY <1>1, <1>2 DEF Fine, EngineOK, Named, InCall
<1>4. ASSUME NEW k \in Keys PROVE Charged(k)' /\ Alive(k)'
  <2>1. Charged(k) /\ Alive(k)
    BY DEF Fine
  <2>2. (Ending(k)' <=> Ending(k)) /\ (Awaits(k)' => Awaits(k))
    BY <1>1, <1>2 DEF Ending, Awaits, Named, InCall
  <2>3. Alive(k)'
    BY <1>1, <2>1, <2>2 DEF Alive
  <2>4. (wk'[k] = wk[k] \/ (wk'[k].pc = "none" /\ k \notin workers')) /\ workers' \subseteq workers
    <3>1. \/ UNCHANGED <<wk, workers>>
          \/ \E j \in Keys : wk' = [wk EXCEPT ![j] = NoWorker] /\ workers' = workers \ {j}
      BY DEF NextNamespace, DeleteDone, removeWorker
    <3> QED
      BY <3>1, WorkerTypes DEF ProberTypes
  <2>5. Charged(k)'
    BY <1>1, <2>1, <2>2, <2>4, ChargedFrame, KeyTypes DEF Charged, Misses
  <2> QED
    BY <2>3, <2>5
<1> QED
  BY <1>3, <1>4 DEF Fine

\* No process is left behind without an excuse.
LEMMA NoOrphanStep ==
  ASSUME ProberTypes, ProberTypes', [Next]_vars, NoOrphan
  PROVE  NoOrphan'
<1>1. CASE Excused \/ faults' # faults
  BY <1>1, ExcusedStep DEF NoOrphan
<1>2. ASSUME ~Excused, faults' = faults PROVE Fine'
  <2>1. Fine
    BY <1>2 DEF NoOrphan
  <2>2. CASE UNCHANGED vars
    BY <2>1, <2>2 DEF vars, Fine, EngineOK, Charged, Alive, Named, Ending, Awaits, Misses
  <2>3. ~CoreRestart /\ ~StatsAppsFails
    BY <1>2 DEF CoreRestart, StatsAppsFails, ProberTypes
  <2>4. ASSUME NEW k \in Keys PROVE ~ProcessFails(k) /\ ~ServiceRestarts(k)
    <3>1. Alive(k)
      BY <2>1 DEF Fine
    <3>2. ~ProcessFails(k)
      BY <1>2 DEF ProcessFails, ProberTypes
    <3>3. ~ServiceRestarts(k)
      BY <3>1 DEF ServiceRestarts, Alive, Ending
    <3> QED
      BY <3>2, <3>3
  <2>5. CASE StatsApps \/ NextNamespace \/ DeleteDone \/ \E k \in Keys : removeWorker(k)
    BY <2>1, <2>5, FineStats, FineEnd
  <2>6. ASSUME NEW k \in Keys, Moves(k) \/ InstallService(k) \/ Uninstall(k)
        PROVE  Fine'
    BY <1>2, <2>1, <2>6, FineMove, FineInstall, FineUninstall
  <2>7. ASSUME NEW k \in Keys, NEW l \in {"delete", "deleteOld"}, StartDeploy(k, l)
        PROVE  Fine'
    BY <2>1, <2>7, FineStart
  <2>8. ASSUME NEW k \in Keys, NEW d \in Keys, StopService(k, d)
        PROVE  Fine'
    BY <2>1, <2>8, FineStop
  <2> QED
    BY <2>2, <2>3, <2>4, <2>5, <2>6, <2>7, <2>8, Actions
<1> QED
  BY <1>1, <1>2 DEF NoOrphan

-----------------------------------------------------------------------------
(* The results.                                                            *)

\* The invariant holds at first.
LEMMA InitInv == Init => ProberInv
<1> SUFFICES ASSUME Init PROVE ProberInv
  OBVIOUS
<1>1. "sys" \in Namespaces /\ 0 \in 0..maxProbeRetries
  BY Numbers DEF Namespaces
<1>2. eng \in Engine /\ eng.pc = "stats"
  BY <1>1, CollectingTypes DEF Init
<1>3. /\ wk \in [Keys -> WorkerRecords] /\ status \in [Keys -> 0..maxProbeRetries]
      /\ workers = {k \in Keys : wk[k].pc # "none"}
  BY <1>1, WorkerTypes DEF Init
<1>4. ProberTypes
  <2>1. deploys \in 0..MaxDeploys /\ faults \in 0..MaxFaults /\ missed \in [Namespaces -> Nat]
    BY Numbers DEF Init
  <2>2. crashed \in BOOLEAN /\ healthy \in [Keys -> BOOLEAN]
    BY DEF Init
  <2>3. installed \subseteq Keys /\ proc \in [Keys -> Procs]
    BY DEF Init, Procs
  <2> QED
    BY <1>2, <1>3, <2>1, <2>2, <2>3 DEF ProberTypes
<1>5. \A k \in Keys : CountOK(k)
  BY DEF Init, CountOK
<1>6. Fine
  BY <1>2, WorkerTypes DEF Init, Fine, EngineOK, Charged, Alive, InCall
<1> QED
  BY <1>4, <1>5, <1>6 DEF ProberInv, NoOrphan

\* The inductive invariant, from the engine goroutine and the workers in any
\* order: the types, the count of every worker explained by the failures of
\* StatsApps of its own namespace, and every missed probe of a worker paid
\* for by an application that was deployed.
THEOREM ProberCorrect == Spec => []ProberInv
<1>1. Init => ProberInv
  BY InitInv
<1>2. ProberInv /\ [Next]_vars => ProberInv'
  <2> SUFFICES ASSUME ProberInv, [Next]_vars PROVE ProberInv'
    OBVIOUS
  <2>1. ProberTypes'
    BY TypesStep DEF ProberInv
  <2>2. \A k \in Keys : CountOK(k)'
    BY CountStep DEF ProberInv
  <2>3. NoOrphan'
    BY <2>1, NoOrphanStep DEF ProberInv
  <2> QED
    BY <2>1, <2>2, <2>3 DEF ProberInv
<1> QED
  BY <1>1, <1>2, PTL DEF Spec

\* Every variable of the native prober keeps its type, and a key is
\* registered with the manager exactly while its worker goroutine lives.
THEOREM ProberTypesCorrect == Spec => []TypeOK
<1>1. ProberInv => TypeOK
  BY DEF ProberInv, ProberTypes, TypeOK, Engine, WorkerRecords, Procs
<1> QED
  BY <1>1, ProberCorrect, PTL

\* A process outlives its service only after a failure, or after more than
\* FailureThreshold deploys: DeleteApp races with the restart of a worker
\* that has failed FailureThreshold probes in a row.
THEOREM OrphanNeedsFailureCorrect == Spec => []OrphanNeedsFailure
<1>1. ProberInv => OrphanNeedsFailure
  BY DEF ProberInv, NoOrphan, Fine, Alive, Excused, OrphanNeedsFailure
<1> QED
  BY <1>1, ProberCorrect, PTL

\* CleanupApps stops the worker of an installed application only when
\* StatsApps of its namespace has failed in maxProbeRetries - 1 cycles in a
\* row, or when the worker is older than the installation.
THEOREM NoInnocentStopCorrect == Spec => NoInnocentStop
<1> DEFINE Step == \A k \in installed : eng.pc = "stats" /\ wk'[k].stop /\ ~wk[k].stop =>
                     wk[k].old \/ missed[NsOf(k)] + 1 >= maxProbeRetries
<1>1. ProberInv /\ [Next]_vars => [Step]_vars
  <2> SUFFICES ASSUME ProberInv, Next, NEW k \in installed,
                      eng.pc = "stats", wk'[k].stop, ~wk[k].stop
               PROVE  wk[k].old \/ missed[NsOf(k)] + 1 >= maxProbeRetries
    OBVIOUS
  <2>1. ProberTypes /\ k \in Keys /\ CountOK(k)
    BY DEF ProberInv, ProberTypes
  <2>2. StatsApps
    <3>1. ~StatsAppsFails
      <4>1. ASSUME NEW S \in SUBSET Keys, AddApps(S) PROVE FALSE
        BY <2>1, <4>1, AddFacts
      <4>2. \A S \in SUBSET (installed \cap Of(eng.ns)) : S \in SUBSET Keys
        BY <2>1 DEF ProberTypes
      <4> QED
        BY <4>1, <4>2 DEF StatsAppsFails
    <3>2. ~CoreRestart
      BY <2>1 DEF CoreRestart, NoWorker
    <3>3. ASSUME NEW j \in Keys PROVE ~Moves(j) /\ ~removeWorker(j)
      <4>1. ~Moves(j)
        BY <2>1, MoveTypes
      <4>2. ~removeWorker(j)
        BY <2>1 DEF removeWorker, NoWorker, ProberTypes
      <4> QED
        BY <4>1, <4>2
    <3>4. ASSUME NEW j \in Keys
          PROVE  /\ ~InstallService(j) /\ ~Uninstall(j) /\ ~ProcessFails(j) /\ ~ServiceRestarts(j)
                 /\ \A d \in Keys : ~StopService(j, d)
                 /\ \A l \in {"delete", "deleteOld"} : ~StartDeploy(j, l)
      BY DEF InstallService, Uninstall, ProcessFails, ServiceRestarts, StopService, StartDeploy,
             InDelete, EngineAt
    <3>5. ~NextNamespace /\ ~DeleteDone
      BY DEF NextNamespace, DeleteDone, EngineAt
    <3> QED
      BY <3>1, <3>2, <3>3, <3>4, <3>5, Actions
  <2>3. PICK seen : seen = installed \cap Of(eng.ns)
    OBVIOUS
  <2>4. k \notin Added(seen) /\ k \in workers /\ k \notin seen
    BY <2>1, <2>2, <2>3, StatsFacts
  <2>5. status'[k] <= status[k] + 1 /\ status'[k] >= maxProbeRetries
    BY <2>1, <2>2, <2>3, <2>4, StatsFacts
  <2>6. eng.ns \in Namespaces /\ missed \in [Namespaces -> Nat] /\ status[k] \in 0..maxProbeRetries
    BY <2>1 DEF ProberTypes, Engine
  <2>7. NsOf(k) # eng.ns /\ missed[NsOf(k)] \in Nat
    BY <2>1, <2>3, <2>4, <2>6, NamespaceOf
  <2>8. ~Ahead(k)
    BY <2>7 DEF Ahead
  <2>9. ~wk[k].old => status[k] <= missed[NsOf(k)]
    BY <2>1, <2>4, <2>7, <2>8 DEF CountOK
  <2>10. status'[k] \in 0..maxProbeRetries
    BY <2>1, <2>2, <2>3, StatsFacts
  <2> QED
    BY <2>5, <2>6, <2>7, <2>9, <2>10, Numbers
<1> QED
  BY <1>1, ProberCorrect, PTL DEF Spec, NoInnocentStop

=============================================================================
