------------------------------- MODULE Native -------------------------------
(***************************************************************************)
(* ApplyApp, DeleteApp and StatsApps of the native AMI                     *)
(* (ami/native/native.go), step by step: directories, services of the      *)
(* host, their processes and the file that maps names to host ports.       *)
(*                                                                         *)
(* The engine runs one call per application; calls for different           *)
(* applications run at the same time and share the port allocator and the  *)
(* mapping.  Nothing but the directories tells a later call or a later     *)
(* process what an earlier one left behind.                                *)
(*                                                                         *)
(* An instance is the path <<app, version, service, number>> of its        *)
(* directory, which is also the name of its service.                       *)
(***************************************************************************)
EXTENDS Naturals, Sequences, FiniteSets, FiniteSetsExt

CONSTANTS Apps,
          Versions,    \* a set of naturals: the order of directory names
          Plan,        \* Plan[a][v]: the sequence of <<service, number>>
          Function,    \* the applications that are functions
          NoExec,      \* <<app, version>> without a program executable
          Ports,       \* the port range, a set of naturals
          Idle, Deleting, None,
          MaxUpdates,  \* bound: changes of the desire
          MaxFaults    \* bound: failing calls and crashes

\* A service has at least one replica: a version without an instance is
\* never listed, and applied in every cycle.  The services of a version
\* have different names and are handled one after the other, replica by
\* replica.
ASSUME PlanAssumption ==
  /\ Plan \in [Apps -> [Versions -> Seq(STRING \X Nat) \ {<<>>}]]
  /\ \A a \in Apps, v \in Versions : \A i, j \in DOMAIN Plan[a][v] :
       /\ Plan[a][v][i] = Plan[a][v][j] => i = j
       /\ Plan[a][v][i][1] = Plan[a][v][j][1] => \A k \in i..j : Plan[a][v][k][1] = Plan[a][v][i][1]
\* The mapping has one name space for all applications.
ASSUME NamesAssumption ==
  \A a, b \in Apps, v, w \in Versions :
    \A i \in DOMAIN Plan[a][v], j \in DOMAIN Plan[b][w] :
      /\ Plan[a][v][i][1] \notin Function
      /\ a # b => Plan[a][v][i][1] # Plan[b][w][j][1]
\* 0 stands for no port.
ASSUME ValuesAssumption ==
  /\ Versions \subseteq Nat /\ Ports \subseteq Nat \ {0}
  /\ {Idle, Deleting, None} \cap Versions = {} /\ Idle # Deleting
ASSUME NativeBoundsAssumption == MaxUpdates \in Nat /\ MaxFaults \in Nat

VARIABLES want,     \* the desired version of an application
          dirs,     \* directories of instances
          svcDirs,  \* directories of services
          units,    \* instances whose service is installed
          procs,    \* processes: the instance and the port it was given
          mapping,  \* mapping[n]: the ports under service or function name n
          op,       \* op[a]: the call for application a
          ok,       \* ok[a]: whether the last call for a succeeded
          clean,    \* clean[a]: the last call removed what was there before
          leaked,   \* instances that survived a failing Stop or Uninstall
          stale,    \* names whose entry of the mapping was not deleted
          updates, faults

vars == <<want, dirs, svcDirs, units, procs, mapping, op, ok, clean, leaked, stale, updates, faults>>

Path(a, v, i) == <<a, v, Plan[a][v][i][1], Plan[a][v][i][2]>>
InstancesOf(a, v) == {Path(a, v, i) : i \in DOMAIN Plan[a][v]}
Instances == UNION {InstancesOf(a, v) : a \in Apps, v \in Versions}
SvcDir(p) == <<p[1], p[2], p[3]>>
Names == {p[3] : p \in Instances} \cup Function
IdleOp == [pc |-> "idle", ver |-> None, at |-> 1, cur |-> <<>>,
           then |-> "return", port |-> 0, ports |-> {}]

\* StatsApps lists a version when it has the directory of an instance.
listedIn(ds, a) == {v \in Versions : \E p \in ds : p[1] = a /\ p[2] = v}
StatsApps(a) == listedIn(dirs, a)

\* The version the engine sees: alignApps keeps the last entry of a name,
\* and os.ReadDir sorts.
Seen(a) == IF StatsApps(a) = {} THEN None ELSE Max(StatsApps(a))

Init == /\ want \in [Apps -> Versions \cup {None}]
        /\ dirs = {} /\ svcDirs = {} /\ units = {} /\ procs = {} /\ leaked = {} /\ stale = {}
        /\ mapping = [n \in Names |-> {}]
        /\ op = [a \in Apps |-> IdleOp]
        /\ ok = [a \in Apps |-> TRUE]
        /\ clean = [a \in Apps |-> TRUE]
        /\ updates = MaxUpdates
        /\ faults = MaxFaults

Desire(a) == /\ updates > 0
             /\ \E v \in (Versions \cup {None}) \ {want[a]} : want' = [want EXCEPT ![a] = v]
             /\ updates' = updates - 1
             /\ UNCHANGED <<dirs, svcDirs, units, procs, mapping, op, ok, clean, leaked, stale, faults>>

At(a, l) == op[a].pc = l
Goto(a, o) == op' = [op EXCEPT ![a] = o]
Fault == faults > 0 /\ faults' = faults - 1

\* The call for a ends.
Return(a, good) == /\ Goto(a, IdleOp)
                   /\ ok' = [ok EXCEPT ![a] = good]

-----------------------------------------------------------------------------
(* The engine's decision from the list, as getDeleteAndUpdate takes it.    *)

CallDelete(a) ==
  /\ At(a, "idle") /\ want[a] = None /\ StatsApps(a) # {}
  /\ Goto(a, [IdleOp EXCEPT !.pc = "scan"])
  /\ clean' = [clean EXCEPT ![a] = TRUE]
  /\ UNCHANGED <<want, dirs, svcDirs, units, procs, mapping, ok, leaked, stale, updates, faults>>

\* Mutant: what is there is not deleted first.
CallApplyOnTop(a) ==
  /\ At(a, "idle") /\ want[a] # None /\ Seen(a) # want[a]
  /\ Goto(a, [IdleOp EXCEPT !.pc = "next", !.ver = want[a], !.then = "apply"])
  /\ clean' = [clean EXCEPT ![a] = TRUE]
  /\ UNCHANGED <<want, dirs, svcDirs, units, procs, mapping, ok, leaked, stale, updates, faults>>

\* Mutant: an application that is listed counts as applied.
CallApplyOnce(a) ==
  /\ At(a, "idle") /\ want[a] # None /\ StatsApps(a) = {}
  /\ Goto(a, [IdleOp EXCEPT !.pc = "scan", !.ver = want[a], !.then = "apply"])
  /\ clean' = [clean EXCEPT ![a] = TRUE]
  /\ UNCHANGED <<want, dirs, svcDirs, units, procs, mapping, ok, leaked, stale, updates, faults>>

\* ApplyApp begins with DeleteApp.
CallApply(a) ==
  /\ At(a, "idle") /\ want[a] # None /\ Seen(a) # want[a]
  /\ Goto(a, [IdleOp EXCEPT !.pc = "scan", !.ver = want[a], !.then = "apply"])
  /\ clean' = [clean EXCEPT ![a] = TRUE]
  /\ UNCHANGED <<want, dirs, svcDirs, units, procs, mapping, ok, leaked, stale, updates, faults>>

-----------------------------------------------------------------------------
(* DeleteApp.                                                              *)

ProcsOf(p) == {q \in procs : q.ins = p}

\* RemoveApp and Stop of the next instance.
StopService(a, p) ==
  /\ At(a, "scan") /\ p \in dirs /\ p[1] = a
  /\ procs' = procs \ ProcsOf(p)
  /\ Goto(a, [op[a] EXCEPT !.pc = "uninstall", !.cur = p])
  /\ UNCHANGED <<want, dirs, svcDirs, units, mapping, ok, clean, leaked, stale, updates, faults>>

\* Stop or Uninstall fails: a warning, and DeleteApp goes on.
StopFails(a, p) ==
  /\ At(a, "scan") /\ p \in dirs /\ p[1] = a /\ Fault
  /\ leaked' = leaked \cup {p}
  /\ Goto(a, [op[a] EXCEPT !.pc = "uninstall", !.cur = p])
  /\ UNCHANGED <<want, dirs, svcDirs, units, procs, mapping, ok, clean, stale, updates>>

UninstallFails(a) ==
  /\ At(a, "uninstall") /\ Fault
  /\ leaked' = leaked \cup {op[a].cur}
  /\ dirs' = dirs \ {op[a].cur}
  /\ Goto(a, [op[a] EXCEPT !.pc = "scan", !.cur = <<>>])
  /\ UNCHANGED <<want, svcDirs, units, procs, mapping, ok, clean, stale, updates>>

\* Mutant: the directory goes first, the service in a later step.
UninstallDirFirst(a) ==
  /\ At(a, "uninstall")
  /\ dirs' = dirs \ {op[a].cur}
  /\ units' = IF op[a].cur \in dirs THEN units ELSE units \ {op[a].cur}
  /\ Goto(a, IF op[a].cur \in dirs THEN op[a] ELSE [op[a] EXCEPT !.pc = "scan", !.cur = <<>>])
  /\ UNCHANGED <<want, svcDirs, procs, mapping, ok, clean, leaked, stale, updates, faults>>

\* Uninstall, then RemoveAll of the directory of the instance.
Uninstall(a) ==
  /\ At(a, "uninstall")
  /\ units' = units \ {op[a].cur}
  /\ dirs' = dirs \ {op[a].cur}
  /\ Goto(a, [op[a] EXCEPT !.pc = "scan", !.cur = <<>>])
  /\ UNCHANGED <<want, svcDirs, procs, mapping, ok, clean, leaked, stale, updates, faults>>

\* Mutant: the entry of the mapping stays.
DropServiceKeepsPorts(a, d) ==
  /\ At(a, "scan") /\ d \in svcDirs /\ d[1] = a
  /\ \A p \in dirs : SvcDir(p) # d
  /\ svcDirs' = svcDirs \ {d}
  /\ UNCHANGED <<want, dirs, units, procs, mapping, op, ok, clean, leaked, stale, updates, faults>>

\* The directory of a service without instances, and the entry under the
\* name of the service.  The entry of a function is under the name of the
\* application and stays.
DropService(a, d) ==
  /\ At(a, "scan") /\ d \in svcDirs /\ d[1] = a
  /\ \A p \in dirs : SvcDir(p) # d
  /\ svcDirs' = svcDirs \ {d}
  /\ mapping' = [mapping EXCEPT ![d[3]] = {}]
  /\ stale' = stale \ {d[3]}
  /\ UNCHANGED <<want, dirs, units, procs, op, ok, clean, leaked, updates, faults>>

\* What follows DeleteApp: the engine's DeleteApp returns; ApplyApp goes on
\* with the first instance, or returns its error about the executable.
AfterDelete(a, good) ==
  CASE op[a].then = "return" -> Return(a, good)
    [] op[a].then = "fail"   -> Return(a, FALSE)
    [] op[a].then = "apply"  -> Goto(a, [op[a] EXCEPT !.pc = "next", !.cur = <<>>]) /\ UNCHANGED ok

DeleteDone(a) ==
  /\ At(a, "scan")
  /\ \A p \in dirs \cup svcDirs : p[1] # a
  /\ AfterDelete(a, TRUE)
  /\ UNCHANGED <<want, dirs, svcDirs, units, procs, mapping, clean, leaked, stale, updates, faults>>

\* Mutant: the error is logged and not returned.
DeleteFailsSilently(a) ==
  /\ At(a, "scan") \/ At(a, "uninstall")
  /\ Fault
  /\ units' = IF At(a, "scan") THEN units ELSE units \ {op[a].cur}
  /\ clean' = [clean EXCEPT ![a] = FALSE]
  /\ AfterDelete(a, TRUE)
  /\ UNCHANGED <<want, dirs, svcDirs, procs, mapping, leaked, stale, updates>>

\* A directory cannot be read or removed, before or after its service was
\* uninstalled.  ApplyApp only warns about any error of DeleteApp.
DeleteFails(a) ==
  /\ At(a, "scan") \/ At(a, "uninstall")
  /\ Fault
  /\ units' = IF At(a, "scan") THEN units ELSE units \ {op[a].cur}
  /\ clean' = [clean EXCEPT ![a] = FALSE]
  /\ AfterDelete(a, FALSE)
  /\ UNCHANGED <<want, dirs, svcDirs, procs, mapping, leaked, stale, updates>>

\* The mapping cannot be written: the directory that would have led another
\* call to the entry is gone already.
DeleteServicePortsFails(a, d) ==
  /\ At(a, "scan") /\ d \in svcDirs /\ d[1] = a /\ Fault
  /\ \A p \in dirs : SvcDir(p) # d
  /\ svcDirs' = svcDirs \ {d}
  /\ stale' = stale \cup {d[3]}
  /\ clean' = [clean EXCEPT ![a] = FALSE]
  /\ AfterDelete(a, FALSE)
  /\ UNCHANGED <<want, dirs, units, procs, mapping, leaked, updates>>

-----------------------------------------------------------------------------
(* ApplyApp, instance by instance.                                         *)

Current(a) == Path(a, op[a].ver, op[a].at)

\* Allocate of the port allocator: a port of the range that is neither
\* listened on nor on its way to a process.
FreePorts == Ports \ ({q.port : q \in procs}
                      \cup {op[b].port : b \in Apps} \cup UNION {op[b].ports : b \in Apps})

\* The directory of the instance, its volumes, the executable, the port and
\* the files of the service.
Prepare(a) ==
  /\ At(a, "next")
  /\ dirs' = dirs \cup {Current(a)}
  /\ svcDirs' = svcDirs \cup {SvcDir(Current(a))}
  /\ CASE <<a, op[a].ver>> \in NoExec ->
            Goto(a, [op[a] EXCEPT !.pc = "scan", !.then = "fail"]) /\ UNCHANGED ok
       [] <<a, op[a].ver>> \notin NoExec /\ FreePorts = {} -> Return(a, FALSE)
       [] OTHER -> Goto(a, [op[a] EXCEPT !.pc = "install", !.port = Min(FreePorts)])
                   /\ UNCHANGED ok
  /\ UNCHANGED <<want, units, procs, mapping, clean, leaked, stale, updates, faults>>

\* A directory, a volume, the entry or a file of the service fails.  What
\* was made stays.
PrepareFails(a) ==
  /\ At(a, "next") /\ Fault
  /\ \/ UNCHANGED <<dirs, svcDirs>>
     \/ dirs' = dirs \cup {Current(a)} /\ svcDirs' = svcDirs \cup {SvcDir(Current(a))}
  /\ Return(a, FALSE)
  /\ UNCHANGED <<want, units, procs, mapping, clean, leaked, stale, updates>>

\* Install, with an Uninstall and a second try when it fails.
InstallService(a) ==
  /\ At(a, "install")
  /\ units' = units \cup {Current(a)}
  /\ Goto(a, [op[a] EXCEPT !.pc = "start"])
  /\ UNCHANGED <<want, dirs, svcDirs, procs, mapping, ok, clean, leaked, stale, updates, faults>>

LastOfService(a) == LET i == op[a].at  plan == Plan[a][op[a].ver]
                    IN  i = Len(plan) \/ plan[i + 1][1] # plan[i][1]

\* Start, with a Stop and a second try when it fails; AddApp.  A service that
\* had been left behind under this name is the host's again.
StartService(a) ==
  /\ At(a, "start")
  /\ procs' = (procs \ ProcsOf(Current(a))) \cup {[ins |-> Current(a), port |-> op[a].port]}
  /\ Goto(a, [op[a] EXCEPT !.ports = @ \cup {op[a].port}, !.port = 0,
                !.pc = IF LastOfService(a) THEN "map" ELSE "next",
                !.at = IF LastOfService(a) THEN @ ELSE @ + 1])
  /\ leaked' = leaked \ {Current(a)}
  /\ UNCHANGED <<want, dirs, svcDirs, units, mapping, ok, clean, stale, updates, faults>>

\* The second try fails as well; the Uninstall or the Stop before it may have
\* removed what was left behind under this name.
ServiceFails(a) ==
  /\ Fault
  /\ \/ /\ At(a, "install")
        /\ units' \in {units, units \ {Current(a)}}
        /\ UNCHANGED procs
     \/ /\ At(a, "start")
        /\ procs' \in {procs, procs \ ProcsOf(Current(a))}
        /\ UNCHANGED units
  /\ Return(a, FALSE)
  /\ UNCHANGED <<want, dirs, svcDirs, mapping, clean, leaked, stale, updates>>

\* The name under which the ports of a service are found.
PortKey(a) == IF a \in Function THEN a ELSE Current(a)[3]

\* Mutant: ports is not declared inside the loop over the services.
SetServicePortsAll(a) ==
  /\ At(a, "map")
  /\ mapping' = [mapping EXCEPT ![PortKey(a)] = op[a].ports]
  /\ IF op[a].at = Len(Plan[a][op[a].ver]) THEN Return(a, TRUE)
     ELSE Goto(a, [op[a] EXCEPT !.pc = "next", !.at = @ + 1]) /\ UNCHANGED ok
  /\ UNCHANGED <<want, dirs, svcDirs, units, procs, clean, leaked, stale, updates, faults>>

\* The ports of one service; then the next service, or the end.
SetServicePorts(a) ==
  /\ At(a, "map")
  /\ mapping' = [mapping EXCEPT ![PortKey(a)] = op[a].ports]
  /\ IF op[a].at = Len(Plan[a][op[a].ver]) THEN Return(a, TRUE)
     ELSE Goto(a, [op[a] EXCEPT !.pc = "next", !.at = @ + 1, !.ports = {}]) /\ UNCHANGED ok
  /\ stale' = stale \ {PortKey(a)}
  /\ UNCHANGED <<want, dirs, svcDirs, units, procs, clean, leaked, updates, faults>>

SetServicePortsFails(a) ==
  /\ At(a, "map") /\ Fault
  /\ Return(a, FALSE)
  /\ UNCHANGED <<want, dirs, svcDirs, units, procs, mapping, clean, leaked, stale, updates>>

\* baetyl-core dies; the services stay.
Crash ==
  /\ \E a \in Apps : ~At(a, "idle")
  /\ Fault
  /\ op' = [a \in Apps |-> IdleOp]
  /\ ok' = [a \in Apps |-> ok[a] /\ At(a, "idle")]
  /\ UNCHANGED <<want, dirs, svcDirs, units, procs, mapping, clean, leaked, stale, updates>>

Step(a) == \/ CallDelete(a) \/ CallApply(a) \/ Uninstall(a) \/ DeleteDone(a)
           \/ Prepare(a) \/ InstallService(a) \/ StartService(a) \/ SetServicePorts(a)
           \/ \E p \in Instances : StopService(a, p) \/ DropService(a, SvcDir(p))

CallFails(a) == \/ DeleteFails(a) \/ UninstallFails(a) \/ PrepareFails(a)
                \/ ServiceFails(a) \/ SetServicePortsFails(a)
                \/ \E p \in Instances : StopFails(a, p) \/ DeleteServicePortsFails(a, SvcDir(p))

Next == Crash \/ \E a \in Apps : Desire(a) \/ Step(a) \/ CallFails(a)

\* The engine's ticker keeps calling and no call of the host blocks.
Spec == Init /\ [][Next]_vars /\ \A a \in Apps : WF_vars(Step(a))

-----------------------------------------------------------------------------
\* Every variable has its type.
TypeOK ==
  /\ want \in [Apps -> Versions \cup {None}]
  /\ dirs \subseteq Instances /\ units \subseteq Instances /\ leaked \subseteq Instances
  /\ svcDirs \subseteq {SvcDir(p) : p \in Instances} /\ stale \subseteq Names
  /\ procs \subseteq [ins : Instances, port : Ports]
  /\ mapping \in [Names -> SUBSET Ports]
  /\ \A a \in Apps : op[a].ports \subseteq Ports /\ op[a].port \in Ports \cup {0}
  /\ ok \in [Apps -> BOOLEAN] /\ clean \in [Apps -> BOOLEAN]
  /\ updates \in 0..MaxUpdates /\ faults \in 0..MaxFaults

\* The list and the calls, as the engine sees them.
Listed == [a \in Apps |-> StatsApps(a)]
Calls == [a \in Apps |-> IF At(a, "idle") THEN Idle
                         ELSE IF op[a].ver = None THEN Deleting ELSE op[a].ver]

\* ApplyApp, DeleteApp and StatsApps of the native AMI keep the contract the
\* engine relies on, although they work instance by instance, run at the
\* same time and give up in the middle.
Contract == INSTANCE Ami WITH listed <- Listed, call <- Calls
KeepsContract == Contract!Spec

\* A service that is installed, and a process that runs, can be found again:
\* whatever was interrupted, they have a directory that the next DeleteApp
\* goes through, because Uninstall comes before RemoveAll.  Only a Stop or
\* an Uninstall that fails, which DeleteApp logs and forgets, leaves one
\* that nothing will ever remove.
NothingLost == \A p \in units \cup {q.ins : q \in procs} : p \in dirs \/ p \in leaked

Lasting(S) == {p \in S : p \notin leaked}

\* What the last call for a promised is exactly what the host runs.
Exact(a) ==
  LET mine == IF StatsApps(a) = {} THEN {} ELSE InstancesOf(a, Seen(a))
  IN  /\ Lasting({p \in units : p[1] = a}) = Lasting(mine)
      /\ Lasting({q.ins : q \in {r \in procs : r.ins[1] = a}}) = Lasting(mine)

\* After a call that succeeded, and whose DeleteApp did, the services and
\* processes of the application are those of the listed version, all its
\* replicas and no others, whatever earlier calls had left half done.
SuccessIsExact == \A a \in Apps : At(a, "idle") /\ ok[a] /\ clean[a] => Exact(a)

\* Then the mapping has, for every service of a container application, the
\* ports of its own processes: no client is sent to a process that is gone
\* or to another application.  The exception is an entry that could not be
\* deleted, which stays until a service of that name is applied again.
MappingHonest ==
  \A a \in Apps \ Function : At(a, "idle") /\ ok[a] /\ clean[a] =>
    \A p \in Instances : p[1] = a /\ p[3] \notin stale =>
      mapping[p[3]] = {q.port : q \in {r \in procs : r.ins[1] = a /\ r.ins[3] = p[3]
                                                      /\ r.ins \notin leaked}}

\* The calls stop: in the end every application is listed as desired, and
\* exactly so unless its last call failed, which nobody retries once an
\* instance has a directory.
Settles ==
  <>[](\A a \in Apps : \/ <<a, want[a]>> \in NoExec
                       \/ /\ At(a, "idle") /\ Seen(a) = want[a]
                          /\ ok[a] /\ clean[a] => Exact(a))
=============================================================================
