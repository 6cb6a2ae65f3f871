--------------------------- MODULE Native_proofs ----------------------------
(***************************************************************************)
(* Proofs about module Native, for any applications, versions, plans,      *)
(* ports and bounds.                                                       *)
(*                                                                         *)
(* A call works on what belongs to its application only.  View(a) is all   *)
(* that is application a's own; a step of the call for a leaves View(b)    *)
(* of every other application as it is (the lemma Framed), so invariants   *)
(* that speak of one view need to be shown for the steps of its own        *)
(* application only.                                                       *)
(***************************************************************************)
EXTENDS Native, TLAPS, WellFoundedInduction

-----------------------------------------------------------------------------
(* Instances.                                                              *)

\* A plan is a sequence with at least one instance.
LEMMA PlanFact ==
  ASSUME NEW a \in Apps, NEW v \in Versions
  PROVE  /\ DOMAIN Plan[a][v] = 1..Len(Plan[a][v])
         /\ Len(Plan[a][v]) \in Nat \ {0}
<1>1. Plan[a][v] \in Seq(STRING \X Nat) /\ Plan[a][v] # <<>>
  BY PlanAssumption
<1> QED
  BY <1>1

\* What the path of an instance says.
LEMMA PathFact ==
  ASSUME NEW a \in Apps, NEW v \in Versions, NEW i \in DOMAIN Plan[a][v]
  PROVE  /\ Path(a, v, i) \in InstancesOf(a, v) /\ Path(a, v, i) \in Instances
         /\ Path(a, v, i)[1] = a /\ Path(a, v, i)[2] = v
         /\ Path(a, v, i)[3] = Plan[a][v][i][1]
<1>1. Path(a, v, i) \in InstancesOf(a, v)
  BY DEF InstancesOf
<1>2. Path(a, v, i) \in Instances
  BY <1>1 DEF Instances
<1> QED
  BY <1>1, <1>2 DEF Path

\* Every instance is one of the plan of its application and version.
LEMMA InstanceFact ==
  ASSUME NEW p \in Instances
  PROVE  /\ p[1] \in Apps /\ p[2] \in Versions
         /\ \E i \in DOMAIN Plan[p[1]][p[2]] : p = Path(p[1], p[2], i)
         /\ SvcDir(p)[1] = p[1] /\ SvcDir(p)[3] = p[3] /\ p[3] \in Names
<1>1. PICK a \in Apps, v \in Versions : p \in InstancesOf(a, v)
  BY DEF Instances
<1>2. PICK i \in DOMAIN Plan[a][v] : p = Path(a, v, i)
  BY <1>1 DEF InstancesOf
<1>3. p[1] = a /\ p[2] = v
  BY <1>2, PathFact
<1> QED
  BY <1>2, <1>3 DEF SvcDir, Names

\* Services of different applications, and functions, have different names.
LEMMA NamesApart ==
  ASSUME NEW p \in Instances, NEW q \in Instances
  PROVE  /\ p[1] # q[1] => p[3] # q[3]
         /\ p[3] \notin Function
<1>1. PICK i \in DOMAIN Plan[p[1]][p[2]] : p = Path(p[1], p[2], i)
  BY InstanceFact
<1>2. PICK j \in DOMAIN Plan[q[1]][q[2]] : q = Path(q[1], q[2], j)
  BY InstanceFact
<1>3. p[1] \in Apps /\ p[2] \in Versions /\ q[1] \in Apps /\ q[2] \in Versions
  BY InstanceFact
<1>4. p[3] = Plan[p[1]][p[2]][i][1] /\ q[3] = Plan[q[1]][q[2]][j][1]
  BY <1>1, <1>2, <1>3, PathFact
<1> QED
  BY <1>3, <1>4, NamesAssumption

-----------------------------------------------------------------------------
(* Types.                                                                  *)

Ops == [pc : {"idle", "scan", "uninstall", "next", "install", "start", "map"},
        ver : Versions \cup {None}, at : Nat, cur : Instances \cup {<<>>},
        then : {"return", "apply", "fail"}, port : Ports \cup {0}, ports : SUBSET Ports]

\* What a call that is under way knows: DeleteApp has no version, ApplyApp a
\* version and the position of an instance in its plan.
CallOK(a, r) ==
  /\ r \in Ops
  /\ r.pc # "idle" => (r.ver = None <=> r.then = "return")
  /\ r.pc # "idle" /\ r.ver # None => r.at \in DOMAIN Plan[a][r.ver]
  /\ r.pc \in {"next", "install", "start", "map"} => r.then = "apply"
  /\ r.pc \in {"install", "start"} => r.port \in Ports
  /\ r.pc = "uninstall" => r.cur \in Instances /\ r.cur[1] = a

\* TypeOK, with the types of the calls.
NativeTypes == /\ TypeOK
               /\ op \in [Apps -> Ops]
               /\ \A a \in Apps : CallOK(a, op[a])

\* The records that steps give a call have their type.
LEMMA OpTypes ==
  /\ IdleOp \in Ops
  /\ \A r \in Ops, v \in Versions : [r EXCEPT !.pc = "scan", !.ver = v, !.then = "apply"] \in Ops
  /\ \A r \in Ops, p \in Instances : [r EXCEPT !.pc = "uninstall", !.cur = p] \in Ops
  /\ \A r \in Ops : /\ [r EXCEPT !.pc = "scan"] \in Ops
                    /\ [r EXCEPT !.pc = "scan", !.cur = <<>>] \in Ops
                    /\ [r EXCEPT !.pc = "next", !.cur = <<>>] \in Ops
                    /\ [r EXCEPT !.pc = "scan", !.then = "fail"] \in Ops
                    /\ [r EXCEPT !.pc = "start"] \in Ops
  /\ \A r \in Ops, i \in Nat : [r EXCEPT !.pc = "next", !.at = i, !.ports = {}] \in Ops
  /\ \A r \in Ops, n \in Ports : [r EXCEPT !.pc = "install", !.port = n] \in Ops
  /\ \A r \in Ops, n \in Ports, l \in {"map", "next"}, i \in Nat :
       [r EXCEPT !.ports = @ \cup {n}, !.port = 0, !.pc = l, !.at = i] \in Ops
<1>1. IdleOp \in Ops
  BY DEF IdleOp, Ops
<1>2. ASSUME NEW r \in Ops, NEW v \in Versions
      PROVE  [r EXCEPT !.pc = "scan", !.ver = v, !.then = "apply"] \in Ops
  BY DEF Ops
<1>3. ASSUME NEW r \in Ops, NEW p \in Instances
      PROVE  [r EXCEPT !.pc = "uninstall", !.cur = p] \in Ops
  BY DEF Ops
<1>4. ASSUME NEW r \in Ops
      PROVE  /\ [r EXCEPT !.pc = "scan"] \in Ops
             /\ [r EXCEPT !.pc = "scan", !.cur = <<>>] \in Ops
             /\ [r EXCEPT !.pc = "next", !.cur = <<>>] \in Ops
             /\ [r EXCEPT !.pc = "scan", !.then = "fail"] \in Ops
             /\ [r EXCEPT !.pc = "start"] \in Ops
  BY DEF Ops
<1>5. ASSUME NEW r \in Ops, NEW i \in Nat
      PROVE  [r EXCEPT !.pc = "next", !.at = i, !.ports = {}] \in Ops
  BY DEF Ops
<1>6. ASSUME NEW r \in Ops, NEW n \in Ports
      PROVE  [r EXCEPT !.pc = "install", !.port = n] \in Ops
  BY DEF Ops
<1>7. ASSUME NEW r \in Ops, NEW n \in Ports, NEW l \in {"map", "next"}, NEW i \in Nat
      PROVE  [r EXCEPT !.ports = @ \cup {n}, !.port = 0, !.pc = l, !.at = i] \in Ops
  BY DEF Ops
<1> QED
  BY <1>1, <1>2, <1>3, <1>4, <1>5, <1>6, <1>7

\* The instance a call for a works on is one of the plan.
LEMMA CurrentFact ==
  ASSUME NativeTypes, NEW a \in Apps, ~At(a, "idle"), op[a].then # "return"
  PROVE  /\ op[a].ver \in Versions /\ op[a].at \in DOMAIN Plan[a][op[a].ver]
         /\ Current(a) \in InstancesOf(a, op[a].ver) /\ Current(a) \in Instances
         /\ Current(a)[1] = a /\ Current(a)[2] = op[a].ver
         /\ Current(a)[3] = Plan[a][op[a].ver][op[a].at][1]
         /\ SvcDir(Current(a))[1] = a /\ SvcDir(Current(a))[3] = Current(a)[3]
<1>1. op[a].ver \in Versions /\ op[a].at \in DOMAIN Plan[a][op[a].ver]
  BY DEF NativeTypes, CallOK, Ops, At
<1>2. Current(a) \in Instances
  BY <1>1, PathFact DEF Current
<1> QED
  BY <1>1, <1>2, PathFact, InstanceFact DEF Current

\* The port allocator gives away a port of the range.
LEMMA FreePortFact == FreePorts # {} => Min(FreePorts) \in Ports
<1> SUFFICES ASSUME FreePorts # {}
             PROVE  Min(FreePorts) \in Ports
  OBVIOUS
<1>1. FreePorts \subseteq Nat /\ FreePorts \subseteq Ports
  BY ValuesAssumption DEF FreePorts
<1>2. \E x \in FreePorts : \A y \in FreePorts : x <= y
  <2>1. PICK x \in FreePorts : \A y \in FreePorts : <<y, x>> \notin OpToRel(<, Nat)
    BY <1>1, NatLessThanWellFounded, WFMin
  <2>2. ASSUME NEW y \in FreePorts, ~(x <= y)
        PROVE  <<y, x>> \in OpToRel(<, Nat)
    <3>1. y \in Nat /\ x \in Nat /\ y < x
      BY <1>1, <2>2
    <3>2. <<y, x>> \in Nat \X Nat
      BY <3>1
    <3> QED
      BY <3>1, <3>2 DEF OpToRel
  <2> QED
    BY <2>1, <2>2
<1> QED
  BY <1>1, <1>2 DEF Min

\* The fields of a call at rest.
LEMMA IdleFact ==
  /\ IdleOp.pc = "idle" /\ IdleOp.ver = None /\ IdleOp.at = 1 /\ IdleOp.cur = <<>>
  /\ IdleOp.then = "return" /\ IdleOp.port = 0 /\ IdleOp.ports = {}
  BY DEF IdleOp

\* A call at rest, and calls that begin, know what they need.
LEMMA BeginOK ==
  ASSUME NEW a \in Apps
  PROVE  /\ CallOK(a, IdleOp)
         /\ CallOK(a, [IdleOp EXCEPT !.pc = "scan"])
         /\ \A v \in Versions : CallOK(a, [IdleOp EXCEPT !.pc = "scan", !.ver = v, !.then = "apply"])
<1>1. CallOK(a, IdleOp)
  BY OpTypes, IdleFact DEF CallOK
<1>2. CallOK(a, [IdleOp EXCEPT !.pc = "scan"])
  <2> DEFINE r == [IdleOp EXCEPT !.pc = "scan"]
  <2>1. r \in Ops /\ IdleOp \in Ops
    BY OpTypes
  <2>2. r.pc = "scan" /\ r.ver = None /\ r.then = "return"
    BY <2>1, IdleFact DEF Ops
  <2> QED
    BY <2>1, <2>2 DEF CallOK
<1>3. ASSUME NEW v \in Versions
      PROVE  CallOK(a, [IdleOp EXCEPT !.pc = "scan", !.ver = v, !.then = "apply"])
  <2> DEFINE r == [IdleOp EXCEPT !.pc = "scan", !.ver = v, !.then = "apply"]
  <2>1. r \in Ops /\ IdleOp \in Ops
    BY OpTypes
  <2>2. r.pc = "scan" /\ r.ver = v /\ r.then = "apply" /\ r.at = 1
    BY <2>1, IdleFact DEF Ops
  <2>3. 1 \in DOMAIN Plan[a][v] /\ v # None
    BY PlanFact, ValuesAssumption
  <2> QED
    BY <2>1, <2>2, <2>3 DEF CallOK
<1> QED
  BY <1>1, <1>2, <1>3

\* The records a call goes on with.
LEMMA GoOnOK ==
  ASSUME NEW a \in Apps, NEW r, CallOK(a, r), r.pc # "idle"
  PROVE  /\ \A p \in Instances : p[1] = a => CallOK(a, [r EXCEPT !.pc = "uninstall", !.cur = p])
         /\ CallOK(a, [r EXCEPT !.pc = "scan", !.cur = <<>>])
         /\ r.then = "apply" => CallOK(a, [r EXCEPT !.pc = "next", !.cur = <<>>])
         /\ r.ver # None => CallOK(a, [r EXCEPT !.pc = "scan", !.then = "fail"])
         /\ r.then = "apply" => \A n \in Ports : CallOK(a, [r EXCEPT !.pc = "install", !.port = n])
         /\ r.pc = "install" => CallOK(a, [r EXCEPT !.pc = "start"])
         /\ r.then = "apply" /\ r.at # Len(Plan[a][r.ver])
              => CallOK(a, [r EXCEPT !.pc = "next", !.at = @ + 1, !.ports = {}])
         /\ r.then = "apply" => \A n \in Ports, last \in BOOLEAN :
              (~last => r.at # Len(Plan[a][r.ver])) =>
                CallOK(a, [r EXCEPT !.ports = @ \cup {n}, !.port = 0,
                                    !.pc = IF last THEN "map" ELSE "next",
                                    !.at = IF last THEN @ ELSE @ + 1])
<1>0. /\ r \in Ops /\ r.at \in Nat
      /\ r.then = "apply" => r.ver \in Versions /\ r.at \in DOMAIN Plan[a][r.ver]
  BY DEF CallOK, Ops
<1>1. ASSUME NEW p \in Instances, p[1] = a
      PROVE  CallOK(a, [r EXCEPT !.pc = "uninstall", !.cur = p])
  <2> DEFINE s == [r EXCEPT !.pc = "uninstall", !.cur = p]
  <2>1. s \in Ops
    BY <1>0, OpTypes
  <2>2. s.pc = "uninstall" /\ s.cur = p /\ s.ver = r.ver /\ s.then = r.then /\ s.at = r.at
    BY <1>0 DEF Ops
  <2> QED
    BY <1>1, <2>1, <2>2 DEF CallOK
<1>2. CallOK(a, [r EXCEPT !.pc = "scan", !.cur = <<>>])
  <2> DEFINE s == [r EXCEPT !.pc = "scan", !.cur = <<>>]
  <2>1. s \in Ops
    BY <1>0, OpTypes
  <2>2. s.pc = "scan" /\ s.ver = r.ver /\ s.then = r.then /\ s.at = r.at
    BY <1>0 DEF Ops
  <2> QED
    BY <2>1, <2>2 DEF CallOK
<1>3. ASSUME r.then = "apply"
      PROVE  CallOK(a, [r EXCEPT !.pc = "next", !.cur = <<>>])
  <2> DEFINE s == [r EXCEPT !.pc = "next", !.cur = <<>>]
  <2>1. s \in Ops
    BY <1>0, OpTypes
  <2>2. s.pc = "next" /\ s.ver = r.ver /\ s.then = r.then /\ s.at = r.at
    BY <1>0 DEF Ops
  <2> QED
    BY <1>3, <2>1, <2>2 DEF CallOK
<1>4. ASSUME r.ver # None
      PROVE  CallOK(a, [r EXCEPT !.pc = "scan", !.then = "fail"])
  <2> DEFINE s == [r EXCEPT !.pc = "scan", !.then = "fail"]
  <2>1. s \in Ops
    BY <1>0, OpTypes
  <2>2. s.pc = "scan" /\ s.ver = r.ver /\ s.then = "fail" /\ s.at = r.at
    BY <1>0 DEF Ops
  <2> QED
    BY <1>4, <2>1, <2>2 DEF CallOK
<1>5. ASSUME r.then = "apply", NEW n \in Ports
      PROVE  CallOK(a, [r EXCEPT !.pc = "install", !.port = n])
  <2> DEFINE s == [r EXCEPT !.pc = "install", !.port = n]
  <2>1. s \in Ops
    BY <1>0, OpTypes
  <2>2. s.pc = "install" /\ s.ver = r.ver /\ s.then = r.then /\ s.at = r.at /\ s.port = n
    BY <1>0 DEF Ops
  <2> QED
    BY <1>5, <2>1, <2>2 DEF CallOK
<1>6. ASSUME r.pc = "install"
      PROVE  CallOK(a, [r EXCEPT !.pc = "start"])
  <2> DEFINE s == [r EXCEPT !.pc = "start"]
  <2>1. s \in Ops
    BY <1>0, OpTypes
  <2>2. s.pc = "start" /\ s.ver = r.ver /\ s.then = r.then /\ s.at = r.at /\ s.port = r.port
    BY <1>0 DEF Ops
  <2> QED
    BY <1>6, <2>1, <2>2 DEF CallOK
<1>7. ASSUME r.then = "apply", r.at # Len(Plan[a][r.ver])
      PROVE  CallOK(a, [r EXCEPT !.pc = "next", !.at = @ + 1, !.ports = {}])
  <2> DEFINE s == [r EXCEPT !.pc = "next", !.at = @ + 1, !.ports = {}]
  <2>0. r.at + 1 \in Nat
    BY <1>0
  <2>1. s \in Ops
    BY <1>0, <2>0, OpTypes
  <2>2. s.pc = "next" /\ s.ver = r.ver /\ s.then = r.then /\ s.at = r.at + 1
    BY <1>0 DEF Ops
  <2>3. r.at + 1 \in DOMAIN Plan[a][r.ver]
    BY <1>0, <1>7, PlanFact
  <2> QED
    BY <1>7, <2>1, <2>2, <2>3 DEF CallOK
<1>8. ASSUME r.then = "apply", NEW n \in Ports, NEW last \in BOOLEAN,
             ~last => r.at # Len(Plan[a][r.ver])
      PROVE  CallOK(a, [r EXCEPT !.ports = @ \cup {n}, !.port = 0,
                                 !.pc = IF last THEN "map" ELSE "next",
                                 !.at = IF last THEN @ ELSE @ + 1])
  <2> DEFINE l == IF last THEN "map" ELSE "next"
             i == IF last THEN r.at ELSE r.at + 1
             s == [r EXCEPT !.ports = @ \cup {n}, !.port = 0, !.pc = l, !.at = i]
  <2>3. i \in DOMAIN Plan[a][r.ver] /\ i \in Nat /\ l \in {"map", "next"}
    BY <1>0, <1>8, PlanFact
  <2>1. s \in Ops
    BY <1>0, <2>3, OpTypes
  <2>2. s.pc = l /\ s.ver = r.ver /\ s.then = r.then /\ s.at = i
    BY <1>0 DEF Ops
  <2>4. CallOK(a, s)
    BY <1>8, <2>1, <2>2, <2>3 DEF CallOK
  <2> QED
    BY <2>4
<1> QED
  BY <1>1, <1>2, <1>3, <1>4, <1>5, <1>6, <1>7, <1>8

\* The end of DeleteApp.
LEMMA AfterDeleteOK ==
  ASSUME NativeTypes, NEW a \in Apps, ~At(a, "idle"), NEW good \in BOOLEAN, AfterDelete(a, good)
  PROVE  /\ \E r : CallOK(a, r) /\ op' = [op EXCEPT ![a] = r]
         /\ ok' \in [Apps -> BOOLEAN]
<1>1. CallOK(a, op[a]) /\ op[a].pc # "idle" /\ op[a].then \in {"return", "fail", "apply"}
      /\ ok \in [Apps -> BOOLEAN]
  BY DEF NativeTypes, TypeOK, Ops, At
<1>2. CASE op[a].then = "return"
  BY <1>1, <1>2, BeginOK DEF AfterDelete, Return, Goto
<1>3. CASE op[a].then = "fail"
  BY <1>1, <1>3, BeginOK DEF AfterDelete, Return, Goto
<1>4. CASE op[a].then = "apply"
  BY <1>1, <1>4, GoOnOK DEF AfterDelete, Return, Goto
<1> QED
  BY <1>1, <1>2, <1>3, <1>4

\* A step of the call for a changes that call only, and the call knows what
\* it needs afterwards.
LEMMA CallStep ==
  ASSUME NativeTypes, NEW a \in Apps, Desire(a) \/ Step(a) \/ CallFails(a)
  PROVE  \/ op' = op
         \/ \E r : CallOK(a, r) /\ op' = [op EXCEPT ![a] = r]
<1>0. /\ CallOK(a, op[a]) /\ op[a] \in Ops
      /\ want \in [Apps -> Versions \cup {None}] /\ dirs \subseteq Instances
  BY DEF NativeTypes, TypeOK
<1>r. ASSUME NEW good, Return(a, good)
      PROVE  \E r : CallOK(a, r) /\ op' = [op EXCEPT ![a] = r]
  BY <1>r, BeginOK DEF Return, Goto
<1>1. CASE Desire(a)
  BY <1>1 DEF Desire
<1>2. CASE CallDelete(a)
  BY <1>2, BeginOK DEF CallDelete, Goto
<1>3. CASE CallApply(a)
  BY <1>0, <1>3, BeginOK DEF CallApply, Goto
<1>4. ASSUME NEW p \in Instances, StopService(a, p) \/ StopFails(a, p)
      PROVE  \E r : CallOK(a, r) /\ op' = [op EXCEPT ![a] = r]
  BY <1>0, <1>4, GoOnOK DEF StopService, StopFails, Goto, At
<1>5. CASE Uninstall(a) \/ UninstallFails(a)
  BY <1>0, <1>5, GoOnOK DEF Uninstall, UninstallFails, Goto, At
<1>6. CASE DeleteDone(a) \/ DeleteFails(a)
  BY <1>6, AfterDeleteOK DEF DeleteDone, DeleteFails, At
<1>7. ASSUME NEW p \in Instances, DropService(a, SvcDir(p)) \/ DeleteServicePortsFails(a, SvcDir(p))
      PROVE  \/ op' = op
             \/ \E r : CallOK(a, r) /\ op' = [op EXCEPT ![a] = r]
  BY <1>7, AfterDeleteOK DEF DropService, DeleteServicePortsFails, At
<1>8. CASE Prepare(a)
  <2>0. op[a].pc = "next" /\ op[a].then = "apply" /\ op[a].ver # None
    BY <1>0, <1>8 DEF Prepare, At, CallOK
  <2>1. CASE <<a, op[a].ver>> \in NoExec
    BY <1>0, <1>8, <2>0, <2>1, GoOnOK DEF Prepare, Goto
  <2>2. CASE <<a, op[a].ver>> \notin NoExec /\ FreePorts = {}
    BY <1>8, <1>r, <2>2 DEF Prepare
  <2>3. CASE <<a, op[a].ver>> \notin NoExec /\ FreePorts # {}
    BY <1>0, <1>8, <2>0, <2>3, GoOnOK, FreePortFact DEF Prepare, Goto
  <2> QED
    BY <2>1, <2>2, <2>3
<1>9. CASE PrepareFails(a) \/ ServiceFails(a) \/ SetServicePortsFails(a)
  BY <1>9, <1>r DEF PrepareFails, ServiceFails, SetServicePortsFails
<1>10. CASE InstallService(a)
  BY <1>0, <1>10, GoOnOK DEF InstallService, Goto, At
<1>11. CASE StartService(a)
  <2>0. op[a].pc = "start" /\ op[a].then = "apply" /\ op[a].port \in Ports
    BY <1>0, <1>11 DEF StartService, At, CallOK
  <2>1. LastOfService(a) \in BOOLEAN /\ (~LastOfService(a) => op[a].at # Len(Plan[a][op[a].ver]))
    BY DEF LastOfService
  <2> QED
    BY <1>0, <1>11, <2>0, <2>1, GoOnOK DEF StartService, Goto
<1>12. CASE SetServicePorts(a)
  <2>0. op[a].pc = "map" /\ op[a].then = "apply"
    BY <1>0, <1>12 DEF SetServicePorts, At, CallOK
  <2>1. CASE op[a].at = Len(Plan[a][op[a].ver])
    BY <1>12, <1>r, <2>1 DEF SetServicePorts
  <2>2. CASE op[a].at # Len(Plan[a][op[a].ver])
    BY <1>0, <1>12, <2>0, <2>2, GoOnOK DEF SetServicePorts, Goto
  <2> QED
    BY <2>1, <2>2
<1> QED
  BY <1>1, <1>2, <1>3, <1>4, <1>5, <1>6, <1>7, <1>8, <1>9, <1>10, <1>11, <1>12
  DEF Step, CallFails

\* TypeOK without the calls.
RestOK ==
  /\ want \in [Apps -> Versions \cup {None}]
  /\ dirs \subseteq Instances /\ units \subseteq Instances /\ leaked \subseteq Instances
  /\ svcDirs \subseteq {SvcDir(p) : p \in Instances} /\ stale \subseteq Names
  /\ procs \subseteq [ins : Instances, port : Ports]
  /\ mapping \in [Names -> SUBSET Ports]
  /\ ok \in [Apps -> BOOLEAN] /\ clean \in [Apps -> BOOLEAN]
  /\ updates \in 0..MaxUpdates /\ faults \in 0..MaxFaults

\* The name under which ports are stored is one of the mapping.
LEMMA PortKeyFact ==
  ASSUME NativeTypes, NEW a \in Apps, op[a].pc = "map"
  PROVE  PortKey(a) \in Names
<1>1. op[a].then = "apply"
  BY DEF NativeTypes, CallOK
<1>2. Current(a) \in Instances
  BY <1>1, CurrentFact DEF At
<1> QED
  BY <1>2 DEF PortKey, Names

\* The steps of a call keep the types of what it works on.
LEMMA RestStep ==
  ASSUME NativeTypes, NEW a \in Apps, Desire(a) \/ Step(a) \/ CallFails(a)
  PROVE  RestOK'
<1>0. RestOK /\ CallOK(a, op[a]) /\ op[a].ports \subseteq Ports
  BY DEF NativeTypes, TypeOK, RestOK
<1>b. MaxUpdates \in Nat /\ MaxFaults \in Nat
  BY NativeBoundsAssumption
<1>f. Fault => faults' \in 0..MaxFaults
  BY <1>0, <1>b DEF Fault, RestOK
<1>c. op[a].pc \in {"next", "install", "start", "map"} =>
        /\ Current(a) \in Instances
        /\ SvcDir(Current(a)) \in {SvcDir(p) : p \in Instances}
  BY <1>0, CurrentFact DEF CallOK, At
<1>r. ASSUME NEW good \in BOOLEAN, Return(a, good)
      PROVE  ok' \in [Apps -> BOOLEAN]
  BY <1>0, <1>r DEF Return, RestOK
<1>1. CASE Desire(a)
  <2>1. updates' \in 0..MaxUpdates
    BY <1>0, <1>1, <1>b DEF Desire, RestOK
  <2> QED
    BY <1>0, <1>1, <2>1 DEF Desire, RestOK
<1>2. CASE CallDelete(a)
  BY <1>0, <1>2 DEF CallDelete, RestOK
<1>3. CASE CallApply(a)
  BY <1>0, <1>3 DEF CallApply, RestOK
<1>4. ASSUME NEW p \in Instances, StopService(a, p)
      PROVE  RestOK'
  BY <1>0, <1>4 DEF StopService, RestOK
<1>5. ASSUME NEW p \in Instances, StopFails(a, p)
      PROVE  RestOK'
  BY <1>0, <1>5, <1>f DEF StopFails, RestOK
<1>6. CASE Uninstall(a)
  BY <1>0, <1>6 DEF Uninstall, RestOK
<1>7. CASE UninstallFails(a)
  <2>1. op[a].cur \in Instances
    BY <1>0, <1>7 DEF UninstallFails, At, CallOK
  <2> QED
    BY <1>0, <1>7, <1>f, <2>1 DEF UninstallFails, RestOK
<1>8. CASE DeleteDone(a)
  <2>1. ok' \in [Apps -> BOOLEAN]
    BY <1>8, AfterDeleteOK DEF DeleteDone, At
  <2> QED
    BY <1>0, <1>8, <2>1 DEF DeleteDone, RestOK
<1>9. CASE DeleteFails(a)
  <2>1. ok' \in [Apps -> BOOLEAN]
    BY <1>9, AfterDeleteOK DEF DeleteFails, At
  <2>2. units' \subseteq Instances
    BY <1>0, <1>9 DEF DeleteFails, RestOK
  <2>3. clean' \in [Apps -> BOOLEAN]
    BY <1>0, <1>9 DEF DeleteFails, RestOK
  <2> QED
    BY <1>0, <1>9, <1>f, <2>1, <2>2, <2>3 DEF DeleteFails, RestOK
<1>10. ASSUME NEW p \in Instances, DropService(a, SvcDir(p))
       PROVE  RestOK'
  <2>1. mapping' \in [Names -> SUBSET Ports]
    BY <1>0, <1>10 DEF DropService, RestOK
  <2> QED
    BY <1>0, <1>10, <2>1 DEF DropService, RestOK
<1>11. ASSUME NEW p \in Instances, DeleteServicePortsFails(a, SvcDir(p))
       PROVE  RestOK'
  <2>1. ok' \in [Apps -> BOOLEAN]
    BY <1>11, AfterDeleteOK DEF DeleteServicePortsFails, At
  <2>2. SvcDir(p)[3] \in Names
    BY InstanceFact
  <2>3. clean' \in [Apps -> BOOLEAN]
    BY <1>0, <1>11 DEF DeleteServicePortsFails, RestOK
  <2> QED
    BY <1>0, <1>11, <1>f, <2>1, <2>2, <2>3 DEF DeleteServicePortsFails, RestOK
<1>12. CASE Prepare(a)
  <2>1. ok' \in [Apps -> BOOLEAN]
    BY <1>0, <1>12, <1>r DEF Prepare, RestOK
  <2>2. dirs' \subseteq Instances /\ svcDirs' \subseteq {SvcDir(p) : p \in Instances}
    BY <1>0, <1>12, <1>c DEF Prepare, RestOK, At
  <2> QED
    BY <1>0, <1>12, <2>1, <2>2 DEF Prepare, RestOK
<1>13. CASE PrepareFails(a)
  <2>1. ok' \in [Apps -> BOOLEAN]
    BY <1>0, <1>13, <1>r DEF PrepareFails, RestOK
  <2>2. dirs' \subseteq Instances /\ svcDirs' \subseteq {SvcDir(p) : p \in Instances}
    BY <1>0, <1>13, <1>c DEF PrepareFails, RestOK, At
  <2> QED
    BY <1>0, <1>13, <1>f, <2>1, <2>2 DEF PrepareFails, RestOK
<1>14. CASE InstallService(a)
  BY <1>0, <1>14, <1>c DEF InstallService, RestOK, At
<1>15. CASE StartService(a)
  <2>1. op[a].port \in Ports /\ Current(a) \in Instances
    BY <1>0, <1>15, <1>c DEF StartService, CallOK, At
  <2>2. [ins |-> Current(a), port |-> op[a].port] \in [ins : Instances, port : Ports]
    BY <2>1
  <2>3. procs' \subseteq [ins : Instances, port : Ports]
    BY <1>0, <1>15, <2>2 DEF StartService, RestOK
  <2> QED
    BY <1>0, <1>15, <2>3 DEF StartService, RestOK
<1>16. CASE ServiceFails(a)
  <2>1. ok' \in [Apps -> BOOLEAN]
    BY <1>0, <1>16, <1>r DEF ServiceFails, RestOK
  <2>2. units' \subseteq Instances /\ procs' \subseteq [ins : Instances, port : Ports]
    BY <1>0, <1>16 DEF ServiceFails, RestOK
  <2> QED
    BY <1>0, <1>16, <1>f, <2>1, <2>2 DEF ServiceFails, RestOK
<1>17. CASE SetServicePorts(a)
  <2>1. ok' \in [Apps -> BOOLEAN]
    BY <1>0, <1>17, <1>r DEF SetServicePorts, RestOK
  <2>2. mapping' \in [Names -> SUBSET Ports]
    BY <1>0, <1>17, PortKeyFact DEF SetServicePorts, RestOK, At
  <2> QED
    BY <1>0, <1>17, <2>1, <2>2 DEF SetServicePorts, RestOK
<1>18. CASE SetServicePortsFails(a)
  BY <1>0, <1>18, <1>f, <1>r DEF SetServicePortsFails, RestOK
<1> QED
  BY <1>1, <1>2, <1>3, <1>4, <1>5, <1>6, <1>7, <1>8, <1>9, <1>10, <1>11, <1>12, <1>13,
     <1>14, <1>15, <1>16, <1>17, <1>18 DEF Step, CallFails

\* Every step keeps the types.
LEMMA TypeStep == NativeTypes /\ [Next]_vars => NativeTypes'
<1> SUFFICES ASSUME NativeTypes, [Next]_vars
             PROVE  NativeTypes'
  OBVIOUS
<1>1. op' \in [Apps -> Ops] /\ (\A a \in Apps : CallOK(a, op'[a])) /\ RestOK' => NativeTypes'
  BY DEF NativeTypes, TypeOK, RestOK, Ops, CallOK
<1>2. ASSUME NEW a \in Apps, Desire(a) \/ Step(a) \/ CallFails(a)
      PROVE  NativeTypes'
  <2>1. RestOK'
    BY <1>2, RestStep
  <2>2. op \in [Apps -> Ops] /\ \A b \in Apps : CallOK(b, op[b])
    BY DEF NativeTypes
  <2>3. op' \in [Apps -> Ops] /\ \A b \in Apps : CallOK(b, op'[b])
    <3>1. CASE op' = op
      BY <2>2, <3>1
    <3>2. ASSUME NEW r, CallOK(a, r), op' = [op EXCEPT ![a] = r]
          PROVE  op' \in [Apps -> Ops] /\ \A b \in Apps : CallOK(b, op'[b])
      <4>1. r \in Ops
        BY <3>2 DEF CallOK
      <4>2. op' \in [Apps -> Ops] /\ op'[a] = r /\ \A b \in Apps \ {a} : op'[b] = op[b]
        BY <2>2, <3>2, <4>1
      <4> QED
        BY <2>2, <3>2, <4>2
    <3> QED
      BY <1>2, <3>1, <3>2, CallStep
  <2> QED
    BY <1>1, <2>1, <2>3
<1>3. CASE Crash
  <2>1. RestOK'
    <3>1. faults' \in 0..MaxFaults
      BY <1>3, NativeBoundsAssumption DEF NativeTypes, TypeOK, Crash, Fault
    <3>2. ok' \in [Apps -> BOOLEAN]
      BY <1>3 DEF NativeTypes, TypeOK, Crash
    <3> QED
      BY <1>3, <3>1, <3>2 DEF NativeTypes, TypeOK, RestOK, Crash
  <2>2. op' = [a \in Apps |-> IdleOp]
    BY <1>3 DEF Crash
  <2>3. op' \in [Apps -> Ops] /\ \A a \in Apps : CallOK(a, op'[a])
    BY <2>2, BeginOK, OpTypes
  <2> QED
    BY <1>1, <2>1, <2>3
<1>4. CASE UNCHANGED vars
  <2>1. RestOK' /\ op' = op
    BY <1>4 DEF vars, NativeTypes, TypeOK, RestOK
  <2> QED
    BY <1>1, <2>1 DEF NativeTypes
<1> QED
  BY <1>2, <1>3, <1>4 DEF Next

\* The initial state has its types.
LEMMA TypeInit == Init => NativeTypes
<1> SUFFICES ASSUME Init
             PROVE  NativeTypes
  OBVIOUS
<1>1. op \in [Apps -> Ops] /\ \A a \in Apps : CallOK(a, op[a])
  BY BeginOK, OpTypes DEF Init
<1>2. updates \in 0..MaxUpdates /\ faults \in 0..MaxFaults
  BY NativeBoundsAssumption DEF Init
<1>3. ok \in [Apps -> BOOLEAN] /\ clean \in [Apps -> BOOLEAN]
  BY DEF Init
<1>4. mapping \in [Names -> SUBSET Ports] /\ want \in [Apps -> Versions \cup {None}]
  BY DEF Init
<1>5. \A a \in Apps : op[a].ports \subseteq Ports /\ op[a].port \in Ports \cup {0}
  BY <1>1 DEF Ops
<1>6. /\ dirs \subseteq Instances /\ units \subseteq Instances /\ leaked \subseteq Instances
      /\ svcDirs \subseteq {SvcDir(p) : p \in Instances} /\ stale \subseteq Names
      /\ procs \subseteq [ins : Instances, port : Ports]
  BY DEF Init
<1> QED
  BY <1>1, <1>2, <1>3, <1>4, <1>5, <1>6 DEF NativeTypes, TypeOK

-----------------------------------------------------------------------------
(* What belongs to an application.                                         *)

DirsOf(a) == {p \in dirs : p[1] = a}
UnitsOf(a) == {p \in units : p[1] = a}
LeakedOf(a) == {p \in leaked : p[1] = a}
SvcDirsOf(a) == {d \in svcDirs : d[1] = a}
RunsOf(a) == {q \in procs : q.ins[1] = a}
NamesOf(a) == {p[3] : p \in {x \in Instances : x[1] = a}}
MapOf(a) == [n \in NamesOf(a) |-> mapping[n]]
StaleOf(a) == stale \cap NamesOf(a)

View(a) == <<DirsOf(a), UnitsOf(a), LeakedOf(a), SvcDirsOf(a), RunsOf(a), MapOf(a), StaleOf(a),
             op[a], ok[a], clean[a]>>

\* Names of different applications are different, and none is a function's.
LEMMA NamesOfFact ==
  ASSUME NEW a \in Apps, NEW b \in Apps
  PROVE  /\ a # b => NamesOf(a) \cap NamesOf(b) = {}
         /\ NamesOf(a) \cap Function = {} /\ NamesOf(a) \subseteq Names
         /\ \A p \in Instances : p[1] = a => p[3] \in NamesOf(a) /\ SvcDir(p)[3] \in NamesOf(a)
  BY NamesApart, InstanceFact DEF NamesOf

\* The call for a leaves alone what belongs to b.
LEMMA Framed ==
  ASSUME NativeTypes, NEW a \in Apps, NEW b \in Apps, a # b, Desire(a) \/ Step(a) \/ CallFails(a)
  PROVE  View(b)' = View(b)
<1>0. /\ CallOK(a, op[a]) /\ op[a].ports \subseteq Ports
      /\ dirs \subseteq Instances /\ units \subseteq Instances /\ leaked \subseteq Instances
      /\ procs \subseteq [ins : Instances, port : Ports]
      /\ mapping \in [Names -> SUBSET Ports] /\ op \in [Apps -> Ops]
      /\ ok \in [Apps -> BOOLEAN] /\ clean \in [Apps -> BOOLEAN]
  BY DEF NativeTypes, TypeOK
<1>c. op[a].pc \in {"next", "install", "start", "map"} =>
        Current(a) \in Instances /\ Current(a)[1] = a /\ SvcDir(Current(a))[1] = a
  BY <1>0, CurrentFact DEF CallOK, At
<1>k. op[a].pc = "map" => PortKey(a) \notin NamesOf(b)
  BY <1>c, NamesOfFact DEF PortKey
<1>p. \A p \in Instances : SvcDir(p)[1] = a => SvcDir(p)[3] \notin NamesOf(b)
  BY NamesOfFact, InstanceFact
<1>o. op'[b] = op[b]
  BY <1>0, CallStep
<1>r. \A good : Return(a, good) => ok'[b] = ok[b]
  BY <1>0 DEF Return
<1>g. \A good : AfterDelete(a, good) => ok'[b] = ok[b]
  <2>1. op[a].then \in {"return", "apply", "fail"}
    BY <1>0 DEF Ops
  <2> QED
    BY <1>r, <2>1 DEF AfterDelete
<1> USE DEF View, DirsOf, UnitsOf, LeakedOf, SvcDirsOf, RunsOf, MapOf, StaleOf
<1>1. CASE Desire(a)
  BY <1>1, <1>o DEF Desire
<1>2. CASE CallDelete(a)
  BY <1>0, <1>2, <1>o DEF CallDelete
<1>3. CASE CallApply(a)
  BY <1>0, <1>3, <1>o DEF CallApply
<1>4. ASSUME NEW p \in Instances, StopService(a, p)
      PROVE  View(b)' = View(b)
  BY <1>4, <1>o DEF StopService, ProcsOf
<1>5. ASSUME NEW p \in Instances, StopFails(a, p)
      PROVE  View(b)' = View(b)
  BY <1>5, <1>o DEF StopFails
<1>6. CASE Uninstall(a)
  BY <1>0, <1>6, <1>o DEF Uninstall, CallOK, At
<1>7. CASE UninstallFails(a)
  BY <1>0, <1>7, <1>o DEF UninstallFails, CallOK, At
<1>8. CASE DeleteDone(a)
  BY <1>8, <1>o, <1>g DEF DeleteDone
<1>9. CASE DeleteFails(a)
  <2>1. UnitsOf(b)' = UnitsOf(b)
    BY <1>0, <1>9 DEF DeleteFails, CallOK, At
  <2>2. clean'[b] = clean[b]
    BY <1>0, <1>9 DEF DeleteFails
  <2> QED
    BY <1>9, <1>o, <1>g, <2>1, <2>2 DEF DeleteFails
<1>10. ASSUME NEW p \in Instances, DropService(a, SvcDir(p))
       PROVE  View(b)' = View(b)
  <2>1. MapOf(b)' = MapOf(b) /\ StaleOf(b)' = StaleOf(b)
    BY <1>0, <1>10, <1>p, NamesOfFact DEF DropService
  <2> QED
    BY <1>10, <1>o, <2>1 DEF DropService
<1>11. ASSUME NEW p \in Instances, DeleteServicePortsFails(a, SvcDir(p))
       PROVE  View(b)' = View(b)
  <2>1. StaleOf(b)' = StaleOf(b)
    BY <1>0, <1>11, <1>p DEF DeleteServicePortsFails
  <2>2. clean'[b] = clean[b]
    BY <1>0, <1>11 DEF DeleteServicePortsFails
  <2> QED
    BY <1>11, <1>o, <1>g, <2>1, <2>2 DEF DeleteServicePortsFails
<1>12. CASE Prepare(a)
  <2>1. DirsOf(b)' = DirsOf(b) /\ SvcDirsOf(b)' = SvcDirsOf(b)
    BY <1>12, <1>c DEF Prepare, At
  <2>2. ok'[b] = ok[b]
    BY <1>12, <1>r DEF Prepare
  <2> QED
    BY <1>12, <1>o, <2>1, <2>2 DEF Prepare
<1>13. CASE PrepareFails(a)
  <2>1. DirsOf(b)' = DirsOf(b) /\ SvcDirsOf(b)' = SvcDirsOf(b)
    BY <1>13, <1>c DEF PrepareFails, At
  <2>2. ok'[b] = ok[b]
    BY <1>13, <1>r DEF PrepareFails
  <2> QED
    BY <1>13, <1>o, <2>1, <2>2 DEF PrepareFails
<1>14. CASE InstallService(a)
  BY <1>14, <1>c, <1>o DEF InstallService, At
<1>15. CASE StartService(a)
  <2>1. RunsOf(b)' = RunsOf(b) /\ LeakedOf(b)' = LeakedOf(b)
    BY <1>15, <1>c DEF StartService, At, ProcsOf
  <2> QED
    BY <1>15, <1>o, <2>1 DEF StartService
<1>16. CASE ServiceFails(a)
  <2>1. RunsOf(b)' = RunsOf(b) /\ UnitsOf(b)' = UnitsOf(b)
    BY <1>16, <1>c DEF ServiceFails, At, ProcsOf
  <2>2. ok'[b] = ok[b]
    BY <1>16, <1>r DEF ServiceFails
  <2> QED
    BY <1>16, <1>o, <2>1, <2>2 DEF ServiceFails
<1>17. CASE SetServicePorts(a)
  <2>1. MapOf(b)' = MapOf(b) /\ StaleOf(b)' = StaleOf(b)
    BY <1>0, <1>17, <1>k, NamesOfFact DEF SetServicePorts, At
  <2>2. ok'[b] = ok[b]
    BY <1>17, <1>r DEF SetServicePorts
  <2> QED
    BY <1>17, <1>o, <2>1, <2>2 DEF SetServicePorts
<1>18. CASE SetServicePortsFails(a)
  BY <1>18, <1>o, <1>r DEF SetServicePortsFails
<1> QED
  BY <1>1, <1>2, <1>3, <1>4, <1>5, <1>6, <1>7, <1>8, <1>9, <1>10, <1>11, <1>12, <1>13,
     <1>14, <1>15, <1>16, <1>17, <1>18 DEF Step, CallFails

-----------------------------------------------------------------------------
(* The invariant of one application.                                       *)

InsOf(a) == {q.ins : q \in RunsOf(a)}

\* The first n instances of the plan.
Firsts(a, v, n) == {Path(a, v, i) : i \in 1..n}

\* The same but for what a failing Stop or Uninstall left behind.
Alike(a, S, T) == \A p : p \notin LeakedOf(a) => (p \in S <=> p \in T)

\* NothingLost, of one application.
Traced(a) == \A p \in UnitsOf(a) \cup InsOf(a) : p \in DirsOf(a) \/ p \in LeakedOf(a)

\* What a call has done of the instance it works on.
Working(a) ==
  /\ op[a].pc \in {"scan", "uninstall"} /\ op[a].then = "apply" => op[a].at = 1 /\ op[a].ports = {}
  /\ op[a].pc = "uninstall" => /\ op[a].cur \in DirsOf(a)
                               /\ op[a].cur \in LeakedOf(a) \/ op[a].cur \notin InsOf(a)
  /\ op[a].pc \in {"install", "start", "map"} => /\ Current(a) \in DirsOf(a)
                                                 /\ SvcDir(Current(a)) \in SvcDirsOf(a)
  /\ op[a].pc = "start" => Current(a) \in UnitsOf(a)
  /\ op[a].pc = "map" => LastOfService(a)

\* The first d instances have directories, u services, r processes.
Applied(a, d, u, r) == /\ DirsOf(a) = Firsts(a, op[a].ver, d)
                       /\ Alike(a, UnitsOf(a), Firsts(a, op[a].ver, u))
                       /\ Alike(a, InsOf(a), Firsts(a, op[a].ver, r))

\* How far an ApplyApp has come whose DeleteApp removed everything.
Progress(a) == clean[a] =>
  /\ op[a].pc = "next"    => Applied(a, op[a].at - 1, op[a].at - 1, op[a].at - 1)
  /\ op[a].pc = "install" => Applied(a, op[a].at, op[a].at - 1, op[a].at - 1)
  /\ op[a].pc = "start"   => Applied(a, op[a].at, op[a].at, op[a].at - 1)
  /\ op[a].pc = "map"     => Applied(a, op[a].at, op[a].at, op[a].at)

Good(a) == op[a].pc = "idle" /\ ok[a] /\ clean[a]

\* SuccessIsExact, of one application.
Settled(a) == Good(a) =>
  \E S \in {{}} \cup {InstancesOf(a, v) : v \in Versions} :
    DirsOf(a) = S /\ Alike(a, UnitsOf(a), S) /\ Alike(a, InsOf(a), S)

\* The ports of the processes of service n.
PortsOf(a, n) == {q.port : q \in {r \in RunsOf(a) : r.ins[3] = n /\ r.ins \notin LeakedOf(a)}}

\* The directory of a service leads to its entry of the mapping.
Entries(a) == \A n \in NamesOf(a) \ StaleOf(a) :
                MapOf(a)[n] # {} => \E d \in SvcDirsOf(a) : d[3] = n

\* The entries of the services that ApplyApp is done with, or has not come
\* to, are right, and it knows the ports of the service it is at.
Ported(a) == clean[a] /\ op[a].pc \in {"next", "install", "start", "map"} =>
  /\ op[a].ports = PortsOf(a, Current(a)[3])
  /\ \A n \in NamesOf(a) \ StaleOf(a) : n # Current(a)[3] => MapOf(a)[n] = PortsOf(a, n)

\* MappingHonest, of one application.
Honest(a) == Good(a) => \A n \in NamesOf(a) \ StaleOf(a) : MapOf(a)[n] = PortsOf(a, n)

Hosted(a) == Traced(a) /\ Working(a) /\ Progress(a) /\ Settled(a)
Mapped(a) == Entries(a) /\ Ported(a) /\ Honest(a)

NativeInv == /\ NativeTypes
             /\ \A a \in Apps : Hosted(a)
             /\ \A a \in Apps \ Function : Mapped(a)

\* The invariant speaks of the view only.
LEMMA Unframed ==
  ASSUME NEW b \in Apps, View(b)' = View(b)
  PROVE  /\ Hosted(b) => Hosted(b)'
         /\ Mapped(b) => Mapped(b)'
<1>1. /\ DirsOf(b)' = DirsOf(b) /\ UnitsOf(b)' = UnitsOf(b) /\ LeakedOf(b)' = LeakedOf(b)
      /\ SvcDirsOf(b)' = SvcDirsOf(b) /\ RunsOf(b)' = RunsOf(b)
      /\ MapOf(b)' = MapOf(b) /\ StaleOf(b)' = StaleOf(b)
      /\ op'[b] = op[b] /\ ok'[b] = ok[b] /\ clean'[b] = clean[b]
  BY DEF View
<1>2. InsOf(b)' = InsOf(b) /\ Current(b)' = Current(b) /\ (Good(b)' <=> Good(b))
      /\ (LastOfService(b)' <=> LastOfService(b))
  BY <1>1 DEF InsOf, Current, Good, LastOfService
<1>3. \A n : PortsOf(b, n)' = PortsOf(b, n)
  BY <1>1 DEF PortsOf
<1>4. Hosted(b) => Hosted(b)'
  BY <1>1, <1>2 DEF Hosted, Traced, Working, Progress, Settled, Applied, Alike
<1>5. Mapped(b) => Mapped(b)'
  BY <1>1, <1>2, <1>3 DEF Mapped, Entries, Ported, Honest
<1> QED
  BY <1>4, <1>5

\* The first instances of a plan, one more, and all of them.
LEMMA FirstsFact ==
  ASSUME NEW a \in Apps, NEW v \in Versions, NEW i \in DOMAIN Plan[a][v]
  PROVE  /\ i \in Nat \ {0} /\ i <= Len(Plan[a][v])
         /\ Firsts(a, v, i) = Firsts(a, v, i - 1) \cup {Path(a, v, i)}
         /\ Path(a, v, i) \notin Firsts(a, v, i - 1)
         /\ Firsts(a, v, 0) = {}
         /\ Firsts(a, v, Len(Plan[a][v])) = InstancesOf(a, v)
<1>1. i \in Nat \ {0} /\ i <= Len(Plan[a][v]) /\ Len(Plan[a][v]) \in Nat
  BY PlanFact
<1>2. 1..i = (1..(i - 1)) \cup {i}
  BY <1>1
<1>3. Firsts(a, v, i) = Firsts(a, v, i - 1) \cup {Path(a, v, i)}
  BY <1>2 DEF Firsts
<1>4. ASSUME NEW j \in 1..(i - 1), Path(a, v, i) = Path(a, v, j)
      PROVE  FALSE
  <2>1. j \in DOMAIN Plan[a][v] /\ j # i
    BY <1>1, PlanFact
  <2>2. Plan[a][v][i] \in STRING \X Nat /\ Plan[a][v][j] \in STRING \X Nat
    BY <2>1, PlanAssumption
  <2>3. Plan[a][v][i][1] = Plan[a][v][j][1] /\ Plan[a][v][i][2] = Plan[a][v][j][2]
    BY <1>4 DEF Path
  <2>4. Plan[a][v][i] = Plan[a][v][j]
    BY <2>2, <2>3
  <2> QED
    BY <2>1, <2>4, PlanAssumption
<1>5. Path(a, v, i) \notin Firsts(a, v, i - 1)
  BY <1>4 DEF Firsts
<1>6. Firsts(a, v, 0) = {}
  BY DEF Firsts
<1>7. Firsts(a, v, Len(Plan[a][v])) = InstancesOf(a, v)
  BY PlanFact DEF Firsts, InstancesOf
<1> QED
  BY <1>1, <1>3, <1>5, <1>6, <1>7

\* A call that has returned an error, or is about to delete, owes nothing
\* but that everything can be traced.
LEMMA TracedSuffices ==
  ASSUME NEW a \in Apps, Traced(a)',
         \/ op'[a].pc = "idle" /\ ~ok'[a]
         \/ op'[a].pc = "scan" /\ op'[a].then # "apply"
         \/ op'[a].pc = "next" /\ ~clean'[a]
  PROVE  Hosted(a)'
<1>1. Working(a)'
  BY DEF Working
<1>2. Progress(a)' /\ Settled(a)'
  BY DEF Progress, Settled, Good
<1> QED
  BY <1>1, <1>2 DEF Hosted

\* The end of DeleteApp, with or without an error.
LEMMA AfterDeleteFields ==
  ASSUME NativeTypes, NEW a \in Apps, ~At(a, "idle"), NEW good \in BOOLEAN, AfterDelete(a, good)
  PROVE  \/ op[a].then = "return" /\ op'[a] = IdleOp /\ ok'[a] = good
         \/ op[a].then = "fail" /\ op'[a] = IdleOp /\ ok'[a] = FALSE
         \/ /\ op[a].then = "apply" /\ op'[a].pc = "next" /\ op'[a].ver = op[a].ver
            /\ op'[a].at = op[a].at /\ op'[a].ports = op[a].ports /\ op'[a].then = "apply"
<1>1. op \in [Apps -> Ops] /\ op[a] \in Ops /\ op[a].then \in {"return", "fail", "apply"}
      /\ ok \in [Apps -> BOOLEAN]
  BY DEF NativeTypes, TypeOK, Ops
<1>2. CASE op[a].then = "return"
  BY <1>1, <1>2 DEF AfterDelete, Return, Goto
<1>3. CASE op[a].then = "fail"
  BY <1>1, <1>3 DEF AfterDelete, Return, Goto
<1>4. CASE op[a].then = "apply"
  <2>1. op'[a] = [op[a] EXCEPT !.pc = "next", !.cur = <<>>]
    BY <1>1, <1>4 DEF AfterDelete, Goto
  <2> QED
    BY <1>1, <1>4, <2>1 DEF Ops
<1> QED
  BY <1>1, <1>2, <1>3, <1>4

\* The steps of DeleteApp keep the invariant of their application.
LEMMA HostedDelete ==
  ASSUME NativeTypes, NEW a \in Apps, Hosted(a),
         \/ CallDelete(a) \/ CallApply(a) \/ Uninstall(a) \/ UninstallFails(a) \/ DeleteDone(a)
         \/ DeleteFails(a)
         \/ \E p \in Instances : \/ StopService(a, p) \/ StopFails(a, p)
                                 \/ DropService(a, SvcDir(p)) \/ DeleteServicePortsFails(a, SvcDir(p))
  PROVE  Hosted(a)'
<1>0. /\ op \in [Apps -> Ops] /\ op[a] \in Ops /\ CallOK(a, op[a]) /\ IdleOp \in Ops
      /\ dirs \subseteq Instances /\ leaked \subseteq Instances
      /\ clean \in [Apps -> BOOLEAN] /\ ok \in [Apps -> BOOLEAN]
      /\ Traced(a) /\ Working(a)
  BY OpTypes DEF NativeTypes, TypeOK, Hosted
<1> USE DEF DirsOf, UnitsOf, LeakedOf, SvcDirsOf, RunsOf
<1>1. CASE CallDelete(a)
  <2>1. op'[a] = [IdleOp EXCEPT !.pc = "scan"]
    BY <1>0, <1>1 DEF CallDelete, Goto
  <2>2. op'[a].pc = "scan" /\ op'[a].then # "apply"
    BY <1>0, <2>1, IdleFact DEF Ops
  <2>3. Traced(a)'
    BY <1>0, <1>1 DEF CallDelete, Traced, InsOf
  <2> QED
    BY <2>2, <2>3, TracedSuffices
<1>2. CASE CallApply(a)
  <2>1. op'[a] = [IdleOp EXCEPT !.pc = "scan", !.ver = want[a], !.then = "apply"]
    BY <1>0, <1>2 DEF CallApply, Goto
  <2>2. op'[a].pc = "scan" /\ op'[a].at = 1 /\ op'[a].ports = {}
    BY <1>0, <2>1, IdleFact DEF Ops
  <2>3. Traced(a)'
    BY <1>0, <1>2 DEF CallApply, Traced, InsOf
  <2> QED
    BY <2>2, <2>3 DEF Hosted, Working, Progress, Settled, Good
<1>3. ASSUME NEW p \in Instances, StopService(a, p)
      PROVE  Hosted(a)'
  <2>1. op'[a] = [op[a] EXCEPT !.pc = "uninstall", !.cur = p]
    BY <1>0, <1>3 DEF StopService, Goto
  <2>2. /\ op'[a].pc = "uninstall" /\ op'[a].cur = p /\ op'[a].then = op[a].then
        /\ op'[a].at = op[a].at /\ op'[a].ports = op[a].ports
    BY <1>0, <2>1 DEF Ops
  <2>3. InsOf(a)' \subseteq InsOf(a) /\ p \notin InsOf(a)' /\ p \in DirsOf(a)'
    BY <1>3 DEF StopService, InsOf, ProcsOf
  <2>4. UnitsOf(a)' = UnitsOf(a) /\ DirsOf(a)' = DirsOf(a) /\ LeakedOf(a)' = LeakedOf(a)
    BY <1>3 DEF StopService
  <2>5. Traced(a)'
    BY <1>0, <2>3, <2>4 DEF Traced
  <2>6. Working(a)'
    BY <1>0, <1>3, <2>2, <2>3 DEF Working, StopService, At
  <2> QED
    BY <2>2, <2>5, <2>6 DEF Hosted, Progress, Settled, Good
<1>4. ASSUME NEW p \in Instances, StopFails(a, p)
      PROVE  Hosted(a)'
  <2>1. op'[a] = [op[a] EXCEPT !.pc = "uninstall", !.cur = p]
    BY <1>0, <1>4 DEF StopFails, Goto
  <2>2. /\ op'[a].pc = "uninstall" /\ op'[a].cur = p /\ op'[a].then = op[a].then
        /\ op'[a].at = op[a].at /\ op'[a].ports = op[a].ports
    BY <1>0, <2>1 DEF Ops
  <2>3. p \in LeakedOf(a)' /\ p \in DirsOf(a)'
    BY <1>4 DEF StopFails
  <2>4. /\ UnitsOf(a)' = UnitsOf(a) /\ DirsOf(a)' = DirsOf(a) /\ LeakedOf(a) \subseteq LeakedOf(a)'
        /\ InsOf(a)' = InsOf(a)
    BY <1>4 DEF StopFails, InsOf
  <2>5. Traced(a)'
    BY <1>0, <2>4 DEF Traced
  <2>6. Working(a)'
    BY <1>0, <1>4, <2>2, <2>3 DEF Working, StopFails, At
  <2> QED
    BY <2>2, <2>5, <2>6 DEF Hosted, Progress, Settled, Good
<1>5. CASE Uninstall(a) \/ UninstallFails(a)
  <2>1. op'[a] = [op[a] EXCEPT !.pc = "scan", !.cur = <<>>]
    BY <1>0, <1>5 DEF Uninstall, UninstallFails, Goto
  <2>2. /\ op'[a].pc = "scan" /\ op'[a].then = op[a].then
        /\ op'[a].at = op[a].at /\ op'[a].ports = op[a].ports
    BY <1>0, <2>1 DEF Ops
  <2>3. /\ op[a].pc = "uninstall" /\ op[a].cur[1] = a
        /\ op[a].cur \in LeakedOf(a) \/ op[a].cur \notin InsOf(a)
    BY <1>0, <1>5 DEF Uninstall, UninstallFails, At, CallOK, Working
  <2>4. /\ DirsOf(a)' = DirsOf(a) \ {op[a].cur} /\ InsOf(a)' = InsOf(a)
        /\ \/ UnitsOf(a)' = UnitsOf(a) \ {op[a].cur} /\ LeakedOf(a)' = LeakedOf(a)
           \/ UnitsOf(a)' = UnitsOf(a) /\ LeakedOf(a)' = LeakedOf(a) \cup {op[a].cur}
    BY <1>5, <2>3 DEF Uninstall, UninstallFails, InsOf
  <2>5. Traced(a)'
    BY <1>0, <2>3, <2>4 DEF Traced
  <2>6. Working(a)'
    BY <1>0, <2>2, <2>3 DEF Working
  <2> QED
    BY <2>2, <2>5, <2>6 DEF Hosted, Progress, Settled, Good
<1>6. CASE DeleteDone(a)
  <2>0. op[a].pc = "scan" /\ AfterDelete(a, TRUE) /\ ~At(a, "idle")
    BY <1>6 DEF DeleteDone, At
  <2>1. DirsOf(a) = {}
    BY <1>6 DEF DeleteDone
  <2>2. /\ DirsOf(a)' = DirsOf(a) /\ UnitsOf(a)' = UnitsOf(a) /\ LeakedOf(a)' = LeakedOf(a)
        /\ InsOf(a)' = InsOf(a)
    BY <1>6 DEF DeleteDone, InsOf
  <2>3. Alike(a, UnitsOf(a), {})' /\ Alike(a, InsOf(a), {})'
    BY <1>0, <2>1, <2>2 DEF Traced, Alike
  <2>4. Traced(a)'
    BY <1>0, <2>2 DEF Traced
  <2>5. CASE op'[a] = IdleOp
    <3>1. Settled(a)'
      BY <2>1, <2>2, <2>3 DEF Settled
    <3> QED
      BY <2>4, <2>5, <3>1, IdleFact DEF Hosted, Working, Progress
  <2>6. CASE op[a].then = "apply" /\ op'[a].pc = "next" /\ op'[a].at = op[a].at
    <3>1. op'[a].at = 1
      BY <1>0, <2>0, <2>6 DEF Working
    <3>2. Firsts(a, op'[a].ver, 0) = {} /\ 1 - 1 = 0
      BY DEF Firsts
    <3>3. Applied(a, 0, 0, 0)'
      BY <2>1, <2>2, <2>3, <3>2 DEF Applied
    <3> QED
      BY <2>4, <2>6, <3>1, <3>3 DEF Hosted, Working, Progress, Settled, Good
  <2> QED
    BY <2>0, <2>5, <2>6, AfterDeleteFields
<1>7. CASE DeleteFails(a)
  <2>0. AfterDelete(a, FALSE) /\ ~At(a, "idle") /\ ~clean'[a]
    BY <1>0, <1>7 DEF DeleteFails, At
  <2>1. /\ DirsOf(a)' = DirsOf(a) /\ UnitsOf(a)' \subseteq UnitsOf(a)
        /\ LeakedOf(a)' = LeakedOf(a) /\ InsOf(a)' = InsOf(a)
    BY <1>7 DEF DeleteFails, InsOf
  <2>2. Traced(a)'
    BY <1>0, <2>1 DEF Traced
  <2> QED
    BY <2>0, <2>2, AfterDeleteFields, TracedSuffices, IdleFact
<1>8. ASSUME NEW p \in Instances, DropService(a, SvcDir(p))
      PROVE  Hosted(a)'
  <2>1. op'[a].pc = "scan" /\ op' = op
    BY <1>8 DEF DropService, At
  <2>2. /\ DirsOf(a)' = DirsOf(a) /\ UnitsOf(a)' = UnitsOf(a)
        /\ LeakedOf(a)' = LeakedOf(a) /\ InsOf(a)' = InsOf(a)
    BY <1>8 DEF DropService, InsOf
  <2>3. Traced(a)' /\ Working(a)'
    BY <1>0, <2>1, <2>2 DEF Traced, Working
  <2> QED
    BY <2>1, <2>3 DEF Hosted, Progress, Settled, Good
<1>9. ASSUME NEW p \in Instances, DeleteServicePortsFails(a, SvcDir(p))
      PROVE  Hosted(a)'
  <2>0. AfterDelete(a, FALSE) /\ ~At(a, "idle") /\ ~clean'[a]
    BY <1>0, <1>9 DEF DeleteServicePortsFails, At
  <2>1. /\ DirsOf(a)' = DirsOf(a) /\ UnitsOf(a)' = UnitsOf(a)
        /\ LeakedOf(a)' = LeakedOf(a) /\ InsOf(a)' = InsOf(a)
    BY <1>9 DEF DeleteServicePortsFails, InsOf
  <2>2. Traced(a)'
    BY <1>0, <2>1 DEF Traced
  <2> QED
    BY <2>0, <2>2, AfterDeleteFields, TracedSuffices, IdleFact
<1> QED
  BY <1>1, <1>2, <1>3, <1>4, <1>5, <1>6, <1>7, <1>8, <1>9

\* A call that returns.
LEMMA ReturnFields ==
  ASSUME NativeTypes, NEW a \in Apps, NEW good \in BOOLEAN, Return(a, good)
  PROVE  op'[a] = IdleOp /\ op'[a].pc = "idle" /\ ok'[a] = good
  BY IdleFact DEF NativeTypes, TypeOK, Return, Goto

\* The steps of ApplyApp keep the invariant of their application.
LEMMA HostedApply ==
  ASSUME NativeTypes, NEW a \in Apps, Hosted(a),
         \/ Prepare(a) \/ PrepareFails(a) \/ InstallService(a) \/ StartService(a)
         \/ ServiceFails(a) \/ SetServicePorts(a) \/ SetServicePortsFails(a)
  PROVE  Hosted(a)'
<1>0. /\ op \in [Apps -> Ops] /\ op[a] \in Ops /\ CallOK(a, op[a])
      /\ Traced(a) /\ Working(a) /\ Progress(a)
  BY DEF NativeTypes, Hosted
<1>p. op[a].pc \in {"next", "install", "start", "map"} /\ op[a].then = "apply"
  BY <1>0 DEF Prepare, PrepareFails, InstallService, StartService, ServiceFails,
              SetServicePorts, SetServicePortsFails, At, CallOK
<1>c. /\ op[a].ver \in Versions /\ op[a].at \in DOMAIN Plan[a][op[a].ver]
      /\ Current(a)[1] = a /\ SvcDir(Current(a))[1] = a
  BY <1>p, CurrentFact DEF At
<1> DEFINE F(n) == Firsts(a, op[a].ver, n)
           i == op[a].at
<1>n. /\ i \in Nat \ {0} /\ i <= Len(Plan[a][op[a].ver])
      /\ F(i) = F(i - 1) \cup {Current(a)}
      /\ F(Len(Plan[a][op[a].ver])) = InstancesOf(a, op[a].ver)
  BY <1>c, FirstsFact DEF Current
<1>w. ASSUME op'[a].ver = op[a].ver, op'[a].at = op[a].at
      PROVE  /\ Current(a)' = Current(a)
             /\ SvcDir(Current(a))' = SvcDir(Current(a))
             /\ LastOfService(a)' <=> LastOfService(a)
             /\ \A d, u, r : Applied(a, d, u, r)' <=>
                  /\ DirsOf(a)' = F(d)
                  /\ Alike(a, UnitsOf(a), F(u))'
                  /\ Alike(a, InsOf(a), F(r))'
  BY <1>w DEF Current, SvcDir, LastOfService, Applied, Alike
<1> USE DEF DirsOf, UnitsOf, LeakedOf, SvcDirsOf, RunsOf
<1>1. CASE Prepare(a)
  <2>0. op[a].pc = "next"
    BY <1>1 DEF Prepare, At
  <2>1. /\ DirsOf(a)' = DirsOf(a) \cup {Current(a)} /\ UnitsOf(a)' = UnitsOf(a)
        /\ LeakedOf(a)' = LeakedOf(a) /\ InsOf(a)' = InsOf(a)
        /\ SvcDir(Current(a)) \in SvcDirsOf(a)' /\ clean' = clean
    BY <1>1, <1>c DEF Prepare, InsOf
  <2>2. Traced(a)'
    BY <1>0, <2>1 DEF Traced
  <2>3. CASE <<a, op[a].ver>> \in NoExec
    <3>1. op'[a] = [op[a] EXCEPT !.pc = "scan", !.then = "fail"]
      BY <1>0, <1>1, <2>3 DEF Prepare, Goto
    <3>2. op'[a].pc = "scan" /\ op'[a].then = "fail"
      BY <1>0, <3>1 DEF Ops
    <3> QED
      BY <2>2, <3>2, TracedSuffices
  <2>4. CASE <<a, op[a].ver>> \notin NoExec /\ FreePorts = {}
    <3>1. Return(a, FALSE)
      BY <1>1, <2>4 DEF Prepare
    <3> QED
      BY <2>2, <3>1, ReturnFields, TracedSuffices
  <2>5. CASE <<a, op[a].ver>> \notin NoExec /\ FreePorts # {}
    <3>1. op'[a] = [op[a] EXCEPT !.pc = "install", !.port = Min(FreePorts)]
      BY <1>0, <1>1, <2>5 DEF Prepare, Goto
    <3>2. op'[a].pc = "install" /\ op'[a].ver = op[a].ver /\ op'[a].at = op[a].at
      BY <1>0, <3>1 DEF Ops
    <3>3. Working(a)'
      BY <1>w, <2>1, <3>2 DEF Working
    <3>4. ASSUME clean'[a]
          PROVE  Applied(a, i, i - 1, i - 1)'
      <4>1. DirsOf(a) = F(i - 1) /\ Alike(a, UnitsOf(a), F(i - 1)) /\ Alike(a, InsOf(a), F(i - 1))
        BY <1>0, <2>0, <2>1, <3>4 DEF Progress, Applied
      <4>2. DirsOf(a)' = F(i)
        BY <1>n, <2>1, <4>1
      <4>3. Alike(a, UnitsOf(a), F(i - 1))' /\ Alike(a, InsOf(a), F(i - 1))'
        BY <1>w, <2>1, <3>2, <4>1 DEF Alike
      <4> QED
        BY <1>w, <3>2, <4>2, <4>3
    <3> QED
      BY <2>2, <3>2, <3>3, <3>4 DEF Hosted, Progress, Settled, Good
  <2> QED
    BY <2>3, <2>4, <2>5
<1>2. CASE PrepareFails(a) \/ ServiceFails(a) \/ SetServicePortsFails(a)
  <2>1. Return(a, FALSE)
    BY <1>2 DEF PrepareFails, ServiceFails, SetServicePortsFails
  <2>2. DirsOf(a) \subseteq DirsOf(a)' /\ LeakedOf(a)' = LeakedOf(a)
    BY <1>2 DEF PrepareFails, ServiceFails, SetServicePortsFails
  <2>3. UnitsOf(a)' \subseteq UnitsOf(a) /\ InsOf(a)' \subseteq InsOf(a)
    BY <1>2 DEF PrepareFails, ServiceFails, SetServicePortsFails, InsOf
  <2>4. Traced(a)'
    BY <1>0, <2>2, <2>3 DEF Traced
  <2> QED
    BY <2>1, <2>4, ReturnFields, TracedSuffices
<1>3. CASE InstallService(a)
  <2>0. op[a].pc = "install"
    BY <1>3 DEF InstallService, At
  <2>1. /\ DirsOf(a)' = DirsOf(a) /\ UnitsOf(a)' = UnitsOf(a) \cup {Current(a)}
        /\ LeakedOf(a)' = LeakedOf(a) /\ InsOf(a)' = InsOf(a)
        /\ SvcDirsOf(a)' = SvcDirsOf(a) /\ clean' = clean
    BY <1>3, <1>c DEF InstallService, InsOf
  <2>2. Traced(a)'
    BY <1>0, <2>0, <2>1 DEF Traced, Working
  <2>3. op'[a] = [op[a] EXCEPT !.pc = "start"]
    BY <1>0, <1>3 DEF InstallService, Goto
  <2>4. op'[a].pc = "start" /\ op'[a].ver = op[a].ver /\ op'[a].at = op[a].at
    BY <1>0, <2>3 DEF Ops
  <2>5. Working(a)'
    BY <1>0, <1>w, <2>0, <2>1, <2>4 DEF Working
  <2>6. ASSUME clean'[a]
        PROVE  Applied(a, i, i, i - 1)'
    <3>1. DirsOf(a) = F(i) /\ Alike(a, UnitsOf(a), F(i - 1)) /\ Alike(a, InsOf(a), F(i - 1))
      BY <1>0, <2>0, <2>1, <2>6 DEF Progress, Applied
    <3>2. Alike(a, UnitsOf(a), F(i))' /\ Alike(a, InsOf(a), F(i - 1))'
      BY <1>n, <1>w, <2>1, <2>4, <3>1 DEF Alike
    <3> QED
      BY <1>w, <2>1, <2>4, <3>1, <3>2
  <2> QED
    BY <2>2, <2>4, <2>5, <2>6 DEF Hosted, Progress, Settled, Good
<1>4. CASE StartService(a)
  <2>0. op[a].pc = "start"
    BY <1>4 DEF StartService, At
  <2>1. /\ DirsOf(a)' = DirsOf(a) /\ UnitsOf(a)' = UnitsOf(a)
        /\ LeakedOf(a)' = LeakedOf(a) \ {Current(a)} /\ InsOf(a)' = InsOf(a) \cup {Current(a)}
        /\ SvcDirsOf(a)' = SvcDirsOf(a) /\ clean' = clean
    <3>1. InsOf(a)' = InsOf(a) \cup {Current(a)}
      <4>1. /\ \A q \in RunsOf(a)' : q \in RunsOf(a) \/ q.ins = Current(a)
            /\ \A q \in RunsOf(a) : q \in RunsOf(a)' \/ q.ins = Current(a)
        BY <1>4 DEF StartService, ProcsOf
      <4>2. [ins |-> Current(a), port |-> op[a].port] \in RunsOf(a)'
        BY <1>4, <1>c DEF StartService
      <4>3. Current(a) \in InsOf(a)'
        BY <4>2 DEF InsOf
      <4> QED
        BY <4>1, <4>3 DEF InsOf
    <3>2. LeakedOf(a)' = LeakedOf(a) \ {Current(a)}
      BY <1>4 DEF StartService
    <3> QED
      BY <1>4, <3>1, <3>2 DEF StartService
  <2>2. Traced(a)'
    BY <1>0, <2>0, <2>1 DEF Traced, Working
  <2>3. ASSUME clean'[a]
        PROVE  /\ DirsOf(a)' = F(i)
               /\ \A p : p \notin LeakedOf(a)' => /\ p \in UnitsOf(a)' <=> p \in F(i)
                                                  /\ p \in InsOf(a)' <=> p \in F(i)
    <3>1. DirsOf(a) = F(i) /\ Alike(a, UnitsOf(a), F(i)) /\ Alike(a, InsOf(a), F(i - 1))
      BY <1>0, <2>0, <2>1, <2>3 DEF Progress, Applied
    <3>2. Current(a) \in UnitsOf(a)
      BY <1>0, <2>0 DEF Working
    <3> QED
      BY <1>n, <2>1, <3>1, <3>2 DEF Alike
  <2>4. op'[a] = [op[a] EXCEPT !.ports = @ \cup {op[a].port}, !.port = 0,
                               !.pc = IF LastOfService(a) THEN "map" ELSE "next",
                               !.at = IF LastOfService(a) THEN @ ELSE @ + 1]
    BY <1>0, <1>4 DEF StartService, Goto
  <2>5. CASE LastOfService(a)
    <3>1. op'[a].pc = "map" /\ op'[a].ver = op[a].ver /\ op'[a].at = op[a].at
      BY <1>0, <2>4, <2>5 DEF Ops
    <3>2. Working(a)'
      BY <1>0, <1>w, <2>0, <2>1, <2>5, <3>1 DEF Working
    <3>3. ASSUME clean'[a]
          PROVE  Applied(a, i, i, i)'
      BY <1>w, <2>3, <3>1, <3>3 DEF Alike
    <3> QED
      BY <2>2, <3>1, <3>2, <3>3 DEF Hosted, Progress, Settled, Good
  <2>6. CASE ~LastOfService(a)
    <3>1. op'[a].pc = "next" /\ op'[a].ver = op[a].ver /\ op'[a].at = op[a].at + 1
      BY <1>0, <2>4, <2>6 DEF Ops
    <3>2. op'[a].at - 1 = i
      BY <1>n, <3>1
    <3>3. ASSUME clean'[a]
          PROVE  Applied(a, op[a].at - 1, op[a].at - 1, op[a].at - 1)'
      BY <2>3, <3>1, <3>2, <3>3 DEF Alike, Applied
    <3> QED
      BY <2>2, <3>1, <3>2, <3>3 DEF Hosted, Working, Progress, Settled, Good
  <2> QED
    BY <2>5, <2>6
<1>5. CASE SetServicePorts(a)
  <2>0. op[a].pc = "map"
    BY <1>5 DEF SetServicePorts, At
  <2>1. /\ DirsOf(a)' = DirsOf(a) /\ UnitsOf(a)' = UnitsOf(a)
        /\ LeakedOf(a)' = LeakedOf(a) /\ InsOf(a)' = InsOf(a) /\ clean' = clean
    BY <1>5 DEF SetServicePorts, InsOf
  <2>2. Traced(a)'
    BY <1>0, <2>1 DEF Traced
  <2>3. ASSUME clean'[a]
        PROVE  /\ DirsOf(a)' = F(i)
               /\ Alike(a, UnitsOf(a), F(i)) /\ Alike(a, InsOf(a), F(i))
    BY <1>0, <2>0, <2>1, <2>3 DEF Progress, Applied
  <2>4. CASE op[a].at = Len(Plan[a][op[a].ver])
    <3>1. Return(a, TRUE)
      BY <1>5, <2>4 DEF SetServicePorts
    <3>2. op'[a].pc = "idle"
      BY <3>1, ReturnFields
    <3>3. F(i) = InstancesOf(a, op[a].ver)
      BY <1>n, <2>4
    <3>4. ASSUME clean'[a]
          PROVE  \E S \in {{}} \cup {InstancesOf(a, v) : v \in Versions} :
                   DirsOf(a)' = S /\ Alike(a, UnitsOf(a), S)' /\ Alike(a, InsOf(a), S)'
      <4> DEFINE S == InstancesOf(a, op[a].ver)
      <4>1. S \in {{}} \cup {InstancesOf(a, v) : v \in Versions}
        BY <1>c
      <4>2. /\ DirsOf(a)' = S
            /\ \A p : p \notin LeakedOf(a)' => /\ p \in UnitsOf(a)' <=> p \in S
                                               /\ p \in InsOf(a)' <=> p \in S
        BY <2>1, <2>3, <3>3, <3>4 DEF Alike
      <4> QED
        BY <4>1, <4>2 DEF Alike
    <3>5. Settled(a)'
      BY <3>4 DEF Settled, Good, Alike
    <3> QED
      BY <2>2, <3>2, <3>5 DEF Hosted, Working, Progress
  <2>5. CASE op[a].at # Len(Plan[a][op[a].ver])
    <3>1. op'[a] = [op[a] EXCEPT !.pc = "next", !.at = @ + 1, !.ports = {}]
      BY <1>0, <1>5, <2>5 DEF SetServicePorts, Goto
    <3>2. op'[a].pc = "next" /\ op'[a].ver = op[a].ver /\ op'[a].at = op[a].at + 1
      BY <1>0, <3>1 DEF Ops
    <3>3. op'[a].at - 1 = i
      BY <1>n, <3>2
    <3>4. ASSUME clean'[a]
          PROVE  Applied(a, op[a].at - 1, op[a].at - 1, op[a].at - 1)'
      BY <2>1, <2>3, <3>2, <3>3, <3>4 DEF Alike, Applied
    <3> QED
      BY <2>2, <3>2, <3>3, <3>4 DEF Hosted, Working, Progress, Settled, Good
  <2> QED
    BY <2>4, <2>5
<1> QED
  BY <1>1, <1>2, <1>3, <1>4, <1>5

\* A call that deletes, has failed or could not delete everything owes the
\* mapping nothing but that its entries can be found.
LEMMA EntriesSuffice ==
  ASSUME NEW a \in Apps, Entries(a)',
         \/ op'[a].pc \in {"scan", "uninstall"}
         \/ op'[a].pc = "idle" /\ ~ok'[a]
         \/ ~clean'[a]
  PROVE  Mapped(a)'
  BY DEF Mapped, Ported, Honest, Good

\* Entries can be found while nobody touches the mapping and no directory
\* of a service goes.
LEMMA EntriesStay ==
  ASSUME NEW a \in Apps, Entries(a),
         UNCHANGED <<mapping, stale>>, svcDirs \subseteq svcDirs'
  PROVE  Entries(a)'
<1>1. MapOf(a)' = MapOf(a) /\ StaleOf(a)' = StaleOf(a) /\ SvcDirsOf(a) \subseteq SvcDirsOf(a)'
  BY DEF MapOf, StaleOf, SvcDirsOf
<1> QED
  BY <1>1 DEF Entries

\* The steps of DeleteApp keep what is said of the mapping.
LEMMA MappedDelete ==
  ASSUME NativeTypes, NEW a \in Apps, Hosted(a), Mapped(a),
         \/ CallDelete(a) \/ CallApply(a) \/ Uninstall(a) \/ UninstallFails(a) \/ DeleteDone(a)
         \/ DeleteFails(a)
         \/ \E p \in Instances : \/ StopService(a, p) \/ StopFails(a, p)
                                 \/ DropService(a, SvcDir(p)) \/ DeleteServicePortsFails(a, SvcDir(p))
  PROVE  Mapped(a)'
<1>0. /\ op \in [Apps -> Ops] /\ op[a] \in Ops /\ CallOK(a, op[a]) /\ IdleOp \in Ops
      /\ clean \in [Apps -> BOOLEAN] /\ ok \in [Apps -> BOOLEAN]
      /\ mapping \in [Names -> SUBSET Ports]
      /\ Traced(a) /\ Working(a) /\ Entries(a)
  BY OpTypes DEF NativeTypes, TypeOK, Hosted, Mapped
<1>1. CASE CallDelete(a)
  <2>1. op'[a] = [IdleOp EXCEPT !.pc = "scan"]
    BY <1>0, <1>1 DEF CallDelete, Goto
  <2>2. op'[a].pc = "scan"
    BY <1>0, <2>1 DEF Ops
  <2>3. Entries(a)'
    BY <1>0, <1>1, EntriesStay DEF CallDelete
  <2> QED
    BY <2>2, <2>3, EntriesSuffice
<1>2. CASE CallApply(a)
  <2>1. op'[a] = [IdleOp EXCEPT !.pc = "scan", !.ver = want[a], !.then = "apply"]
    BY <1>0, <1>2 DEF CallApply, Goto
  <2>2. op'[a].pc = "scan"
    BY <1>0, <2>1 DEF Ops
  <2>3. Entries(a)'
    BY <1>0, <1>2, EntriesStay DEF CallApply
  <2> QED
    BY <2>2, <2>3, EntriesSuffice
<1>3. ASSUME NEW p \in Instances, StopService(a, p) \/ StopFails(a, p)
      PROVE  Mapped(a)'
  <2>1. op'[a] = [op[a] EXCEPT !.pc = "uninstall", !.cur = p]
    BY <1>0, <1>3 DEF StopService, StopFails, Goto
  <2>2. op'[a].pc = "uninstall"
    BY <1>0, <2>1 DEF Ops
  <2>3. Entries(a)'
    BY <1>0, <1>3, EntriesStay DEF StopService, StopFails
  <2> QED
    BY <2>2, <2>3, EntriesSuffice
<1>4. CASE Uninstall(a) \/ UninstallFails(a)
  <2>1. op'[a] = [op[a] EXCEPT !.pc = "scan", !.cur = <<>>]
    BY <1>0, <1>4 DEF Uninstall, UninstallFails, Goto
  <2>2. op'[a].pc = "scan"
    BY <1>0, <2>1 DEF Ops
  <2>3. Entries(a)'
    BY <1>0, <1>4, EntriesStay DEF Uninstall, UninstallFails
  <2> QED
    BY <2>2, <2>3, EntriesSuffice
<1>5. CASE DeleteFails(a)
  <2>1. Entries(a)'
    BY <1>0, <1>5, EntriesStay DEF DeleteFails
  <2>2. ~clean'[a]
    BY <1>0, <1>5 DEF DeleteFails
  <2> QED
    BY <2>1, <2>2, EntriesSuffice
<1>6. ASSUME NEW p \in Instances, DropService(a, SvcDir(p))
      PROVE  Mapped(a)'
  <2> DEFINE d == SvcDir(p)
  <2>1. op'[a].pc = "scan"
    BY <1>6 DEF DropService, At
  <2>2. SvcDirsOf(a)' = SvcDirsOf(a) \ {d}
    BY <1>6 DEF DropService, SvcDirsOf
  <2>3. d[3] \in NamesOf(a) /\ NamesOf(a) \subseteq Names
    BY <1>6, InstanceFact, NamesOfFact DEF DropService
  <2>4. MapOf(a)' = [MapOf(a) EXCEPT ![d[3]] = {}] /\ StaleOf(a)' = StaleOf(a) \ {d[3]}
    BY <1>0, <1>6, <2>3 DEF DropService, MapOf, StaleOf
  <2>5. \A n \in NamesOf(a) : MapOf(a)'[n] = IF n = d[3] THEN {} ELSE MapOf(a)[n]
    BY <2>3, <2>4 DEF MapOf
  <2>6. Entries(a)'
    <3> SUFFICES ASSUME NEW n \in NamesOf(a), n \notin StaleOf(a)', MapOf(a)'[n] # {}
                 PROVE  \E e \in SvcDirsOf(a)' : e[3] = n
      BY DEF Entries
    <3>1. n # d[3] /\ n \notin StaleOf(a) /\ MapOf(a)[n] # {}
      BY <2>4, <2>5
    <3>2. PICK e \in SvcDirsOf(a) : e[3] = n
      BY <1>0, <3>1 DEF Entries
    <3> QED
      BY <2>2, <3>1, <3>2
  <2> QED
    BY <2>1, <2>6, EntriesSuffice
<1>7. ASSUME NEW p \in Instances, DeleteServicePortsFails(a, SvcDir(p))
      PROVE  Mapped(a)'
  <2> DEFINE d == SvcDir(p)
  <2>1. ~clean'[a]
    BY <1>0, <1>7 DEF DeleteServicePortsFails
  <2>2. SvcDirsOf(a)' = SvcDirsOf(a) \ {d} /\ MapOf(a)' = MapOf(a)
    BY <1>7 DEF DeleteServicePortsFails, SvcDirsOf, MapOf
  <2>3. d[3] \in NamesOf(a)
    BY <1>7, InstanceFact, NamesOfFact DEF DeleteServicePortsFails
  <2>4. StaleOf(a)' = StaleOf(a) \cup {d[3]}
    BY <1>7, <2>3 DEF DeleteServicePortsFails, StaleOf
  <2>5. Entries(a)'
    <3> SUFFICES ASSUME NEW n \in NamesOf(a), n \notin StaleOf(a)', MapOf(a)'[n] # {}
                 PROVE  \E e \in SvcDirsOf(a)' : e[3] = n
      BY DEF Entries
    <3>1. PICK e \in SvcDirsOf(a) : e[3] = n
      BY <1>0, <2>2, <2>4 DEF Entries
    <3> QED
      BY <2>2, <2>4, <3>1
  <2> QED
    BY <2>1, <2>5, EntriesSuffice
<1>8. CASE DeleteDone(a)
  <2>0. op[a].pc = "scan" /\ AfterDelete(a, TRUE) /\ ~At(a, "idle")
    BY <1>8 DEF DeleteDone, At
  <2>1. DirsOf(a) = {} /\ SvcDirsOf(a) = {}
    BY <1>8 DEF DeleteDone, DirsOf, SvcDirsOf
  <2>2. /\ RunsOf(a)' = RunsOf(a) /\ LeakedOf(a)' = LeakedOf(a)
        /\ MapOf(a)' = MapOf(a) /\ StaleOf(a)' = StaleOf(a)
    BY <1>8 DEF DeleteDone, RunsOf, LeakedOf, MapOf, StaleOf
  <2>3. ASSUME NEW n PROVE PortsOf(a, n)' = {}
    BY <1>0, <2>1, <2>2 DEF PortsOf, Traced, InsOf
  <2>4. \A n \in NamesOf(a) \ StaleOf(a)' : MapOf(a)'[n] = {}
    BY <1>0, <2>1, <2>2 DEF Entries
  <2>5. Entries(a)' /\ Honest(a)'
    BY <2>3, <2>4 DEF Entries, Honest
  <2>6. Ported(a)'
    <3>1. CASE op'[a] = IdleOp
      BY <3>1, IdleFact DEF Ported
    <3>2. CASE op[a].then = "apply" /\ op'[a].ports = op[a].ports
      <4>1. op'[a].ports = {}
        BY <1>0, <2>0, <3>2 DEF Working
      <4> QED
        BY <2>3, <2>4, <4>1 DEF Ported
    <3> QED
      BY <2>0, <3>1, <3>2, AfterDeleteFields
  <2> QED
    BY <2>5, <2>6 DEF Mapped
<1> QED
  BY <1>1, <1>2, <1>3, <1>4, <1>5, <1>6, <1>7, <1>8

\* Once the last replica of a service is started, the instances up to it
\* have nothing of the service that comes next.
LEMMA NextServiceIsNew ==
  ASSUME NEW a \in Apps, NEW v \in Versions, NEW i \in DOMAIN Plan[a][v],
         i + 1 \in DOMAIN Plan[a][v], Plan[a][v][i + 1][1] # Plan[a][v][i][1]
  PROVE  \A p \in Firsts(a, v, i) : p[3] # Plan[a][v][i + 1][1]
<1> SUFFICES ASSUME NEW j \in 1..i, Plan[a][v][j][1] = Plan[a][v][i + 1][1]
             PROVE  FALSE
  <2>1. ASSUME NEW j \in 1..i PROVE Path(a, v, j)[3] = Plan[a][v][j][1]
    BY DEF Path
  <2> QED
    BY <2>1 DEF Firsts
<1>1. j \in DOMAIN Plan[a][v] /\ i \in j..(i + 1)
  BY PlanFact
<1>2. Plan[a][v][i][1] = Plan[a][v][j][1]
  BY <1>1, PlanAssumption
<1> QED
  BY <1>2

\* The steps of ApplyApp keep what is said of the mapping.
LEMMA MappedApply ==
  ASSUME NativeTypes, NEW a \in Apps \ Function, Hosted(a), Mapped(a),
         \/ Prepare(a) \/ PrepareFails(a) \/ InstallService(a) \/ StartService(a)
         \/ ServiceFails(a) \/ SetServicePorts(a) \/ SetServicePortsFails(a)
  PROVE  Mapped(a)'
<1>0. /\ op \in [Apps -> Ops] /\ op[a] \in Ops /\ CallOK(a, op[a])
      /\ mapping \in [Names -> SUBSET Ports] /\ procs \subseteq [ins : Instances, port : Ports]
      /\ Traced(a) /\ Working(a) /\ Progress(a) /\ Entries(a) /\ Ported(a)
  BY DEF NativeTypes, TypeOK, Hosted, Mapped
<1>p. op[a].pc \in {"next", "install", "start", "map"} /\ op[a].then = "apply"
  BY <1>0 DEF Prepare, PrepareFails, InstallService, StartService, ServiceFails,
              SetServicePorts, SetServicePortsFails, At, CallOK
<1>c. /\ op[a].ver \in Versions /\ op[a].at \in DOMAIN Plan[a][op[a].ver]
      /\ Current(a) \in Instances /\ Current(a)[1] = a
      /\ Current(a)[3] = Plan[a][op[a].ver][op[a].at][1]
      /\ SvcDir(Current(a))[3] = Current(a)[3]
  BY <1>p, CurrentFact DEF At
<1>n. Current(a)[3] \in NamesOf(a) /\ NamesOf(a) \subseteq Names
  BY <1>c, NamesOfFact
<1> DEFINE v == op[a].ver
           i == op[a].at
           c == Current(a)
<1>m. /\ i \in Nat \ {0} /\ i <= Len(Plan[a][v]) /\ c \notin Firsts(a, v, i - 1)
      /\ i + 1 \in Nat
  BY <1>c, FirstsFact DEF Current
<1>q. ASSUME UNCHANGED <<procs, leaked, mapping, stale, clean>>,
             op'[a].ver = op[a].ver, op'[a].at = op[a].at, op'[a].ports = op[a].ports,
             op'[a].pc \notin {"idle"}
      PROVE  Ported(a)' /\ Honest(a)'
  <2>1. RunsOf(a)' = RunsOf(a) /\ LeakedOf(a)' = LeakedOf(a) /\ MapOf(a)' = MapOf(a)
        /\ StaleOf(a)' = StaleOf(a) /\ Current(a)' = Current(a)
    BY <1>q DEF RunsOf, LeakedOf, MapOf, StaleOf, Current
  <2>2. \A n : PortsOf(a, n)' = PortsOf(a, n)
    BY <2>1 DEF PortsOf
  <2> QED
    BY <1>0, <1>p, <1>q, <2>1, <2>2 DEF Ported, Honest, Good
<1>1. CASE Prepare(a)
  <2>1. Entries(a)'
    BY <1>0, <1>1, EntriesStay DEF Prepare
  <2>2. CASE <<a, op[a].ver>> \in NoExec
    <3>1. op'[a] = [op[a] EXCEPT !.pc = "scan", !.then = "fail"]
      BY <1>0, <1>1, <2>2 DEF Prepare, Goto
    <3>2. op'[a].pc = "scan"
      BY <1>0, <3>1 DEF Ops
    <3> QED
      BY <2>1, <3>2, EntriesSuffice
  <2>3. CASE <<a, op[a].ver>> \notin NoExec /\ FreePorts = {}
    <3>1. Return(a, FALSE)
      BY <1>1, <2>3 DEF Prepare
    <3> QED
      BY <2>1, <3>1, ReturnFields, EntriesSuffice
  <2>4. CASE <<a, op[a].ver>> \notin NoExec /\ FreePorts # {}
    <3>1. op'[a] = [op[a] EXCEPT !.pc = "install", !.port = Min(FreePorts)]
      BY <1>0, <1>1, <2>4 DEF Prepare, Goto
    <3>2. /\ op'[a].pc = "install" /\ op'[a].ver = op[a].ver /\ op'[a].at = op[a].at
          /\ op'[a].ports = op[a].ports
      BY <1>0, <3>1 DEF Ops
    <3> QED
      BY <1>1, <1>q, <2>1, <3>2 DEF Prepare, Mapped
  <2> QED
    BY <2>2, <2>3, <2>4
<1>2. CASE PrepareFails(a) \/ ServiceFails(a) \/ SetServicePortsFails(a)
  <2>1. Return(a, FALSE)
    BY <1>2 DEF PrepareFails, ServiceFails, SetServicePortsFails
  <2>2. Entries(a)'
    BY <1>0, <1>2, EntriesStay DEF PrepareFails, ServiceFails, SetServicePortsFails
  <2> QED
    BY <2>1, <2>2, ReturnFields, EntriesSuffice
<1>3. CASE InstallService(a)
  <2>1. Entries(a)'
    BY <1>0, <1>3, EntriesStay DEF InstallService
  <2>2. op'[a] = [op[a] EXCEPT !.pc = "start"]
    BY <1>0, <1>3 DEF InstallService, Goto
  <2>3. /\ op'[a].pc = "start" /\ op'[a].ver = op[a].ver /\ op'[a].at = op[a].at
        /\ op'[a].ports = op[a].ports
    BY <1>0, <2>2 DEF Ops
  <2> QED
    BY <1>3, <1>q, <2>1, <2>3 DEF InstallService, Mapped
<1>4. CASE StartService(a)
  <2>0. op[a].pc = "start"
    BY <1>4 DEF StartService, At
  <2>1. Entries(a)'
    BY <1>0, <1>4, EntriesStay DEF StartService
  <2>2. op'[a] = [op[a] EXCEPT !.ports = @ \cup {op[a].port}, !.port = 0,
                               !.pc = IF LastOfService(a) THEN "map" ELSE "next",
                               !.at = IF LastOfService(a) THEN @ ELSE @ + 1]
    BY <1>0, <1>4 DEF StartService, Goto
  <2>3. /\ op'[a].pc \in {"map", "next"} /\ op'[a].ver = v
        /\ op'[a].at = (IF LastOfService(a) THEN i ELSE i + 1)
        /\ op'[a].ports = op[a].ports \cup {op[a].port}
    BY <1>0, <2>2 DEF Ops
  <2>4. Current(a)'[3] = c[3]
    <3>1. Current(a)'[3] = Plan[a][v][op'[a].at][1]
      BY <2>3 DEF Current, Path
    <3>2. ~LastOfService(a) => Plan[a][v][i + 1][1] = Plan[a][v][i][1]
      BY DEF LastOfService
    <3> QED
      BY <1>c, <2>3, <3>1, <3>2
  <2>5. ASSUME clean'[a]
        PROVE  \A n : PortsOf(a, n)' = IF n = c[3] THEN PortsOf(a, n) \cup {op[a].port}
                                                  ELSE PortsOf(a, n)
    <3> DEFINE new == [ins |-> c, port |-> op[a].port]
               Last(n) == {r \in RunsOf(a) : r.ins[3] = n /\ r.ins \notin LeakedOf(a)}
               LastNew(n) == {r \in RunsOf(a)' : r.ins[3] = n /\ r.ins \notin LeakedOf(a)'}
    <3>1. LeakedOf(a)' = LeakedOf(a) \ {c}
      BY <1>4 DEF StartService, LeakedOf
    <3>2. RunsOf(a)' = {q \in RunsOf(a) : q.ins # c} \cup {new}
      BY <1>4, <1>c DEF StartService, RunsOf, ProcsOf
    <3>3. clean[a]
      BY <1>4, <2>5 DEF StartService
    <3>4. c \in InsOf(a) => c \in LeakedOf(a)
      BY <1>0, <1>m, <2>0, <3>3 DEF Progress, Applied, Alike
    <3>5. \A q \in RunsOf(a) : q.ins = c => q.ins \in LeakedOf(a)
      BY <3>4 DEF InsOf
    <3>6. new.ins = c /\ new.port = op[a].port
      OBVIOUS
    <3>7. LastNew(c[3]) = Last(c[3]) \cup {new}
      BY <3>1, <3>2, <3>5, <3>6
    <3>8. \A n : n # c[3] => LastNew(n) = Last(n)
      BY <3>1, <3>2, <3>5, <3>6
    <3>9. \A n : PortsOf(a, n)' = {q.port : q \in LastNew(n)} /\ PortsOf(a, n) = {q.port : q \in Last(n)}
      BY DEF PortsOf
    <3> HIDE DEF Last, LastNew, new
    <3>10. {q.port : q \in Last(c[3]) \cup {new}} = {q.port : q \in Last(c[3])} \cup {op[a].port}
      BY <3>6
    <3> QED
      BY <3>7, <3>8, <3>9, <3>10
  <2>6. MapOf(a)' = MapOf(a) /\ StaleOf(a)' = StaleOf(a) /\ clean' = clean
    BY <1>4 DEF StartService, MapOf, StaleOf
  <2>7. Ported(a)'
    BY <1>0, <2>0, <2>3, <2>4, <2>5, <2>6 DEF Ported
  <2> QED
    BY <2>1, <2>3, <2>7 DEF Mapped, Honest, Good
<1>5. CASE SetServicePorts(a)
  <2>0. op[a].pc = "map" /\ LastOfService(a)
    BY <1>0, <1>5 DEF SetServicePorts, At, Working
  <2>1. PortKey(a) = c[3]
    BY DEF PortKey
  <2>2. /\ SvcDirsOf(a)' = SvcDirsOf(a) /\ StaleOf(a)' = StaleOf(a) \ {c[3]}
        /\ RunsOf(a)' = RunsOf(a) /\ LeakedOf(a)' = LeakedOf(a) /\ clean' = clean
    BY <1>5, <2>1 DEF SetServicePorts, SvcDirsOf, StaleOf, RunsOf, LeakedOf
  <2>3. \A n \in NamesOf(a) : MapOf(a)'[n] = IF n = c[3] THEN op[a].ports ELSE MapOf(a)[n]
    BY <1>0, <1>5, <1>n, <2>1 DEF SetServicePorts, MapOf
  <2>4. \A n : PortsOf(a, n)' = PortsOf(a, n)
    BY <2>2 DEF PortsOf
  <2>5. Entries(a)'
    <3> SUFFICES ASSUME NEW n \in NamesOf(a), n \notin StaleOf(a)', MapOf(a)'[n] # {}
                 PROVE  \E e \in SvcDirsOf(a)' : e[3] = n
      BY DEF Entries
    <3>1. CASE n = c[3]
      BY <1>0, <1>c, <2>0, <2>2, <3>1 DEF Working
    <3>2. CASE n # c[3]
      BY <1>0, <2>2, <2>3, <3>2 DEF Entries
    <3> QED
      BY <3>1, <3>2
  <2>6. clean'[a] => \A n \in NamesOf(a) : n \notin StaleOf(a)' => MapOf(a)'[n] = PortsOf(a, n)'
    BY <1>0, <2>0, <2>2, <2>3, <2>4 DEF Ported
  <2>7. Honest(a)'
    BY <2>6 DEF Honest, Good
  <2>8. Ported(a)'
    <3>1. CASE op[a].at = Len(Plan[a][op[a].ver])
      <4>1. Return(a, TRUE)
        BY <1>5, <3>1 DEF SetServicePorts
      <4> QED
        BY <4>1, ReturnFields DEF Ported
    <3>2. CASE op[a].at # Len(Plan[a][op[a].ver])
      <4>1. op'[a] = [op[a] EXCEPT !.pc = "next", !.at = @ + 1, !.ports = {}]
        BY <1>0, <1>5, <3>2 DEF SetServicePorts, Goto
      <4>2. op'[a].ver = v /\ op'[a].at = i + 1 /\ op'[a].ports = {}
        BY <1>0, <4>1 DEF Ops
      <4>3. Current(a)'[3] = Plan[a][v][i + 1][1]
        BY <4>2 DEF Current, Path
      <4>4. i + 1 \in DOMAIN Plan[a][v] /\ Plan[a][v][i + 1][1] # Plan[a][v][i][1]
        BY <1>c, <1>m, <2>0, <3>2, PlanFact DEF LastOfService
      <4>5. \A p \in Firsts(a, v, i) : p[3] # Plan[a][v][i + 1][1]
        BY <1>c, <4>4, NextServiceIsNew
      <4>6. ASSUME clean[a]
            PROVE  PortsOf(a, Plan[a][v][i + 1][1]) = {}
        <5>1. Alike(a, InsOf(a), Firsts(a, v, i))
          BY <1>0, <2>0, <4>6 DEF Progress, Applied
        <5> QED
          BY <4>5, <5>1 DEF PortsOf, Alike, InsOf
      <4> QED
        BY <2>2, <2>4, <2>6, <4>2, <4>3, <4>6 DEF Ported
    <3> QED
      BY <3>1, <3>2
  <2> QED
    BY <2>5, <2>7, <2>8 DEF Mapped
<1> QED
  BY <1>1, <1>2, <1>3, <1>4, <1>5

\* Every step keeps the invariant.
LEMMA NativeStep == NativeInv /\ [Next]_vars => NativeInv'
<1> SUFFICES ASSUME NativeInv, [Next]_vars
             PROVE  NativeInv'
  OBVIOUS
<1>0. NativeTypes' /\ NativeTypes
  BY TypeStep DEF NativeInv
<1>1. ASSUME NEW a \in Apps, Desire(a) \/ Step(a) \/ CallFails(a)
      PROVE  NativeInv'
  <2>1. ASSUME NEW b \in Apps \ {a}
        PROVE  View(b)' = View(b)
    BY <1>0, <1>1, Framed
  <2>2. Hosted(a)' /\ (a \notin Function => Mapped(a)')
    <3>1. CASE Desire(a)
      <4>1. View(a)' = View(a)
        BY <3>1 DEF Desire, View, DirsOf, UnitsOf, LeakedOf, SvcDirsOf, RunsOf, MapOf, StaleOf
      <4> QED
        BY <4>1, Unframed DEF NativeInv
    <3>2. CASE \/ CallDelete(a) \/ CallApply(a) \/ Uninstall(a) \/ UninstallFails(a)
               \/ DeleteDone(a) \/ DeleteFails(a)
               \/ \E p \in Instances :
                    \/ StopService(a, p) \/ StopFails(a, p)
                    \/ DropService(a, SvcDir(p)) \/ DeleteServicePortsFails(a, SvcDir(p))
      BY <1>0, <3>2, HostedDelete, MappedDelete DEF NativeInv
    <3>3. CASE \/ Prepare(a) \/ PrepareFails(a) \/ InstallService(a) \/ StartService(a)
               \/ ServiceFails(a) \/ SetServicePorts(a) \/ SetServicePortsFails(a)
      BY <1>0, <3>3, HostedApply, MappedApply DEF NativeInv
    <3> QED
      BY <1>1, <3>1, <3>2, <3>3 DEF Step, CallFails
  <2> QED
    BY <1>0, <2>1, <2>2, Unframed DEF NativeInv
<1>2. CASE Crash
  <2>1. ASSUME NEW a \in Apps
        PROVE  Hosted(a)' /\ (a \notin Function => Mapped(a)')
    <3>0. op'[a] = IdleOp /\ ok'[a] = (ok[a] /\ op[a].pc = "idle")
      BY <1>2 DEF Crash, At
    <3>1. /\ DirsOf(a)' = DirsOf(a) /\ UnitsOf(a)' = UnitsOf(a) /\ LeakedOf(a)' = LeakedOf(a)
          /\ SvcDirsOf(a)' = SvcDirsOf(a) /\ RunsOf(a)' = RunsOf(a) /\ InsOf(a)' = InsOf(a)
          /\ MapOf(a)' = MapOf(a) /\ StaleOf(a)' = StaleOf(a) /\ clean' = clean
      BY <1>2 DEF Crash, DirsOf, UnitsOf, LeakedOf, SvcDirsOf, RunsOf, MapOf, StaleOf, InsOf
    <3>2. Good(a)' => Good(a)
      BY <3>0, <3>1 DEF Good
    <3>3. \A n : PortsOf(a, n)' = PortsOf(a, n)
      BY <3>1 DEF PortsOf
    <3>4. Traced(a)' /\ Working(a)' /\ Progress(a)'
      BY <3>0, <3>1, IdleFact DEF NativeInv, Hosted, Traced, Working, Progress
    <3>5. Settled(a)'
      BY <3>1, <3>2 DEF NativeInv, Hosted, Settled, Alike
    <3>6. a \notin Function => Entries(a)' /\ Ported(a)' /\ Honest(a)'
      BY <3>0, <3>1, <3>2, <3>3, IdleFact DEF NativeInv, Mapped, Entries, Ported, Honest
    <3> QED
      BY <3>4, <3>5, <3>6 DEF Hosted, Mapped
  <2> QED
    BY <1>0, <2>1 DEF NativeInv
<1>3. CASE UNCHANGED vars
  <2>1. ASSUME NEW a \in Apps
        PROVE  View(a)' = View(a)
    BY <1>3 DEF vars, View, DirsOf, UnitsOf, LeakedOf, SvcDirsOf, RunsOf, MapOf, StaleOf
  <2> QED
    BY <1>0, <2>1, Unframed DEF NativeInv
<1> QED
  BY <1>1, <1>2, <1>3 DEF Next

\* Nothing is there at the start.
LEMMA NativeInit == Init => NativeInv
<1> SUFFICES ASSUME Init
             PROVE  NativeInv
  OBVIOUS
<1>1. NativeTypes
  BY TypeInit
<1>2. ASSUME NEW a \in Apps
      PROVE  Hosted(a) /\ Mapped(a)
  <2>1. op[a].pc = "idle"
    BY IdleFact DEF Init
  <2>2. DirsOf(a) = {} /\ UnitsOf(a) = {} /\ RunsOf(a) = {} /\ InsOf(a) = {}
    BY DEF Init, DirsOf, UnitsOf, RunsOf, InsOf
  <2>3. \A n \in NamesOf(a) : MapOf(a)[n] = {} /\ PortsOf(a, n) = {}
    BY <2>2, NamesOfFact DEF Init, MapOf, PortsOf
  <2>4. Settled(a)
    BY <2>2 DEF Settled, Alike
  <2> QED
    BY <2>1, <2>2, <2>3, <2>4
    DEF Hosted, Mapped, Traced, Working, Progress, Entries, Ported, Honest
<1> QED
  BY <1>1, <1>2 DEF NativeInv

\* The invariant of the native AMI.
THEOREM NativeCorrect == Spec => []NativeInv
  BY NativeInit, NativeStep, PTL DEF Spec

\* Types, for any applications, plans, port range and bounds.
THEOREM NativeTypesCorrect == Spec => []TypeOK
<1>1. NativeInv => TypeOK
  BY DEF NativeInv, NativeTypes
<1> QED
  BY <1>1, NativeCorrect, PTL

\* Whatever calls overlap, fail or are cut off by a crash, a service that is
\* installed and a process that runs have a directory that leads the next
\* DeleteApp to them, but for those whose Stop or Uninstall failed.
THEOREM NothingLostCorrect == Spec => []NothingLost
<1>1. NativeInv => NothingLost
  <2> SUFFICES ASSUME NativeInv, NEW p \in units \cup {q.ins : q \in procs}
               PROVE  p \in dirs \/ p \in leaked
    BY DEF NothingLost
  <2>1. p \in Instances
    BY DEF NativeInv, NativeTypes, TypeOK
  <2>2. p[1] \in Apps
    BY <2>1, InstanceFact
  <2>3. Traced(p[1]) /\ p \in UnitsOf(p[1]) \cup InsOf(p[1])
    BY <2>2 DEF NativeInv, Hosted, UnitsOf, InsOf, RunsOf
  <2> QED
    BY <2>3 DEF Traced, DirsOf, LeakedOf
<1> QED
  BY <1>1, NativeCorrect, PTL

\* A call that succeeded, with a DeleteApp that removed everything, leaves
\* the services and processes of one version, all its replicas and no
\* others, or none, whatever happened to other applications and before.
THEOREM SuccessIsExactCorrect == Spec => []SuccessIsExact
<1>1. NativeInv => SuccessIsExact
  <2> SUFFICES ASSUME NativeInv, NEW a \in Apps, Good(a)
               PROVE  Exact(a)
    BY DEF SuccessIsExact, Good, At
  <2>1. PICK S \in {{}} \cup {InstancesOf(a, v) : v \in Versions} :
               DirsOf(a) = S /\ Alike(a, UnitsOf(a), S) /\ Alike(a, InsOf(a), S)
    BY DEF NativeInv, Hosted, Settled
  <2>2. StatsApps(a) = {v \in Versions : \E p \in S : p[2] = v}
    BY <2>1 DEF StatsApps, listedIn, DirsOf
  <2>3. S = IF StatsApps(a) = {} THEN {} ELSE InstancesOf(a, Seen(a))
    <3>1. CASE S = {}
      BY <2>2, <3>1
    <3>2. ASSUME NEW v \in Versions, S = InstancesOf(a, v)
          PROVE  S = IF StatsApps(a) = {} THEN {} ELSE InstancesOf(a, Seen(a))
      <4>1. \A p \in S : p[2] = v
        BY <3>2, PathFact DEF InstancesOf
      <4>2. 1 \in DOMAIN Plan[a][v]
        BY PlanFact
      <4>5. S # {}
        BY <3>2, <4>2, PathFact
      <4>3. StatsApps(a) = {v}
        BY <2>2, <4>1, <4>5
      <4>4. Max({v}) = v
        BY ValuesAssumption DEF Max
      <4> QED
        BY <3>2, <4>3, <4>4 DEF Seen
    <3> QED
      BY <3>1, <3>2
  <2>4. \A p : p \in S => p[1] = a
    BY <2>1 DEF DirsOf
  <2>5. Lasting({p \in units : p[1] = a}) = Lasting(S)
    BY <2>1, <2>4 DEF Lasting, Alike, UnitsOf, LeakedOf
  <2>6. Lasting({q.ins : q \in {r \in procs : r.ins[1] = a}}) = Lasting(S)
    <3>1. {q.ins : q \in {r \in procs : r.ins[1] = a}} = InsOf(a)
      BY DEF InsOf, RunsOf
    <3>2. \A p \in InsOf(a) : p[1] = a
      BY DEF InsOf, RunsOf
    <3> QED
      BY <2>1, <2>4, <3>1, <3>2 DEF Lasting, Alike, LeakedOf
  <2> QED
    BY <2>3, <2>5, <2>6 DEF Exact
<1> QED
  BY <1>1, NativeCorrect, PTL

\* After such a call the mapping has the ports of the application's own
\* processes under the names of its services, all of them and no others.
THEOREM MappingHonestCorrect == Spec => []MappingHonest
<1>1. NativeInv => MappingHonest
  <2> SUFFICES ASSUME NativeInv, NEW a \in Apps \ Function, Good(a),
                      NEW p \in Instances, p[1] = a, p[3] \notin stale
               PROVE  mapping[p[3]] = {q.port : q \in {r \in procs : r.ins[1] = a /\ r.ins[3] = p[3]
                                                                    /\ r.ins \notin leaked}}
    BY DEF MappingHonest, Good, At
  <2>1. p[3] \in NamesOf(a) \ StaleOf(a)
    BY DEF NamesOf, StaleOf
  <2>2. mapping[p[3]] = PortsOf(a, p[3])
    BY <2>1 DEF NativeInv, Mapped, Honest, MapOf
  <2>3. {r \in RunsOf(a) : r.ins[3] = p[3] /\ r.ins \notin LeakedOf(a)}
          = {r \in procs : r.ins[1] = a /\ r.ins[3] = p[3] /\ r.ins \notin leaked}
    BY DEF RunsOf, LeakedOf
  <2> QED
    BY <2>2, <2>3 DEF PortsOf
<1> QED
  BY <1>1, NativeCorrect, PTL

-----------------------------------------------------------------------------
(* The refinement of module Ami.                                           *)

\* What the engine sees of a call.
CallOf(r) == IF r.pc = "idle" THEN Idle ELSE IF r.ver = None THEN Deleting ELSE r.ver

\* The list of an application comes from its own directories.
LEMMA ListedFact ==
  ASSUME NEW a \in Apps
  PROVE  Listed[a] = {v \in Versions : \E p \in DirsOf(a) : p[2] = v}
  BY DEF Listed, StatsApps, listedIn, DirsOf

\* What a step of the call for a may do to the list and to the call.
Does(a, L, c, o) == /\ Listed' = [Listed EXCEPT ![a] = L]
                    /\ Calls' = [Calls EXCEPT ![a] = c]
                    /\ ok' = [ok EXCEPT ![a] = o]

\* A step of the call for a changes list, call and result of a only.
LEMMA StepDoes ==
  ASSUME NativeTypes, NEW a \in Apps, Desire(a) \/ Step(a) \/ CallFails(a)
  PROVE  Does(a, Listed'[a], CallOf(op'[a]), ok'[a])
<1>1. \A b \in Apps \ {a} : View(b)' = View(b)
  BY Framed
<1>2. \A b \in Apps \ {a} : DirsOf(b)' = DirsOf(b) /\ op'[b] = op[b] /\ ok'[b] = ok[b]
  BY <1>1 DEF View
<1>3. ASSUME NEW b \in Apps \ {a} PROVE Listed'[b] = Listed[b]
  <2>1. Listed'[b] = {v \in Versions : \E p \in DirsOf(b)' : p[2] = v}
    BY DEF Listed, StatsApps, listedIn, DirsOf
  <2> QED
    BY <1>2, <2>1, ListedFact
<1>4. Listed' = [Listed EXCEPT ![a] = Listed'[a]]
  <2>1. Listed \in [Apps -> SUBSET Versions] /\ Listed' \in [Apps -> SUBSET Versions]
    BY DEF Listed, StatsApps, listedIn
  <2> HIDE DEF Listed
  <2> QED
    BY <1>3, <2>1
<1>5. Calls' = [Calls EXCEPT ![a] = CallOf(op'[a])]
  BY <1>2 DEF Calls, CallOf, At
<1>6. ok' = [ok EXCEPT ![a] = ok'[a]]
  <2>1. ok \in [Apps -> BOOLEAN] /\ ok' \in [Apps -> BOOLEAN]
    BY RestStep DEF NativeTypes, TypeOK, RestOK
  <2> QED
    BY <1>2, <2>1
<1> QED
  BY <1>4, <1>5, <1>6 DEF Does

\* The steps of the contract.
LEMMA ContractStep ==
  ASSUME NativeTypes, NEW a \in Apps, NEW L, NEW c, NEW o, Does(a, L, c, o),
         \/ L = Listed[a] /\ c = Calls[a] /\ o = ok[a]
         \/ Calls[a] = Idle /\ c \in Versions \cup {Deleting} /\ L = Listed[a] /\ o = ok[a]
         \/ Calls[a] # Idle /\ c = Calls[a] /\ o = ok[a] /\ \E v \in Listed[a] : L = Listed[a] \ {v}
         \/ Calls[a] \in Versions /\ c = Calls[a] /\ o = ok[a] /\ L = Listed[a] \cup {Calls[a]}
         \/ /\ c = Idle /\ o = TRUE /\ L = Listed[a]
            /\ \/ Calls[a] = Deleting /\ Listed[a] = {}
               \/ Calls[a] \in Versions /\ Calls[a] \in Listed[a]
         \/ /\ c = Idle /\ o = FALSE /\ Calls[a] # Idle
            /\ L = Listed[a] \/ (Calls[a] \in Versions /\ L = Listed[a] \cup {Calls[a]})
  PROVE  Contract!Next \/ UNCHANGED Contract!vars
<1>0. /\ ok = [x \in Apps |-> ok[x]] /\ Listed = [x \in Apps |-> Listed[x]]
      /\ Calls = [x \in Apps |-> Calls[x]]
  BY DEF NativeTypes, TypeOK, Listed, Calls
<1>d. /\ Listed' = [Listed EXCEPT ![a] = L] /\ Calls' = [Calls EXCEPT ![a] = c]
      /\ ok' = [ok EXCEPT ![a] = o]
  BY DEF Does
<1>e. /\ L = Listed[a] => Listed' = Listed
      /\ c = Calls[a] => Calls' = Calls
      /\ o = ok[a] => ok' = ok
  BY <1>0, <1>d
<1>1. CASE L = Listed[a] /\ c = Calls[a] /\ o = ok[a]
  BY <1>1, <1>e DEF Contract!vars
<1>2. CASE Calls[a] = Idle /\ c \in Versions \cup {Deleting} /\ L = Listed[a] /\ o = ok[a]
  <2>1. Contract!Begin(a)
    BY <1>2, <1>d, <1>e DEF Contract!Begin
  <2> QED
    BY <2>1 DEF Contract!Next
<1>3. CASE Calls[a] # Idle /\ c = Calls[a] /\ o = ok[a] /\ \E v \in Listed[a] : L = Listed[a] \ {v}
  <2>1. Contract!Remove(a)
    BY <1>3, <1>d, <1>e DEF Contract!Remove
  <2> QED
    BY <2>1 DEF Contract!Next
<1>4. CASE Calls[a] \in Versions /\ c = Calls[a] /\ o = ok[a] /\ L = Listed[a] \cup {Calls[a]}
  <2>1. Contract!Install(a)
    BY <1>4, <1>d, <1>e DEF Contract!Install
  <2> QED
    BY <2>1 DEF Contract!Next
<1>5. CASE /\ c = Idle /\ o = TRUE /\ L = Listed[a]
           /\ \/ Calls[a] = Deleting /\ Listed[a] = {}
              \/ Calls[a] \in Versions /\ Calls[a] \in Listed[a]
  <2>1. Contract!Succeed(a)
    BY <1>5, <1>d, <1>e DEF Contract!Succeed
  <2> QED
    BY <2>1 DEF Contract!Next
<1>6. CASE /\ c = Idle /\ o = FALSE /\ Calls[a] # Idle
           /\ L = Listed[a] \/ (Calls[a] \in Versions /\ L = Listed[a] \cup {Calls[a]})
  <2>1. Contract!Fail(a)
    BY <1>6, <1>d, <1>e DEF Contract!Fail
  <2> QED
    BY <2>1 DEF Contract!Next
<1> QED
  BY <1>1, <1>2, <1>3, <1>4, <1>5, <1>6

\* Every step of the native AMI is a step of the contract, or none.
LEMMA Refines ==
  ASSUME NativeInv, [Next]_vars
  PROVE  Contract!Next \/ UNCHANGED Contract!vars
<1>0. NativeTypes
  BY DEF NativeInv
<1>1. ASSUME NEW a \in Apps, Desire(a) \/ Step(a) \/ CallFails(a)
      PROVE  Contract!Next \/ UNCHANGED Contract!vars
  <2>1. PICK L, c, o : L = Listed'[a] /\ c = CallOf(op'[a]) /\ o = ok'[a]
    OBVIOUS
  <2>2. Does(a, L, c, o)
    BY <1>0, <1>1, <2>1, StepDoes
  <2>3. /\ Calls[a] = CallOf(op[a]) /\ CallOK(a, op[a]) /\ op[a] \in Ops /\ op \in [Apps -> Ops]
        /\ ok \in [Apps -> BOOLEAN] /\ Working(a) /\ Idle \notin Versions /\ Idle # Deleting
        /\ None \notin Versions /\ Deleting \notin Versions
    BY <1>0, ValuesAssumption DEF Calls, CallOf, At, NativeInv, NativeTypes, TypeOK, Hosted
  <2>4. /\ Listed[a] = {v \in Versions : \E p \in DirsOf(a) : p[2] = v}
        /\ L = {v \in Versions : \E p \in DirsOf(a)' : p[2] = v}
    BY <2>1 DEF Listed, StatsApps, listedIn, DirsOf
  <2>5. DirsOf(a)' = DirsOf(a) => L = Listed[a]
    BY <2>4
  <2>i. op[a].pc # "idle" => Calls[a] # Idle
    BY <2>3 DEF CallOf, Ops
  <2>v. op[a].pc # "idle" /\ op[a].then # "return" => Calls[a] = op[a].ver /\ Calls[a] \in Versions
    BY <2>3 DEF CallOf, Ops, CallOK
  <2>s. ASSUME op'[a].ver = op[a].ver, op[a].pc # "idle", op'[a].pc # "idle"
        PROVE  c = Calls[a]
    BY <2>1, <2>3, <2>s DEF CallOf
  <2>r. ASSUME NEW good \in BOOLEAN, Return(a, good)
        PROVE  c = Idle /\ o = good
    BY <1>0, <2>1, <2>r, ReturnFields DEF CallOf
  <2>6. CASE Desire(a)
    <3>1. L = Listed[a]
      BY <2>5, <2>6 DEF Desire, DirsOf
    <3>2. c = Calls[a] /\ o = ok[a]
      BY <2>1, <2>3, <2>6 DEF Desire
    <3> QED
      BY <1>0, <2>2, <3>1, <3>2, ContractStep
  <2>7. CASE CallDelete(a)
    <3>1. L = Listed[a] /\ o = ok[a]
      BY <2>1, <2>5, <2>7 DEF CallDelete, DirsOf
    <3>2. op'[a] = [IdleOp EXCEPT !.pc = "scan"] /\ IdleOp \in Ops
      BY <2>3, <2>7, OpTypes DEF CallDelete, Goto
    <3>3. op'[a].pc = "scan" /\ op'[a].ver = None
      BY <3>2, IdleFact DEF Ops
    <3>4. c = Deleting /\ Calls[a] = Idle
      BY <2>1, <2>3, <2>7, <3>3 DEF CallDelete, At, CallOf
    <3> QED
      BY <1>0, <2>2, <3>1, <3>4, ContractStep
  <2>8. CASE CallApply(a)
    <3>1. L = Listed[a] /\ o = ok[a]
      BY <2>1, <2>5, <2>8 DEF CallApply, DirsOf
    <3>2. op'[a] = [IdleOp EXCEPT !.pc = "scan", !.ver = want[a], !.then = "apply"] /\ IdleOp \in Ops
      BY <2>3, <2>8, OpTypes DEF CallApply, Goto
    <3>3. op'[a].pc = "scan" /\ op'[a].ver = want[a] /\ want[a] \in Versions
      BY <1>0, <2>8, <3>2 DEF Ops, CallApply, NativeTypes, TypeOK
    <3>4. c \in Versions /\ Calls[a] = Idle
      BY <2>1, <2>3, <2>8, <3>3 DEF CallApply, At, CallOf
    <3> QED
      BY <1>0, <2>2, <3>1, <3>4, ContractStep
  <2>9. ASSUME NEW p \in Instances, StopService(a, p) \/ StopFails(a, p)
        PROVE  Contract!Next \/ UNCHANGED Contract!vars
    <3>1. L = Listed[a] /\ o = ok[a]
      BY <2>1, <2>5, <2>9 DEF StopService, StopFails, DirsOf
    <3>2. op'[a] = [op[a] EXCEPT !.pc = "uninstall", !.cur = p] /\ op[a].pc = "scan"
      BY <2>3, <2>9 DEF StopService, StopFails, Goto, At
    <3>3. op'[a].pc = "uninstall" /\ op'[a].ver = op[a].ver
      BY <2>3, <3>2 DEF Ops
    <3>4. c = Calls[a]
      BY <2>s, <3>2, <3>3
    <3> QED
      BY <1>0, <2>2, <3>1, <3>4, ContractStep
  <2>10. CASE Uninstall(a) \/ UninstallFails(a)
    <3>1. DirsOf(a)' = DirsOf(a) \ {op[a].cur} /\ o = ok[a] /\ op[a].pc = "uninstall"
      BY <2>1, <2>10 DEF Uninstall, UninstallFails, DirsOf, At
    <3>2. op'[a] = [op[a] EXCEPT !.pc = "scan", !.cur = <<>>]
      BY <2>3, <2>10 DEF Uninstall, UninstallFails, Goto
    <3>3. op'[a].pc = "scan" /\ op'[a].ver = op[a].ver
      BY <2>3, <3>2 DEF Ops
    <3>4. c = Calls[a] /\ Calls[a] # Idle
      BY <2>i, <2>s, <3>1, <3>3
    <3>5. op[a].cur \in DirsOf(a) /\ op[a].cur \in Instances
      BY <2>3, <3>1 DEF Working, CallOK
    <3>6. op[a].cur[2] \in Versions
      BY <3>5, InstanceFact
    <3>7. op[a].cur[2] \in Listed[a]
      BY <2>4, <3>5, <3>6
    <3>8. L = Listed[a] \/ L = Listed[a] \ {op[a].cur[2]}
      BY <2>4, <3>1
    <3> QED
      BY <1>0, <2>2, <3>1, <3>4, <3>7, <3>8, ContractStep
  <2>11. ASSUME NEW good \in BOOLEAN, AfterDelete(a, good), L = Listed[a],
                op[a].pc # "idle", good => Listed[a] = {}
         PROVE  Contract!Next \/ UNCHANGED Contract!vars
    <3>0. ~At(a, "idle")
      BY <2>11 DEF At
    <3>1. CASE op[a].then = "return" /\ op'[a] = IdleOp /\ ok'[a] = good
      <4>1. c = Idle /\ o = good
        BY <2>1, <3>1, IdleFact DEF CallOf
      <4>2. Calls[a] = Deleting
        BY <2>3, <2>11, <3>1 DEF CallOf, CallOK
      <4>3. CASE good
        BY <1>0, <2>2, <2>11, <4>1, <4>2, <4>3, ContractStep
      <4>4. CASE ~good
        BY <1>0, <2>2, <2>3, <2>11, <4>1, <4>2, <4>4, ContractStep
      <4> QED
        BY <4>3, <4>4
    <3>2. CASE op[a].then = "fail" /\ op'[a] = IdleOp /\ ok'[a] = FALSE
      <4>1. c = Idle /\ o = FALSE
        BY <2>1, <3>2, IdleFact DEF CallOf
      <4> QED
        BY <1>0, <2>2, <2>11, <2>i, <4>1, ContractStep
    <3>3. CASE op[a].then = "apply" /\ op'[a].pc = "next" /\ op'[a].ver = op[a].ver
      <4>1. c = Calls[a]
        BY <2>11, <2>s, <3>3
      <4>2. o = ok[a]
        BY <2>1, <2>11, <3>3 DEF AfterDelete
      <4> QED
        BY <1>0, <2>2, <2>11, <4>1, <4>2, ContractStep
    <3> QED
      BY <1>0, <2>11, <3>0, <3>1, <3>2, <3>3, AfterDeleteFields
  <2>12. CASE DeleteDone(a)
    <3>1. DirsOf(a)' = DirsOf(a) /\ DirsOf(a) = {} /\ op[a].pc # "idle"
      BY <2>12 DEF DeleteDone, DirsOf, At
    <3>2. Listed[a] = {}
      BY <2>4, <3>1
    <3> QED
      BY <2>5, <2>11, <2>12, <3>1, <3>2 DEF DeleteDone
  <2>13. CASE DeleteFails(a)
    <3>1. DirsOf(a)' = DirsOf(a) /\ op[a].pc # "idle"
      BY <2>13 DEF DeleteFails, DirsOf, At
    <3> QED
      BY <2>5, <2>11, <2>13, <3>1 DEF DeleteFails
  <2>14. ASSUME NEW p \in Instances, DropService(a, SvcDir(p))
         PROVE  Contract!Next \/ UNCHANGED Contract!vars
    <3>1. L = Listed[a] /\ c = Calls[a] /\ o = ok[a]
      BY <2>1, <2>3, <2>5, <2>14 DEF DropService, DirsOf
    <3> QED
      BY <1>0, <2>2, <3>1, ContractStep
  <2>15. ASSUME NEW p \in Instances, DeleteServicePortsFails(a, SvcDir(p))
         PROVE  Contract!Next \/ UNCHANGED Contract!vars
    <3>1. DirsOf(a)' = DirsOf(a) /\ op[a].pc # "idle"
      BY <2>15 DEF DeleteServicePortsFails, DirsOf, At
    <3> QED
      BY <2>5, <2>11, <2>15, <3>1 DEF DeleteServicePortsFails
  <2>a. op[a].pc \in {"next", "install", "start", "map"} =>
          /\ op[a].then = "apply" /\ Calls[a] = op[a].ver /\ Calls[a] \in Versions
          /\ Current(a)[1] = a /\ Current(a)[2] = op[a].ver
    BY <1>0, <2>3, <2>v, CurrentFact DEF CallOK, At
  <2>16. CASE Prepare(a)
    <3>0. op[a].pc = "next"
      BY <2>16 DEF Prepare, At
    <3>1. DirsOf(a)' = DirsOf(a) \cup {Current(a)}
      BY <2>16, <2>a, <3>0 DEF Prepare, DirsOf
    <3>2. L = Listed[a] \cup {Calls[a]}
      BY <2>4, <2>a, <3>0, <3>1
    <3>3. CASE <<a, op[a].ver>> \in NoExec
      <4>1. op'[a] = [op[a] EXCEPT !.pc = "scan", !.then = "fail"] /\ o = ok[a]
        BY <2>1, <2>3, <2>16, <3>3 DEF Prepare, Goto
      <4>2. op'[a].pc = "scan" /\ op'[a].ver = op[a].ver
        BY <2>3, <4>1 DEF Ops
      <4>3. c = Calls[a]
        BY <2>s, <3>0, <4>2
      <4> QED
        BY <1>0, <2>2, <2>a, <3>0, <3>2, <4>1, <4>3, ContractStep
    <3>4. CASE <<a, op[a].ver>> \notin NoExec /\ FreePorts = {}
      <4>1. c = Idle /\ o = FALSE
        BY <2>16, <2>r, <3>4 DEF Prepare
      <4> QED
        BY <1>0, <2>2, <2>a, <2>i, <3>0, <3>2, <4>1, ContractStep
    <3>5. CASE <<a, op[a].ver>> \notin NoExec /\ FreePorts # {}
      <4>1. op'[a] = [op[a] EXCEPT !.pc = "install", !.port = Min(FreePorts)] /\ o = ok[a]
        BY <2>1, <2>3, <2>16, <3>5 DEF Prepare, Goto
      <4>2. op'[a].pc = "install" /\ op'[a].ver = op[a].ver
        BY <2>3, <4>1 DEF Ops
      <4>3. c = Calls[a]
        BY <2>s, <3>0, <4>2
      <4> QED
        BY <1>0, <2>2, <2>a, <3>0, <3>2, <4>1, <4>3, ContractStep
    <3> QED
      BY <3>3, <3>4, <3>5
  <2>17. CASE PrepareFails(a)
    <3>0. op[a].pc = "next"
      BY <2>17 DEF PrepareFails, At
    <3>1. DirsOf(a)' = DirsOf(a) \/ DirsOf(a)' = DirsOf(a) \cup {Current(a)}
      BY <2>17, <2>a, <3>0 DEF PrepareFails, DirsOf
    <3>2. L = Listed[a] \/ L = Listed[a] \cup {Calls[a]}
      BY <2>4, <2>a, <3>0, <3>1
    <3>3. c = Idle /\ o = FALSE
      BY <2>17, <2>r DEF PrepareFails
    <3> QED
      BY <1>0, <2>2, <2>a, <2>i, <3>0, <3>2, <3>3, ContractStep
  <2>18. CASE InstallService(a)
    <3>1. op'[a] = [op[a] EXCEPT !.pc = "start"] /\ o = ok[a] /\ op[a].pc = "install"
      BY <2>1, <2>3, <2>18 DEF InstallService, Goto, At
    <3>2. op'[a].pc = "start" /\ op'[a].ver = op[a].ver
      BY <2>3, <3>1 DEF Ops
    <3>3. L = Listed[a] /\ c = Calls[a]
      BY <2>5, <2>18, <2>s, <3>1, <3>2 DEF InstallService, DirsOf
    <3> QED
      BY <1>0, <2>2, <3>1, <3>3, ContractStep
  <2>19. CASE StartService(a)
    <3>1. /\ op'[a] = [op[a] EXCEPT !.ports = @ \cup {op[a].port}, !.port = 0,
                                    !.pc = IF LastOfService(a) THEN "map" ELSE "next",
                                    !.at = IF LastOfService(a) THEN @ ELSE @ + 1]
          /\ o = ok[a] /\ op[a].pc = "start"
      BY <2>1, <2>3, <2>19 DEF StartService, Goto, At
    <3>2. op'[a].pc # "idle" /\ op'[a].ver = op[a].ver
      BY <2>3, <3>1 DEF Ops
    <3>3. L = Listed[a] /\ c = Calls[a]
      BY <2>5, <2>19, <2>s, <3>1, <3>2 DEF StartService, DirsOf
    <3> QED
      BY <1>0, <2>2, <3>1, <3>3, ContractStep
  <2>20. CASE ServiceFails(a) \/ SetServicePortsFails(a)
    <3>1. op[a].pc # "idle" /\ DirsOf(a)' = DirsOf(a)
      BY <2>20 DEF ServiceFails, SetServicePortsFails, At, DirsOf
    <3>2. c = Idle /\ o = FALSE
      BY <2>20, <2>r DEF ServiceFails, SetServicePortsFails
    <3> QED
      BY <1>0, <2>2, <2>5, <2>i, <3>1, <3>2, ContractStep
  <2>21. CASE SetServicePorts(a)
    <3>0. op[a].pc = "map" /\ L = Listed[a]
      BY <2>5, <2>21 DEF SetServicePorts, At, DirsOf
    <3>1. CASE op[a].at = Len(Plan[a][op[a].ver])
      <4>1. c = Idle /\ o = TRUE
        BY <2>21, <2>r, <3>1 DEF SetServicePorts
      <4>2. Current(a) \in DirsOf(a)
        BY <2>3, <3>0 DEF Working
      <4>3. Calls[a] \in Listed[a]
        BY <2>4, <2>a, <3>0, <4>2
      <4> QED
        BY <1>0, <2>2, <2>a, <3>0, <4>1, <4>3, ContractStep
    <3>2. CASE op[a].at # Len(Plan[a][op[a].ver])
      <4>1. op'[a] = [op[a] EXCEPT !.pc = "next", !.at = @ + 1, !.ports = {}] /\ o = ok[a]
        BY <2>1, <2>3, <2>21, <3>2 DEF SetServicePorts, Goto
      <4>2. op'[a].pc = "next" /\ op'[a].ver = op[a].ver
        BY <2>3, <4>1 DEF Ops
      <4>3. c = Calls[a]
        BY <2>s, <3>0, <4>2
      <4> QED
        BY <1>0, <2>2, <3>0, <4>1, <4>3, ContractStep
    <3> QED
      BY <3>1, <3>2
  <2> QED
    BY <1>1, <2>6, <2>7, <2>8, <2>9, <2>10, <2>12, <2>13, <2>14, <2>15, <2>16, <2>17, <2>18,
       <2>19, <2>20, <2>21 DEF Step, CallFails
<1>2. CASE Crash
  <2>1. Listed' = Listed
    BY <1>2 DEF Crash, Listed, StatsApps, listedIn
  <2>2. \A a \in Apps : (Calls[a] = Idle <=> op[a].pc = "idle") /\ Calls'[a] = Idle
    <3>1. ASSUME NEW a \in Apps
          PROVE  (Calls[a] = Idle <=> op[a].pc = "idle") /\ Calls'[a] = Idle
      <4>1. op[a] \in Ops /\ Idle \notin Versions /\ Idle # Deleting
        BY <1>0, ValuesAssumption DEF NativeTypes
      <4>2. Calls[a] = Idle <=> op[a].pc = "idle"
        BY <4>1 DEF Calls, At, Ops
      <4>3. Calls'[a] = Idle
        BY <1>2, IdleFact DEF Crash, Calls, At
      <4> QED
        BY <4>2, <4>3
    <3> QED
      BY <3>1
  <2>3. Calls' = [a \in Apps |-> Idle]
    BY <2>2 DEF Calls
  <2>4. ok' = [a \in Apps |-> ok[a] /\ Calls[a] = Idle]
    BY <1>2, <2>2 DEF Crash, At
  <2>5. \E a \in Apps : Calls[a] # Idle
    BY <1>2, <2>2 DEF Crash, At
  <2>6. Contract!Crash
    BY <2>1, <2>3, <2>4, <2>5 DEF Contract!Crash
  <2> QED
    BY <2>6 DEF Contract!Next
<1>3. CASE UNCHANGED vars
  BY <1>3 DEF vars, Contract!vars, Listed, Calls, StatsApps, listedIn, At
<1> QED
  BY <1>1, <1>2, <1>3 DEF Next

\* The native AMI keeps the contract that the engine relies on (module Ami),
\* for any applications, plans, overlapping calls, failures and crashes.
THEOREM KeepsContractCorrect == Spec => KeepsContract
<1>1. Init => Contract!Init
  <2> SUFFICES ASSUME Init
               PROVE  Contract!Init
    OBVIOUS
  <2>1. Listed \in [Apps -> SUBSET Versions]
    BY DEF Listed, StatsApps, listedIn
  <2>2. Calls = [a \in Apps |-> Idle]
    BY IdleFact DEF Init, Calls, At
  <2> QED
    BY <2>1, <2>2 DEF Init, Contract!Init
<1>2. NativeInv /\ [Next]_vars => [Contract!Next]_(Contract!vars)
  BY Refines
<1> QED
  BY <1>1, <1>2, NativeCorrect, PTL DEF Spec, KeepsContract, Contract!Spec
=============================================================================
