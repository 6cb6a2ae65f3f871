--------------------------- MODULE Engine_proofs ---------------------------
(***************************************************************************)
(* Proofs about module Engine, for every set of applications, versions,    *)
(* desires, ports and bounds.                                              *)
(***************************************************************************)
EXTENDS MCPair, FiniteSetTheorems, NaturalsInduction, WellFoundedInduction, TLAPS

\* An order of a finite set is a sequence of its elements, each of them once.
LEMMA OrdersType ==
  ASSUME NEW S, IsFiniteSet(S), NEW f \in Orders(S)
  PROVE  /\ f \in Seq(S) /\ Range(f) = S
         /\ \A i, j \in DOMAIN f : f[i] = f[j] => i = j
<1>1. Cardinality(S) \in Nat
  BY FS_CardinalityType
<1>2. /\ f \in [1..Cardinality(S) -> S]
      /\ \A i, j \in DOMAIN f : f[i] = f[j] => i = j
      /\ \A x \in S : \E i \in 1..Cardinality(S) : f[i] = x
  BY DEF Orders, Bijection, Injection, Surjection, IsInjective
<1>3. f \in Seq(S)
  BY <1>1, <1>2
<1>4. Range(f) = S
  BY <1>2 DEF Range
<1> QED
  BY <1>2, <1>3, <1>4

\* A set of applications in which no two have the same name.
OneVersion(S) == \A a, b \in S : a.name = b.name => a = b

\* alignApps permutes the reported list: it neither loses an application
\* nor invents one.
LEMMA AlignType ==
  ASSUME NEW S \in SUBSET AppInfo, IsFiniteSet(S), OneVersion(S),
         NEW re \in Orders(S), NEW d, NEW r \in alignApps(re, d)
  PROVE  r \in Seq(AppInfo) /\ Range(r) = S /\ Distinct(r)
<1>1. /\ re \in Seq(S) /\ Range(re) = S
      /\ \A i, j \in DOMAIN re : re[i] = re[j] => i = j
  BY OrdersType
<1>2. \A i, j \in DOMAIN re : re[i].name = re[j].name => i = j
  BY <1>1 DEF OneVersion, Range
<1>3. mapOf(re) = S
  <2>1. DOMAIN re \subseteq Nat
    BY <1>1
  <2>2. \A i, j \in DOMAIN re : re[j].name = re[i].name => j <= i
    BY <1>2, <2>1
  <2> QED
    BY <1>1, <2>2 DEF mapOf, Range
<1>4. /\ r \in Seq(S) /\ Range(r) = S
      /\ \A i, j \in DOMAIN r : r[i] = r[j] => i = j
  <2>1. CASE re = <<>> \/ d = <<>>
    BY <1>1, <2>1 DEF alignApps
  <2>2. CASE ~(re = <<>> \/ d = <<>>)
    <3>1. r \in Orders(S)
      BY <1>3, <2>2 DEF alignApps
    <3> QED
      BY <3>1, OrdersType
  <2> QED
    BY <2>1, <2>2
<1>5. Distinct(r)
  BY <1>4 DEF Distinct, OneVersion, Range
<1> QED
  BY <1>4, <1>5

\* The AMI lists finitely many applications, each at one version.
LEMMA ListedType ==
  ASSUME NEW k \in Kinds
  PROVE  /\ Listed(k) \in SUBSET AppInfo /\ IsFiniteSet(Listed(k))
         /\ OneVersion(Listed(k))
<1>1. Listed(k) \subseteq AppInfo
  BY DEF Listed
<1>2. OneVersion(Listed(k))
  BY DEF Listed, OneVersion, AppInfo
<1> DEFINE f == [a \in Listed(k) |-> a.name]
<1>3. f \in [Listed(k) -> Apps]
  BY <1>1 DEF AppInfo
<1>4. \A a, b \in Listed(k) : f[a] = f[b] => a = b
  BY <1>2 DEF OneVersion
<1>5. f \in Injection(Listed(k), Apps)
  BY <1>3, <1>4 DEF Injection, IsInjective
<1>6. IsFiniteSet(Listed(k))
  BY <1>5, FS_Injection, AppsAssumption
<1> QED
  BY <1>1, <1>2, <1>6

\* A filter keeps entries of the list, and only applications of the process.
LEMMA FilterType ==
  ASSUME NEW s \in Svcs, NEW list \in Seq(AppInfo)
  PROVE  /\ DOMAIN Filter(s, list) \subseteq DOMAIN list
         /\ \A i \in DOMAIN Filter(s, list) : Filter(s, list)[i] = list[i]
         /\ \A a \in Range(Filter(s, list)) : a \in AppInfo /\ a \in Range(list) /\ Owns(s, a.name)
<1>1. \A i \in DOMAIN list : list[i] \in AppInfo
  OBVIOUS
<1>2. CASE s = "init"
  BY <1>1, <1>2 DEF Filter, filterAppLike, Owns, Range
<1>3. CASE s # "init"
  BY <1>1, <1>3 DEF Filter, filterAppNotLike, Owns, Range
<1> QED
  BY <1>2, <1>3

\* On a list without repetitions the filters keep all the applications of
\* the process: at most one name contains "baetyl-core".
LEMMA FilterComplete ==
  ASSUME NEW s \in Svcs, NEW list \in Seq(AppInfo), Distinct(list),
         NEW a \in Range(list), Owns(s, a.name)
  PROVE  a \in Range(Filter(s, list))
<1>1. PICK i \in DOMAIN list : list[i] = a
  BY DEF Range
<1>2. DOMAIN list \subseteq Nat
  OBVIOUS
<1>3. CASE s = "init"
  <2>1. \A j \in DOMAIN list : list[j].name \in CoreLike => j = i
    BY <1>1, <1>3, CoreLikeAssumption DEF Distinct, Owns
  <2>2. i \in DOMAIN Filter(s, list) /\ Filter(s, list)[i] = a
    BY <1>1, <1>2, <1>3, <2>1 DEF Filter, filterAppLike, Owns
  <2> QED
    BY <2>2 DEF Range
<1>4. CASE s # "init"
  BY <1>1, <1>4 DEF Filter, filterAppNotLike, Owns, Range
<1> QED
  BY <1>3, <1>4

\* A Go map built from a list holds entries of the list.
LEMMA MapOfType ==
  ASSUME NEW list
  PROVE  mapOf(list) \subseteq Range(list)
  BY DEF mapOf, Range

\* The locals of an idle process have their type.
LEMMA IdleType == IdleCycle \in Cycle
  BY NilAssumption DEF IdleCycle, Cycle, Labels, Kinds, NoDesire, ShadowLists, NoRoutines, Stages

\* The assignments to the locals of a cycle keep their types.
LEMMA CycleExcept ==
  ASSUME NEW c \in Cycle, NEW l \in Labels
  PROVE  /\ [c EXCEPT !.pc = l] \in Cycle
         /\ \A r \in Seq(AppInfo), b \in BOOLEAN :
              [c EXCEPT !.pc = l, !.rlist = r, !.ok = b] \in Cycle
         /\ \A d \in Seq(AppInfo), x, u \in SUBSET AppInfo :
              [c EXCEPT !.pc = l, !.dlist = d, !.del = x, !.update = u] \in Cycle
         /\ \A x \in SUBSET Apps, u \in SUBSET AppInfo :
              [c EXCEPT !.pc = l, !.bad = x, !.update = u] \in Cycle
         /\ \A g \in [Apps -> Stages] : [c EXCEPT !.pc = l, !.gor = g] \in Cycle
         /\ \A a : [c EXCEPT !.del = @ \ {a}] \in Cycle
         /\ \A n \in Apps, g \in Stages : [c EXCEPT !.gor[n] = g] \in Cycle
<1> USE DEF Cycle
<1>1. [c EXCEPT !.pc = l] \in Cycle
  OBVIOUS
<1>2. ASSUME NEW r \in Seq(AppInfo), NEW b \in BOOLEAN
      PROVE  [c EXCEPT !.pc = l, !.rlist = r, !.ok = b] \in Cycle
  OBVIOUS
<1>3. ASSUME NEW d \in Seq(AppInfo), NEW x \in SUBSET AppInfo, NEW u \in SUBSET AppInfo
      PROVE  [c EXCEPT !.pc = l, !.dlist = d, !.del = x, !.update = u] \in Cycle
  OBVIOUS
<1>4. ASSUME NEW x \in SUBSET Apps, NEW u \in SUBSET AppInfo
      PROVE  [c EXCEPT !.pc = l, !.bad = x, !.update = u] \in Cycle
  OBVIOUS
<1>5. ASSUME NEW g \in [Apps -> Stages]
      PROVE  [c EXCEPT !.pc = l, !.gor = g] \in Cycle
  OBVIOUS
<1>6. ASSUME NEW a PROVE [c EXCEPT !.del = @ \ {a}] \in Cycle
  OBVIOUS
<1>7. ASSUME NEW n \in Apps, NEW g \in Stages PROVE [c EXCEPT !.gor[n] = g] \in Cycle
  OBVIOUS
<1> HIDE DEF Cycle
<1> QED
  BY <1>1, <1>2, <1>3, <1>4, <1>5, <1>6, <1>7

\* A change the AMI makes keeps the types.
LEMMA TouchType ==
  ASSUME TypeOK, NEW s \in Svcs, NEW c \in Cycle, NEW n \in Apps,
         NEW v \in Versions \cup {None}, Touch(s, c, n, v)
  PROVE  /\ running' \in [Apps -> Versions \cup {None}]
         /\ term' \subseteq Svcs
         /\ cyc' \in [Svcs -> Cycle]
  BY IdleType DEF TypeOK, Touch

\* So does a step within a cycle.
LEMMA GotoType ==
  ASSUME TypeOK, NEW s \in Svcs, NEW c \in Cycle, Goto(s, c)
  PROVE  cyc' \in [Svcs -> Cycle]
  BY DEF TypeOK, Goto

\* Collect yields a list of the applications StatsApps returned, each once.
LEMMA CollectType ==
  ASSUME TypeOK, NEW s \in Svcs, NEW S \in SUBSET Listed(cyc[s].kind), NEW b \in BOOLEAN,
         CollectAs(s, S, b)
  PROVE  \E r \in Seq(AppInfo) :
           /\ Range(r) = S /\ Distinct(r)
           /\ Goto(s, [cyc[s] EXCEPT !.pc = "report", !.rlist = r, !.ok = b])
<1> DEFINE d == IF cyc[s].snap[cyc[s].kind] = Nil THEN <<>> ELSE cyc[s].snap[cyc[s].kind]
<1>1. cyc[s].kind \in Kinds
  BY DEF TypeOK, Cycle
<1>2. S \in SUBSET AppInfo /\ IsFiniteSet(S) /\ OneVersion(S)
  BY <1>1, ListedType, FS_Subset DEF OneVersion
<1>3. PICK re \in Orders(S) : \E r \in alignApps(re, d) :
        Goto(s, [cyc[s] EXCEPT !.pc = "report", !.rlist = r, !.ok = b])
  BY DEF CollectAs
<1>4. PICK r \in alignApps(re, d) :
        Goto(s, [cyc[s] EXCEPT !.pc = "report", !.rlist = r, !.ok = b])
  BY <1>3
<1>5. r \in Seq(AppInfo) /\ Range(r) = S /\ Distinct(r)
  <2> HIDE DEF d
  <2> QED BY <1>2, AlignType
<1> QED
  BY <1>4, <1>5

\* The plan a report makes has its type.
LEMMA ReportType ==
  ASSUME TypeOK, NEW s \in Svcs, Report(s)
  PROVE  LET c  == cyc[s]
             dl == Delta(desire[s][c.kind], c.rlist)
             da == Filter(s, dl)
             ra == Filter(s, c.rlist)
         IN  dl # Nil => /\ dl \in Seq(AppInfo)
                         /\ dl = desire[s][c.kind]
                         /\ toDelete(da, ra) \subseteq Range(ra)
                         /\ toDelete(da, ra) \in SUBSET AppInfo
                         /\ toUpdate(da, ra) \subseteq Range(da)
                         /\ toUpdate(da, ra) \in SUBSET AppInfo
<1> DEFINE c  == cyc[s]
           dl == Delta(desire[s][c.kind], c.rlist)
           da == Filter(s, dl)
           ra == Filter(s, c.rlist)
<1> SUFFICES ASSUME dl # Nil
             PROVE  /\ dl \in Seq(AppInfo) /\ dl = desire[s][c.kind]
                    /\ toDelete(da, ra) \subseteq Range(ra)
                    /\ toDelete(da, ra) \in SUBSET AppInfo
                    /\ toUpdate(da, ra) \subseteq Range(da)
                    /\ toUpdate(da, ra) \in SUBSET AppInfo
  OBVIOUS
<1>1. /\ c.rlist \in Seq(AppInfo) /\ c.kind \in Kinds
      /\ desire[s][c.kind] \in ShadowLists
  BY DEF TypeOK, Cycle
<1>2. dl \in Seq(AppInfo) /\ dl = desire[s][c.kind]
  BY <1>1 DEF Delta, ShadowLists
<1> HIDE DEF dl
<1>3. Range(da) \subseteq AppInfo
  BY <1>2, FilterType
<1>4. Range(ra) \subseteq AppInfo
  BY <1>1, FilterType
<1> HIDE DEF da, ra
<1>5. toDelete(da, ra) \subseteq Range(ra) /\ toUpdate(da, ra) \subseteq Range(da)
  BY MapOfType DEF toDelete, toUpdate
<1> QED
  BY <1>2, <1>3, <1>4, <1>5

\* A step of any process, of sync or of the cloud keeps the types.
LEMMA TypeStep ==
  ASSUME TypeOK, [Next]_vars
  PROVE  TypeOK'
<1>1. CASE UNCHANGED vars
  BY <1>1 DEF vars, TypeOK
<1>2. CASE CloudUpdate
  BY <1>2, DesiresAssumption, BoundsAssumption DEF CloudUpdate, TypeOK
<1>3. ASSUME NEW s \in Svcs, SyncReport(s) PROVE TypeOK'
  BY <1>3 DEF SyncReport, TypeOK, ShadowLists
<1>4. ASSUME NEW s \in Svcs, SyncNodeProps(s) PROVE TypeOK'
  BY <1>4, BoundsAssumption DEF SyncNodeProps, TypeOK, NoDesire, ShadowLists
<1>5. ASSUME NEW s \in Svcs, EngineStep(s) PROVE TypeOK'
  <2>0. cyc[s] \in Cycle
    BY DEF TypeOK
  <2>1. CASE Tick(s)
    <3>1. [IdleCycle EXCEPT !.pc = "collect", !.snap = desire[s]] \in Cycle
      BY IdleType DEF Labels, Cycle, TypeOK
    <3> QED
      BY <2>1, <3>1, GotoType DEF Tick, TypeOK
  <2>2. CASE Collect(s)
    <3>1. PICK r \in Seq(AppInfo) :
            Goto(s, [cyc[s] EXCEPT !.pc = "report", !.rlist = r, !.ok = TRUE])
      BY <2>2, CollectType DEF Collect
    <3>2. [cyc[s] EXCEPT !.pc = "report", !.rlist = r, !.ok = TRUE] \in Cycle
      BY <2>0, CycleExcept DEF Labels
    <3> QED
      BY <2>2, <3>1, <3>2, GotoType DEF Collect, TypeOK
  <2>3. CASE Report(s)
    <3> DEFINE c  == cyc[s]
               dl == Delta(desire[s][c.kind], c.rlist)
               da == Filter(s, dl)
               ra == Filter(s, c.rlist)
    <3>1. dl # Nil => /\ dl \in Seq(AppInfo)
                      /\ toDelete(da, ra) \in SUBSET AppInfo
                      /\ toUpdate(da, ra) \in SUBSET AppInfo
      BY <2>3, ReportType
    <3>2. NextKind(c) \in Cycle
      BY <2>0, IdleType DEF NextKind, Labels, Kinds, Cycle
    <3> DEFINE del == toDelete(da, ra)
               upd == toUpdate(da, ra)
    <3>3. Goto(s, IF dl = Nil THEN NextKind(c)
                  ELSE [c EXCEPT !.pc = "syncapps", !.dlist = dl, !.del = del, !.update = upd])
      BY <2>3 DEF Report
    <3>4. dl # Nil => [c EXCEPT !.pc = "syncapps", !.dlist = dl, !.del = del, !.update = upd] \in Cycle
      <4> HIDE DEF dl, del, upd
      <4> QED BY <2>0, <3>1, CycleExcept DEF Labels, del, upd
    <3>5. cyc' \in [Svcs -> Cycle]
      BY <3>2, <3>3, <3>4, GotoType
    <3>6. /\ report' = [report EXCEPT ![s][c.kind] = c.rlist]
          /\ causes' = [causes EXCEPT ![s][c.kind] = {}]
          /\ UNCHANGED <<cloud, updates, faults, running, term, desire>>
      BY <2>3 DEF Report
    <3> HIDE DEF dl, da, ra
    <3> QED
      BY <2>0, <3>5, <3>6 DEF ShadowLists, TypeOK, Cycle
  <2>4. CASE CheckPorts(s)
    <3>1. PICK lose : Goto(s, [cyc[s] EXCEPT !.pc = "stats1",
                                 !.bad = Names(Filter(s, cyc[s].dlist)) \cap lose,
                                 !.update = {a \in cyc[s].update : a.name \notin lose}])
      BY <2>4 DEF CheckPorts
    <3>2. Names(Filter(s, cyc[s].dlist)) \subseteq Apps
      <4>1. cyc[s].dlist \in Seq(AppInfo)
        BY <2>0 DEF Cycle
      <4>2. Range(Filter(s, cyc[s].dlist)) \subseteq AppInfo
        BY <4>1, FilterType
      <4> QED
        BY <4>2 DEF Names, Range, AppInfo
    <3> DEFINE bad == Names(Filter(s, cyc[s].dlist)) \cap lose
    <3>3. bad \in SUBSET Apps
      BY <3>2
    <3> DEFINE upd == {a \in cyc[s].update : a.name \notin lose}
    <3>4. upd \in SUBSET AppInfo
      BY <2>0 DEF Cycle
    <3>5. [cyc[s] EXCEPT !.pc = "stats1", !.bad = bad, !.update = upd] \in Cycle
      <4> HIDE DEF bad, upd
      <4> QED BY <2>0, <3>3, <3>4, CycleExcept DEF Labels
    <3>6. cyc' \in [Svcs -> Cycle]
      BY <3>1, <3>5, GotoType
    <3> QED
      BY <2>4, <3>6 DEF CheckPorts, TypeOK
  <2>5. CASE ReportAppStats(s)
    <3>1. NextKind(cyc[s]) \in Cycle
      BY <2>0, IdleType DEF NextKind, Labels, Kinds, Cycle
    <3>2. [cyc[s] EXCEPT !.pc = "delete"] \in Cycle
      BY <2>0, CycleExcept DEF Labels
    <3>3. cyc' \in [Svcs -> Cycle]
      BY <2>5, <3>1, <3>2, GotoType DEF ReportAppStats
    <3> QED
      BY <2>0, <2>5, <3>3 DEF ReportAppStats, ShadowLists, TypeOK, Cycle
  <2>6. CASE DeleteApp(s)
    <3>1. PICK a \in cyc[s].del : Touch(s, [cyc[s] EXCEPT !.del = @ \ {a}], a.name, None)
      BY <2>6 DEF DeleteApp
    <3>2. [cyc[s] EXCEPT !.del = @ \ {a}] \in Cycle /\ a.name \in Apps
      <4>1. [cyc[s] EXCEPT !.del = @ \ {a}] \in Cycle
        BY <2>0, CycleExcept DEF Labels
      <4> QED
        BY <2>0, <4>1 DEF AppInfo, Cycle
    <3> QED
      BY <2>6, <3>1, <3>2, TouchType DEF DeleteApp, TypeOK
  <2>7. CASE StartApply(s)
    <3>1. PICK g \in [Apps -> Stages] : Goto(s, [cyc[s] EXCEPT !.pc = "apply", !.gor = g])
      BY <2>7 DEF StartApply, Stages
    <3>2. [cyc[s] EXCEPT !.pc = "apply", !.gor = g] \in Cycle
      BY <2>0, CycleExcept DEF Labels
    <3> QED
      BY <2>7, <3>1, <3>2, GotoType DEF StartApply, TypeOK
  <2>8. CASE GoRoutine(s)
    <3> SUFFICES ASSUME NEW a \in AppInfo,
                        SyncResource(s, a) \/ Remove(s, a) \/ Install(s, a) \/ RecordCause(s, a)
                 PROVE  TypeOK'
      BY <2>8 DEF GoRoutine
    <3>1. a.name \in Apps /\ a.ver \in Versions
      BY DEF AppInfo
    <3>2. \A l \in Stages : Step(s, a, l) \in Cycle
      BY <2>0, <3>1, CycleExcept DEF Step, Labels
    <3>3. CASE SyncResource(s, a)
      BY <3>2, <3>3, GotoType DEF SyncResource, Stages, TypeOK
    <3>4. CASE Remove(s, a)
      BY <3>1, <3>2, <3>4, TouchType DEF Remove, Stages, TypeOK
    <3>5. CASE Install(s, a)
      BY <3>1, <3>2, <3>5, TouchType DEF Install, Stages, TypeOK
    <3>6. CASE RecordCause(s, a)
      <4>1. [Step(s, a, "done") EXCEPT !.bad = @ \cup {a.name}] \in Cycle
        BY <3>1, <3>2 DEF Stages, Cycle
      <4> QED
        BY <3>6, <4>1, GotoType DEF RecordCause, TypeOK
    <3> QED
      BY <3>3, <3>4, <3>5, <3>6
  <2>9. CASE JoinApply(s)
    <3>1. [cyc[s] EXCEPT !.pc = "stats2", !.gor = NoRoutines] \in Cycle
      BY <2>0, CycleExcept DEF Labels, NoRoutines, Stages
    <3> QED
      BY <2>9, <3>1, GotoType DEF JoinApply, TypeOK
  <2> QED
    BY <1>5, <2>1, <2>2, <2>3, <2>4, <2>5, <2>6, <2>7, <2>8, <2>9 DEF EngineStep
<1>6. ASSUME NEW s \in Svcs, EngineFault(s) PROVE TypeOK'
  <2>0. /\ cyc[s] \in Cycle
        /\ Fault => faults' \in 0..MaxFaults
    BY BoundsAssumption DEF Fault, TypeOK
  <2>1. CASE CollectFails(s)
    <3>1. PICK r \in Seq(AppInfo) :
            Goto(s, [cyc[s] EXCEPT !.pc = "report", !.rlist = r, !.ok = FALSE])
      BY <2>1, CollectType DEF CollectFails
    <3>2. [cyc[s] EXCEPT !.pc = "report", !.rlist = r, !.ok = FALSE] \in Cycle
      BY <2>0, CycleExcept DEF Labels
    <3> QED
      BY <2>0, <2>1, <3>1, <3>2, GotoType DEF CollectFails, TypeOK
  <2>2. CASE DeleteAppFails(s)
    <3>1. PICK a \in cyc[s].del : \E v \in {running[a.name], None} : Touch(s, IdleCycle, a.name, v)
      BY <2>2 DEF DeleteAppFails
    <3>2. a.name \in Apps /\ running[a.name] \in Versions \cup {None}
      BY <2>0 DEF AppInfo, Cycle, TypeOK
    <3>3. /\ running' \in [Apps -> Versions \cup {None}]
          /\ term' \subseteq Svcs
          /\ cyc' \in [Svcs -> Cycle]
      BY <3>1, <3>2, IdleType, TouchType
    <3> QED
      BY <2>0, <2>2, <3>3 DEF DeleteAppFails, TypeOK
  <2>3. CASE CycleFails(s) \/ Crash(s)
    BY <2>0, <2>3, IdleType, GotoType DEF CycleFails, Crash, TypeOK
  <2>4. CASE ConcurrentMapWrites(s)
    BY <2>4, IdleType, GotoType DEF ConcurrentMapWrites, TypeOK
  <2>5. ASSUME NEW a \in AppInfo, RoutineFails(s, a) PROVE TypeOK'
    <3>1. a.name \in Apps /\ a.ver \in Versions /\ running[a.name] \in Versions \cup {None}
      BY DEF AppInfo, TypeOK
    <3>2. Step(s, a, "fail") \in Cycle
      BY <2>0, <3>1, CycleExcept DEF Step, Stages, Labels
    <3>3. \E v \in Versions \cup {None} : Touch(s, Step(s, a, "fail"), a.name, v)
      BY <2>5, <3>1 DEF RoutineFails
    <3>4. /\ running' \in [Apps -> Versions \cup {None}]
          /\ term' \subseteq Svcs
          /\ cyc' \in [Svcs -> Cycle]
      BY <3>1, <3>2, <3>3, TouchType
    <3> QED
      BY <2>0, <2>5, <3>4 DEF RoutineFails, TypeOK
  <2> QED
    BY <1>6, <2>1, <2>2, <2>3, <2>4, <2>5 DEF EngineFault
<1>7. ASSUME NEW s \in Svcs, Exit(s) PROVE TypeOK'
  BY <1>7, IdleType, GotoType DEF Exit, TypeOK
<1> QED
  BY <1>1, <1>2, <1>3, <1>4, <1>5, <1>6, <1>7 DEF Next

\* Type correctness of the engine for every instance.
THEOREM TypeCorrect == Spec => []TypeOK
<1>1. Init => TypeOK
  BY IdleType, DesiresAssumption, InstalledAssumption, BoundsAssumption
     DEF Init, TypeOK, NoDesire, ShadowLists
<1>2. TypeOK /\ [Next]_vars => TypeOK'
  BY TypeStep
<1> QED
  BY <1>1, <1>2, PTL DEF Spec

-----------------------------------------------------------------------------
(* The plan of a cycle.                                                    *)

\* No application belongs to both processes.
LEMMA OwnerUnique ==
  ASSUME NEW s \in Svcs, NEW t \in Svcs, s # t, NEW n, Owns(s, n)
  PROVE  ~Owns(t, n)
  BY SvcsAssumption DEF Owns

\* What a cycle wants to be listed is its own business.
LEMMA CycleAppsType ==
  ASSUME NEW s \in Svcs, NEW c \in Cycle
  PROVE  /\ \A a \in CycleApps(s, c) : /\ a \in AppInfo /\ a.name \in Apps
                                       /\ a \in Range(c.dlist) /\ Owns(s, a.name)
         /\ Distinct(c.dlist) => \A a, b \in CycleApps(s, c) : a.name = b.name => a = b
<1>1. c.dlist \in Seq(AppInfo)
  BY DEF Cycle
<1>2. \A a \in CycleApps(s, c) : a \in AppInfo /\ a \in Range(c.dlist) /\ Owns(s, a.name)
  BY <1>1, FilterType DEF CycleApps
<1>3. \A a \in CycleApps(s, c) : a.name \in Apps
  BY <1>2 DEF AppInfo
<1>4. Distinct(c.dlist) => \A a, b \in CycleApps(s, c) : a.name = b.name => a = b
  BY <1>2 DEF Distinct, Range
<1> QED
  BY <1>2, <1>3, <1>4

\* A plan depends on the applications of its own process only: what the
\* other process does to the AMI does not disturb it.
LEMMA Frame ==
  ASSUME NEW s \in Svcs, NEW c \in Cycle, NEW run, NEW run2, CycleOK(s, c, run),
         \A n \in Apps : Owns(s, n) => run2[n] = run[n]
  PROVE  CycleOK(s, c, run2)
<1>1. \A a \in AppInfo : a.name \in Apps
  BY DEF AppInfo
<1>2. Range(c.rlist) \subseteq AppInfo
  BY DEF Cycle, Range
<1>3. \A a \in CycleApps(s, c) : run2[a.name] = run[a.name]
  BY CycleAppsType
<1>4. FreshReport(s, c, run2)
  BY <1>1, <1>2 DEF CycleOK, FreshReport
<1>5. CompletePlan(s, c, run2)
  BY <1>3 DEF CycleOK, CompletePlan
<1>6. NeededPlan(s, c, run2)
  BY <1>3 DEF CycleOK, NeededPlan, SoundPlan
<1> QED
  BY <1>4, <1>5, <1>6 DEF CycleOK

\* A cycle that has not collected yet has no plan to break.
LEMMA BlankOK ==
  ASSUME NEW s \in Svcs, NEW c \in Cycle, c.pc \in {"idle", "collect"}, c.dlist = <<>>,
         c.del = {}, c.update = {}, c.bad = {}, c.gor = NoRoutines, NEW run
  PROVE  CycleOK(s, c, run)
<1>1. Range(c.dlist) = {} /\ Names(c.dlist) = {} /\ Distinct(c.dlist)
  BY DEF Range, Names, Distinct
<1>2. CycleApps(s, c) = {}
  BY <1>1, CycleAppsType
<1> QED
  BY <1>1, <1>2 DEF CycleOK, NoPlan, FreshReport, SoundPlan, CompletePlan, NeededPlan

\* In particular an idle process, and one that goes on to the next kind.
LEMMA IdleOK ==
  ASSUME NEW s \in Svcs, NEW c \in Cycle, NEW run
  PROVE  CycleOK(s, IdleCycle, run) /\ CycleOK(s, NextKind(c), run)
<1>1. IdleCycle \in Cycle
  BY IdleType
<1>2. NextKind(c) \in Cycle
  BY IdleType DEF NextKind, Labels, Kinds, Cycle
<1>3. CycleOK(s, IdleCycle, run)
  <2>1. /\ IdleCycle.pc = "idle" /\ IdleCycle.dlist = <<>> /\ IdleCycle.del = {}
        /\ IdleCycle.update = {} /\ IdleCycle.bad = {} /\ IdleCycle.gor = NoRoutines
    BY DEF IdleCycle
  <2> QED
    BY <1>1, <2>1, BlankOK
<1>4. CycleOK(s, NextKind(c), run)
  <2> DEFINE d == NextKind(c)
  <2>1. /\ d.pc \in {"idle", "collect"} /\ d.dlist = <<>> /\ d.del = {}
        /\ d.update = {} /\ d.bad = {} /\ d.gor = NoRoutines
    BY DEF IdleCycle, NextKind
  <2> HIDE DEF d
  <2>2. CycleOK(s, d, run)
    BY <1>2, <2>1, BlankOK DEF d
  <2> QED
    BY <2>2 DEF d
<1> QED
  BY <1>3, <1>4

PlansOK == \A s \in Svcs : CycleOK(s, cyc[s], running)

\* A process that goes on with sound locals leaves every plan sound.
LEMMA GotoOK ==
  ASSUME TypeOK, PlansOK, NEW s \in Svcs, NEW c, CycleOK(s, c, running),
         Goto(s, c), running' = running
  PROVE  PlansOK'
  BY DEF TypeOK, PlansOK, Goto

\* So does a change the AMI makes to an application of the process.
LEMMA TouchOK ==
  ASSUME TypeOK, PlansOK, NEW s \in Svcs, NEW c, NEW n \in Apps, NEW v, Owns(s, n),
         CycleOK(s, c, [running EXCEPT ![n] = v]), Touch(s, c, n, v)
  PROVE  PlansOK'
<1>1. running' = [running EXCEPT ![n] = v]
  BY DEF Touch
<1> SUFFICES ASSUME NEW t \in Svcs PROVE CycleOK(t, cyc'[t], running')
  BY DEF PlansOK
<1>2. \/ cyc'[t] = IdleCycle
      \/ t = s /\ cyc'[t] = c
      \/ t # s /\ cyc'[t] = cyc[t]
  BY DEF Touch
<1>3. CASE cyc'[t] = IdleCycle
  BY <1>3, IdleOK, IdleType
<1>4. CASE t = s /\ cyc'[t] = c
  BY <1>1, <1>4
<1>5. CASE t # s /\ cyc'[t] = cyc[t]
  <2>1. \A m \in Apps : Owns(t, m) => running'[m] = running[m]
    BY <1>1, <1>5, OwnerUnique DEF TypeOK
  <2>2. cyc[t] \in Cycle /\ CycleOK(t, cyc[t], running)
    BY DEF TypeOK, PlansOK
  <2>3. CycleOK(t, cyc[t], running')
    BY <2>1, <2>2, Frame
  <2> QED
    BY <1>5, <2>3
<1> QED
  BY <1>2, <1>3, <1>4, <1>5

\* Collect makes a list that is true of the AMI.
LEMMA CollectOK ==
  ASSUME NEW s \in Svcs, NEW c \in Cycle, NEW run, CycleOK(s, c, run), c.pc = "collect",
         NEW r \in Seq(AppInfo), Distinct(r), NEW b \in BOOLEAN,
         \A a \in Range(r) : run[a.name] = a.ver,
         b => \A a \in AppInfo : a.name \in AppsOf(c.kind) /\ run[a.name] = a.ver => a \in Range(r)
  PROVE  CycleOK(s, [c EXCEPT !.pc = "report", !.rlist = r, !.ok = b], run)
<1> DEFINE d == [c EXCEPT !.pc = "report", !.rlist = r, !.ok = b]
<1>1. /\ d.pc = "report" /\ d.rlist = r /\ d.ok = b /\ d.kind = c.kind
      /\ d.dlist = c.dlist /\ d.del = c.del /\ d.update = c.update
      /\ d.bad = c.bad /\ d.gor = c.gor
  BY DEF Cycle
<1> HIDE DEF d
<1>2. CycleApps(s, d) = CycleApps(s, c)
  BY <1>1 DEF CycleApps
<1>3. NoPlan(d)
  BY <1>1 DEF CycleOK, NoPlan
<1>4. FreshReport(s, d, run)
  BY <1>1 DEF FreshReport
<1>5. SoundPlan(s, d)
  BY <1>1, <1>2 DEF CycleOK, SoundPlan
<1>6. CompletePlan(s, d, run)
  BY <1>1 DEF CompletePlan
<1>7. NeededPlan(s, d, run)
  BY <1>1 DEF CycleOK, NoPlan, NeededPlan
<1>8. CycleOK(s, d, run)
  BY <1>3, <1>4, <1>5, <1>6, <1>7 DEF CycleOK
<1> QED
  BY <1>8 DEF d

\* A Go map built from a list without repetitions holds the whole list.
LEMMA MapOfAll ==
  ASSUME NEW list, DOMAIN list \subseteq Nat, Distinct(list)
  PROVE  mapOf(list) = Range(list)
<1>1. \A i, j \in DOMAIN list : list[j].name = list[i].name => j <= i
  BY DEF Distinct
<1> QED
  BY <1>1 DEF mapOf, Range

\* The plan made from a true report and a desired list without repetitions
\* is sound, complete and needed.
LEMMA ReportOK ==
  ASSUME NEW s \in Svcs, NEW c \in Cycle, NEW run, CycleOK(s, c, run), c.pc = "report",
         NEW dl \in Seq(AppInfo), Distinct(dl), Names(dl) \subseteq AppsOf(c.kind),
         NEW del, del = toDelete(Filter(s, dl), Filter(s, c.rlist)),
         NEW upd, upd = toUpdate(Filter(s, dl), Filter(s, c.rlist))
  PROVE  CycleOK(s, [c EXCEPT !.pc = "syncapps", !.dlist = dl, !.del = del, !.update = upd], run)
<1> DEFINE d  == [c EXCEPT !.pc = "syncapps", !.dlist = dl, !.del = del, !.update = upd]
           da == Filter(s, dl)
           ra == Filter(s, c.rlist)
<1>1. /\ d.pc = "syncapps" /\ d.rlist = c.rlist /\ d.ok = c.ok /\ d.kind = c.kind
      /\ d.dlist = dl /\ d.del = del /\ d.update = upd
      /\ d.bad = c.bad /\ d.gor = c.gor
  BY DEF Cycle
<1> HIDE DEF d
<1>2. CycleApps(s, d) = Range(da)
  BY <1>1 DEF CycleApps
<1>3. c.rlist \in Seq(AppInfo) /\ Distinct(c.rlist)
  BY DEF Cycle, CycleOK, FreshReport
<1>4. /\ DOMAIN da \subseteq DOMAIN dl /\ \A i \in DOMAIN da : da[i] = dl[i]
      /\ \A a \in Range(da) : a \in AppInfo /\ a \in Range(dl) /\ Owns(s, a.name)
  BY FilterType
<1>5. \A a \in Range(ra) : a \in AppInfo /\ a \in Range(c.rlist) /\ Owns(s, a.name)
  BY <1>3, FilterType
<1>6. \A a \in Range(c.rlist) : Owns(s, a.name) => a \in Range(ra)
  BY <1>3, FilterComplete
<1>7. mapOf(da) = Range(da)
  <2>1. DOMAIN da \subseteq Nat /\ Distinct(da)
    BY <1>4 DEF Distinct
  <2> HIDE DEF da
  <2> QED BY <2>1, MapOfAll
<1>8. /\ upd = Range(da) \ Range(ra)
      /\ del \subseteq Range(ra)
      /\ \A a \in del : a.name \notin Names(da)
  <2> HIDE DEF da, ra
  <2> QED BY <1>7, MapOfType DEF toUpdate, toDelete, da, ra
<1>9. \A a \in Range(da) : a.name \in AppsOf(c.kind) /\ a.name \in Names(da)
  <2>1. \A a \in Range(da) : a.name \in Names(dl)
    BY <1>4 DEF Names, Range
  <2>2. \A a \in Range(da) : a.name \in Names(da)
    BY DEF Names, Range
  <2> QED
    BY <2>1, <2>2
<1> HIDE DEF da, ra
<1>10. NoPlan(d)
  BY <1>1 DEF CycleOK, NoPlan
<1>11. FreshReport(s, d, run)
  BY <1>1 DEF FreshReport
<1>12. SoundPlan(s, d)
  <2>1. \A a \in del : Owns(s, a.name) /\ \A b \in Range(da) : b.name # a.name
    BY <1>5, <1>8, <1>9
  <2> QED
    BY <1>1, <1>2, <1>8, <2>1 DEF SoundPlan
<1>13. CompletePlan(s, d, run)
  <2>1. \A a \in Range(da) : run[a.name] = a.ver \/ a \in upd
    BY <1>5, <1>8 DEF CycleOK, FreshReport
  <2>2. \A a \in Range(da) : d.gor[a.name] # "done"
    BY <1>1, <1>4 DEF CycleOK, NoPlan, NoRoutines, AppInfo
  <2> QED
    BY <1>1, <1>2, <2>1, <2>2 DEF CompletePlan
<1>14. NeededPlan(s, d, run)
  <2>1. c.ok => \A a \in upd : run[a.name] # a.ver
    BY <1>4, <1>6, <1>8, <1>9 DEF CycleOK, FreshReport
  <2> QED
    BY <1>1, <2>1 DEF NeededPlan
<1>15. CycleOK(s, d, run)
  BY <1>10, <1>11, <1>12, <1>13, <1>14 DEF CycleOK
<1> QED
  BY <1>15 DEF d

\* What checkMultiAppPort takes out of the plan is explained.
LEMMA CheckPortsOK ==
  ASSUME NEW s \in Svcs, NEW c \in Cycle, NEW run, CycleOK(s, c, run), c.pc = "syncapps",
         NEW lose, NEW bad, bad = Names(Filter(s, c.dlist)) \cap lose,
         NEW upd, upd = {a \in c.update : a.name \notin lose}
  PROVE  CycleOK(s, [c EXCEPT !.pc = "stats1", !.bad = bad, !.update = upd], run)
<1> DEFINE d == [c EXCEPT !.pc = "stats1", !.bad = bad, !.update = upd]
<1>1. /\ d.pc = "stats1" /\ d.rlist = c.rlist /\ d.ok = c.ok /\ d.kind = c.kind
      /\ d.dlist = c.dlist /\ d.del = c.del /\ d.update = upd
      /\ d.bad = bad /\ d.gor = c.gor
  BY DEF Cycle
<1> HIDE DEF d
<1>2. CycleApps(s, d) = CycleApps(s, c)
  BY <1>1 DEF CycleApps
<1>3. \A a \in CycleApps(s, c) : a.name \in Names(Filter(s, c.dlist))
  BY DEF CycleApps, Names, Range
<1>4. NoPlan(d)
  BY <1>1 DEF CycleOK, NoPlan
<1>5. FreshReport(s, d, run)
  BY <1>1 DEF FreshReport
<1>6. SoundPlan(s, d)
  BY <1>1, <1>2 DEF CycleOK, SoundPlan
<1>7. CompletePlan(s, d, run)
  <2>1. c.bad = {}
    BY DEF CycleOK, NoPlan
  <2>2. \A a \in CycleApps(s, c) : \/ run[a.name] = a.ver
                                   \/ a \in c.update /\ c.gor[a.name] # "done"
    BY <2>1 DEF CycleOK, CompletePlan
  <2>3. \A a \in CycleApps(s, c) : a \in c.update => a.name \in bad \/ a \in upd
    BY <1>3
  <2> QED
    BY <1>1, <1>2, <2>2, <2>3 DEF CompletePlan
<1>8. NeededPlan(s, d, run)
  BY <1>1 DEF CycleOK, NeededPlan
<1>9. CycleOK(s, d, run)
  BY <1>4, <1>5, <1>6, <1>7, <1>8 DEF CycleOK
<1> QED
  BY <1>9 DEF d

\* Deleting what is not desired disturbs nothing that is.
LEMMA DeleteOK ==
  ASSUME NEW s \in Svcs, NEW c \in Cycle, NEW run \in [Apps -> Versions \cup {None}],
         CycleOK(s, c, run), c.pc = "delete", NEW a \in c.del
  PROVE  CycleOK(s, [c EXCEPT !.del = @ \ {a}], [run EXCEPT ![a.name] = None])
<1> DEFINE d  == [c EXCEPT !.del = @ \ {a}]
           r2 == [run EXCEPT ![a.name] = None]
<1>1. /\ d.pc = "delete" /\ d.rlist = c.rlist /\ d.ok = c.ok /\ d.kind = c.kind
      /\ d.dlist = c.dlist /\ d.del = c.del \ {a} /\ d.update = c.update
      /\ d.bad = c.bad /\ d.gor = c.gor
  BY DEF Cycle
<1> HIDE DEF d
<1>2. CycleApps(s, d) = CycleApps(s, c)
  BY <1>1 DEF CycleApps
<1>3. \A b \in CycleApps(s, c) : r2[b.name] = run[b.name]
  BY CycleAppsType DEF CycleOK, SoundPlan
<1> HIDE DEF r2
<1>4. NoPlan(d)
  BY <1>1 DEF CycleOK, NoPlan
<1>5. FreshReport(s, d, r2)
  BY <1>1 DEF FreshReport
<1>6. SoundPlan(s, d)
  BY <1>1, <1>2 DEF CycleOK, SoundPlan
<1>7. CompletePlan(s, d, r2)
  BY <1>1, <1>2, <1>3 DEF CycleOK, CompletePlan
<1>8. NeededPlan(s, d, r2)
  BY <1>1, <1>3 DEF CycleOK, NeededPlan, SoundPlan
<1>9. CycleOK(s, d, r2)
  BY <1>4, <1>5, <1>6, <1>7, <1>8 DEF CycleOK
<1> QED
  BY <1>9 DEF d, r2

\* One goroutine goes from stage l to stage g and leaves its application at
\* version v.  The plan stays sound when a finished goroutine leaves the
\* desired version or a cause, and a pending one leaves another version.
LEMMA RoutineOK ==
  ASSUME NEW s \in Svcs, NEW c \in Cycle, NEW run \in [Apps -> Versions \cup {None}],
         CycleOK(s, c, run), c.pc = "apply", NEW a \in c.update,
         NEW v, NEW g \in Stages \ {"none"}, NEW bad, c.bad \subseteq bad,
         g = "done" => v = a.ver \/ a.name \in bad,
         c.ok /\ g \in Pending => v # a.ver
  PROVE  CycleOK(s, [c EXCEPT !.gor[a.name] = g, !.bad = bad], [run EXCEPT ![a.name] = v])
<1> DEFINE d  == [c EXCEPT !.gor[a.name] = g, !.bad = bad]
           r2 == [run EXCEPT ![a.name] = v]
<1>0. a \in CycleApps(s, c) /\ a.name \in Apps
  BY CycleAppsType DEF CycleOK, SoundPlan
<1>1. /\ d.pc = "apply" /\ d.rlist = c.rlist /\ d.ok = c.ok /\ d.kind = c.kind
      /\ d.dlist = c.dlist /\ d.del = c.del /\ d.update = c.update
      /\ d.bad = bad /\ d.gor = [c.gor EXCEPT ![a.name] = g]
  BY DEF Cycle
<1> HIDE DEF d
<1>2. CycleApps(s, d) = CycleApps(s, c)
  BY <1>1 DEF CycleApps
<1>3. /\ d.gor[a.name] = g /\ r2[a.name] = v
      /\ \A n \in Apps : n # a.name => d.gor[n] = c.gor[n] /\ r2[n] = run[n]
  BY <1>0, <1>1 DEF Cycle
<1>4. \A b \in CycleApps(s, c) : b.name \in Apps /\ (b.name = a.name => b = a)
  BY <1>0, CycleAppsType DEF CycleOK, SoundPlan
<1> HIDE DEF r2
<1>5. NoPlan(d)
  BY <1>1, <1>3, <1>4 DEF CycleOK, NoPlan, SoundPlan
<1>6. FreshReport(s, d, r2)
  BY <1>1 DEF FreshReport
<1>7. SoundPlan(s, d)
  BY <1>1, <1>2 DEF CycleOK, SoundPlan
<1>8. CompletePlan(s, d, r2)
  <2>1. \A b \in CycleApps(s, c) : \/ run[b.name] = b.ver \/ b.name \in c.bad
                                   \/ b \in c.update /\ c.gor[b.name] # "done"
    BY DEF CycleOK, CompletePlan
  <2>2. ASSUME NEW b \in CycleApps(s, c)
        PROVE  \/ r2[b.name] = b.ver \/ b.name \in bad
               \/ b \in c.update /\ d.gor[b.name] # "done"
    <3>1. CASE b = a
      BY <1>3, <3>1
    <3>2. CASE b.name # a.name
      BY <1>3, <1>4, <2>1, <3>2
    <3> QED
      BY <1>4, <3>1, <3>2
  <2> QED
    BY <1>1, <1>2, <2>2 DEF CompletePlan
<1>9. NeededPlan(s, d, r2)
  <2>1. ASSUME c.ok, NEW b \in c.update, d.gor[b.name] \in Pending
        PROVE  r2[b.name] # b.ver
    <3>1. b \in CycleApps(s, c)
      BY DEF CycleOK, SoundPlan
    <3>2. CASE b = a
      BY <1>3, <2>1, <3>2
    <3>3. CASE b.name # a.name
      BY <1>3, <1>4, <2>1, <3>1, <3>3 DEF CycleOK, NeededPlan
    <3> QED
      BY <1>4, <3>1, <3>2, <3>3
  <2> QED
    BY <1>1, <2>1 DEF NeededPlan
<1>10. CycleOK(s, d, r2)
  BY <1>5, <1>6, <1>7, <1>8, <1>9 DEF CycleOK
<1> QED
  BY <1>10 DEF d, r2

\* The steps of applyApps that start and join the goroutines.
LEMMA StartApplyOK ==
  ASSUME NEW s \in Svcs, NEW c \in Cycle, NEW run, CycleOK(s, c, run), c.pc = "delete",
         NEW g, g = [n \in Apps |-> IF \E a \in c.update : a.name = n THEN "sync" ELSE "none"]
  PROVE  CycleOK(s, [c EXCEPT !.pc = "apply", !.gor = g], run)
<1> DEFINE d == [c EXCEPT !.pc = "apply", !.gor = g]
<1>1. /\ d.pc = "apply" /\ d.rlist = c.rlist /\ d.ok = c.ok /\ d.kind = c.kind
      /\ d.dlist = c.dlist /\ d.del = c.del /\ d.update = c.update
      /\ d.bad = c.bad /\ d.gor = g
  BY DEF Cycle
<1> HIDE DEF d
<1>2. CycleApps(s, d) = CycleApps(s, c)
  BY <1>1 DEF CycleApps
<1>3. \A a \in c.update : a.name \in Apps /\ g[a.name] = "sync" /\ c.gor[a.name] = "none"
  <2>1. \A a \in c.update : a.name \in Apps
    BY CycleAppsType DEF CycleOK, SoundPlan
  <2>2. c.gor = NoRoutines
    BY DEF CycleOK, NoPlan
  <2> QED
    BY <2>1, <2>2 DEF NoRoutines
<1>4. NoPlan(d)
  BY <1>1, <1>3 DEF NoPlan
<1>5. FreshReport(s, d, run)
  BY <1>1 DEF FreshReport
<1>6. SoundPlan(s, d)
  BY <1>1, <1>2 DEF CycleOK, SoundPlan
<1>7. CompletePlan(s, d, run)
  BY <1>1, <1>2, <1>3 DEF CycleOK, CompletePlan
<1>8. NeededPlan(s, d, run)
  BY <1>1, <1>3 DEF CycleOK, NeededPlan, Pending
<1>9. CycleOK(s, d, run)
  BY <1>4, <1>5, <1>6, <1>7, <1>8 DEF CycleOK
<1> QED
  BY <1>9 DEF d

\* When all goroutines are joined nothing is left to be updated.
LEMMA JoinApplyOK ==
  ASSUME NEW s \in Svcs, NEW c \in Cycle, NEW run, CycleOK(s, c, run), c.pc = "apply",
         \A n \in Apps : c.gor[n] \in {"none", "done"}
  PROVE  CycleOK(s, [c EXCEPT !.pc = "stats2", !.gor = NoRoutines], run)
<1> DEFINE d == [c EXCEPT !.pc = "stats2", !.gor = NoRoutines]
<1>1. /\ d.pc = "stats2" /\ d.rlist = c.rlist /\ d.ok = c.ok /\ d.kind = c.kind
      /\ d.dlist = c.dlist /\ d.del = c.del /\ d.update = c.update
      /\ d.bad = c.bad /\ d.gor = NoRoutines
  BY DEF Cycle
<1> HIDE DEF d
<1>2. CycleApps(s, d) = CycleApps(s, c)
  BY <1>1 DEF CycleApps
<1>3. \A a \in c.update : c.gor[a.name] = "done"
  <2>1. \A a \in c.update : a.name \in Apps
    BY CycleAppsType DEF CycleOK, SoundPlan
  <2> QED
    BY <2>1 DEF CycleOK, NoPlan
<1>4. NoPlan(d)
  BY <1>1 DEF NoPlan
<1>5. FreshReport(s, d, run)
  BY <1>1 DEF FreshReport
<1>6. SoundPlan(s, d)
  BY <1>1, <1>2 DEF CycleOK, SoundPlan
<1>7. CompletePlan(s, d, run)
  BY <1>1, <1>2, <1>3 DEF CycleOK, CompletePlan
<1>8. NeededPlan(s, d, run)
  BY <1>1 DEF NeededPlan
<1>9. CycleOK(s, d, run)
  BY <1>4, <1>5, <1>6, <1>7, <1>8 DEF CycleOK
<1> QED
  BY <1>9 DEF d

\* The same for the form the actions of a goroutine have.
LEMMA StepOK ==
  ASSUME TypeOK, PlansOK, NEW s \in Svcs, NEW a, NEW l, Routine(s, a, l), NEW v,
         NEW g \in Stages \ {"none"},
         g = "done" => v = a.ver,
         cyc[s].ok /\ g \in Pending => v # a.ver
  PROVE  /\ CycleOK(s, Step(s, a, g), [running EXCEPT ![a.name] = v])
         /\ a \in AppInfo /\ a.name \in Apps /\ Owns(s, a.name)
<1> DEFINE c == cyc[s]
<1>1. c \in Cycle /\ CycleOK(s, c, running) /\ running \in [Apps -> Versions \cup {None}]
  BY DEF TypeOK, PlansOK
<1>2. c.pc = "apply" /\ a \in c.update
  BY DEF Routine, At
<1> HIDE DEF c
<1>3. a \in AppInfo /\ a.name \in Apps /\ Owns(s, a.name)
  BY <1>1, <1>2, CycleAppsType DEF CycleOK, SoundPlan
<1>4. CycleOK(s, [c EXCEPT !.gor[a.name] = g, !.bad = c.bad], [running EXCEPT ![a.name] = v])
  BY <1>1, <1>2, RoutineOK DEF c
<1>5. [c EXCEPT !.gor[a.name] = g, !.bad = c.bad] = [c EXCEPT !.gor[a.name] = g]
  BY <1>1 DEF Cycle
<1> QED
  BY <1>3, <1>4, <1>5 DEF Step, c

\* Every step of the cycle of a process keeps every plan sound.
LEMMA EngineStepOK ==
  ASSUME TypeOK, PlanInv, NEW s \in Svcs, EngineStep(s)
  PROVE  PlansOK'
<1> DEFINE c == cyc[s]
<1>0. /\ PlansOK /\ c \in Cycle /\ CycleOK(s, c, running)
      /\ running \in [Apps -> Versions \cup {None}]
  BY DEF TypeOK, PlanInv, PlansOK
<1>1. CASE Tick(s)
  <2> DEFINE d == [IdleCycle EXCEPT !.pc = "collect", !.snap = desire[s]]
  <2>1. d \in Cycle
    BY IdleType DEF Labels, Cycle, TypeOK
  <2>2. /\ d.pc = "collect" /\ d.dlist = <<>> /\ d.del = {} /\ d.update = {}
        /\ d.bad = {} /\ d.gor = NoRoutines
    BY DEF IdleCycle
  <2>3. Goto(s, d) /\ running' = running
    BY <1>1 DEF Tick
  <2> HIDE DEF d
  <2>4. CycleOK(s, d, running)
    BY <2>1, <2>2, BlankOK
  <2> QED
    BY <1>0, <2>3, <2>4, GotoOK
<1>2. CASE Collect(s)
  <2>1. PICK r \in Seq(AppInfo) :
          /\ Range(r) = Listed(c.kind) /\ Distinct(r)
          /\ Goto(s, [c EXCEPT !.pc = "report", !.rlist = r, !.ok = TRUE])
    BY <1>2, CollectType DEF Collect
  <2>2. c.pc = "collect" /\ running' = running
    BY <1>2 DEF Collect, At
  <2>3. CycleOK(s, [c EXCEPT !.pc = "report", !.rlist = r, !.ok = TRUE], running)
    <3>1. /\ \A a \in Range(r) : running[a.name] = a.ver
          /\ \A a \in AppInfo : a.name \in AppsOf(c.kind) /\ running[a.name] = a.ver
                                  => a \in Range(r)
      BY <2>1 DEF Listed
    <3> HIDE DEF c
    <3> QED BY <1>0, <2>1, <2>2, <3>1, CollectOK
  <2> QED
    BY <1>0, <2>1, <2>2, <2>3, GotoOK
<1>3. CASE Report(s)
  <2> DEFINE dl  == Delta(desire[s][c.kind], c.rlist)
             del == toDelete(Filter(s, dl), Filter(s, c.rlist))
             upd == toUpdate(Filter(s, dl), Filter(s, c.rlist))
             d   == [c EXCEPT !.pc = "syncapps", !.dlist = dl, !.del = del, !.update = upd]
  <2>1. /\ Goto(s, IF dl = Nil THEN NextKind(c) ELSE d)
        /\ c.pc = "report" /\ running' = running
    BY <1>3 DEF Report, At
  <2>2. dl # Nil => /\ dl \in Seq(AppInfo) /\ dl = desire[s][c.kind]
    BY <1>3, ReportType
  <2>3. dl # Nil => Distinct(dl) /\ Names(dl) \subseteq AppsOf(c.kind)
    <3>1. c.kind \in Kinds
      BY <1>0 DEF Cycle
    <3>2. dl # Nil => desire[s] \in Desires
      BY <2>2, <3>1 DEF PlanInv, NoDesire
    <3> HIDE DEF dl
    <3> QED BY <2>2, <3>1, <3>2, DesiresAssumption
  <2>4. dl # Nil => CycleOK(s, d, running)
    <3> HIDE DEF dl, c
    <3>1. dl # Nil => CycleOK(s, [c EXCEPT !.pc = "syncapps", !.dlist = dl, !.del = del,
                                           !.update = upd], running)
      <4> HIDE DEF del, upd
      <4> QED BY <1>0, <2>1, <2>2, <2>3, ReportOK DEF del, upd
    <3> QED BY <3>1
  <2>5. CycleOK(s, NextKind(c), running)
    BY <1>0, IdleOK
  <2> HIDE DEF d, dl
  <2> QED
    BY <1>0, <2>1, <2>4, <2>5, GotoOK
<1>4. CASE CheckPorts(s)
  <2>1. PICK lose : Goto(s, [c EXCEPT !.pc = "stats1",
                               !.bad = Names(Filter(s, c.dlist)) \cap lose,
                               !.update = {a \in c.update : a.name \notin lose}])
    BY <1>4 DEF CheckPorts
  <2>2. c.pc = "syncapps" /\ running' = running
    BY <1>4 DEF CheckPorts, At
  <2> DEFINE bad == Names(Filter(s, c.dlist)) \cap lose
             upd == {a \in c.update : a.name \notin lose}
  <2>3. CycleOK(s, [c EXCEPT !.pc = "stats1", !.bad = bad, !.update = upd], running)
    <3> HIDE DEF c, bad, upd
    <3> QED BY <1>0, <2>2, CheckPortsOK DEF bad, upd
  <2> QED
    BY <1>0, <2>1, <2>2, <2>3, GotoOK
<1>5. CASE ReportAppStats(s)
  <2>1. running' = running
    BY <1>5 DEF ReportAppStats
  <2>2. CASE c.pc = "stats2"
    BY <1>0, <1>5, <2>1, <2>2, IdleOK, GotoOK DEF ReportAppStats
  <2>3. CASE c.pc = "stats1"
    <3> DEFINE d == [c EXCEPT !.pc = "delete"]
    <3>1. /\ d.pc = "delete" /\ d.rlist = c.rlist /\ d.ok = c.ok /\ d.kind = c.kind
          /\ d.dlist = c.dlist /\ d.del = c.del /\ d.update = c.update
          /\ d.bad = c.bad /\ d.gor = c.gor
      BY <1>0 DEF Cycle
    <3>2. Goto(s, d)
      BY <1>5, <2>3 DEF ReportAppStats
    <3> HIDE DEF d, c
    <3>3. CycleOK(s, d, running)
      BY <1>0, <2>3, <3>1
         DEF CycleOK, NoPlan, FreshReport, SoundPlan, CompletePlan, NeededPlan, CycleApps
    <3> QED
      BY <1>0, <2>1, <3>2, <3>3, GotoOK
  <2> QED
    BY <1>5, <2>2, <2>3 DEF ReportAppStats, At
<1>6. CASE DeleteApp(s)
  <2>1. PICK a \in c.del : Touch(s, [c EXCEPT !.del = @ \ {a}], a.name, None)
    BY <1>6 DEF DeleteApp
  <2>2. c.pc = "delete"
    BY <1>6 DEF DeleteApp, At
  <2>3. a.name \in Apps /\ Owns(s, a.name)
    BY <1>0 DEF Cycle, AppInfo, CycleOK, SoundPlan
  <2>4. CycleOK(s, [c EXCEPT !.del = @ \ {a}], [running EXCEPT ![a.name] = None])
    <3> HIDE DEF c
    <3> QED BY <1>0, <2>2, DeleteOK
  <2> QED
    BY <1>0, <2>1, <2>3, <2>4, TouchOK
<1>7. CASE StartApply(s)
  <2> DEFINE g == [n \in Apps |-> IF \E a \in c.update : a.name = n THEN "sync" ELSE "none"]
  <2>1. /\ Goto(s, [c EXCEPT !.pc = "apply", !.gor = g])
        /\ c.pc = "delete" /\ running' = running
    BY <1>7 DEF StartApply, At
  <2>2. CycleOK(s, [c EXCEPT !.pc = "apply", !.gor = g], running)
    <3> HIDE DEF c, g
    <3> QED BY <1>0, <2>1, StartApplyOK DEF g
  <2> QED
    BY <1>0, <2>1, <2>2, GotoOK
<1>8. CASE GoRoutine(s)
  <2> SUFFICES ASSUME NEW a \in AppInfo,
                      SyncResource(s, a) \/ Remove(s, a) \/ Install(s, a) \/ RecordCause(s, a)
               PROVE  PlansOK'
    BY <1>8 DEF GoRoutine
  <2>1. \A l : Routine(s, a, l) /\ l \in Pending /\ c.ok => running[a.name] # a.ver
    BY <1>0 DEF Routine, At, CycleOK, NeededPlan
  <2>2. [running EXCEPT ![a.name] = running[a.name]] = running
    BY <1>0
  <2>3. CASE SyncResource(s, a)
    <3> DEFINE g == IF a \in Preserve THEN "install" ELSE "remove"
    <3>1. Routine(s, a, "sync") /\ Goto(s, Step(s, a, g)) /\ running' = running
      BY <2>3 DEF SyncResource
    <3>2. g \in Stages \ {"none"} /\ g # "done"
      BY DEF Stages
    <3> HIDE DEF g
    <3>3. CycleOK(s, Step(s, a, g), running)
      BY <1>0, <2>1, <2>2, <3>1, <3>2, StepOK DEF Pending
    <3> QED
      BY <1>0, <3>1, <3>3, GotoOK
  <2>4. CASE Remove(s, a)
    <3>1. Routine(s, a, "remove") /\ Touch(s, Step(s, a, "install"), a.name, None)
      BY <2>4 DEF Remove
    <3> DEFINE g == "install"
    <3>2. None # a.ver /\ g \in Stages \ {"none"} /\ g # "done"
      BY VersionsAssumption DEF AppInfo, Stages
    <3>3. /\ CycleOK(s, Step(s, a, g), [running EXCEPT ![a.name] = None])
          /\ a.name \in Apps /\ Owns(s, a.name)
      <4> HIDE DEF g
      <4> QED BY <1>0, <3>1, <3>2, StepOK
    <3> QED
      BY <1>0, <3>1, <3>3, TouchOK
  <2>5. CASE Install(s, a)
    <3>1. Routine(s, a, "install") /\ Touch(s, Step(s, a, "done"), a.name, a.ver)
      BY <2>5 DEF Install
    <3>2. /\ CycleOK(s, Step(s, a, "done"), [running EXCEPT ![a.name] = a.ver])
          /\ a.name \in Apps /\ Owns(s, a.name)
      BY <1>0, <3>1, StepOK DEF Stages, Pending
    <3> QED
      BY <1>0, <3>1, <3>2, TouchOK
  <2>6. CASE RecordCause(s, a)
    <3> DEFINE d == [c EXCEPT !.gor[a.name] = "done", !.bad = c.bad \cup {a.name}]
    <3>1. /\ Goto(s, [Step(s, a, "done") EXCEPT !.bad = @ \cup {a.name}])
          /\ c.pc = "apply" /\ a \in c.update /\ running' = running
      BY <2>6 DEF RecordCause, Routine, At
    <3>2. [Step(s, a, "done") EXCEPT !.bad = @ \cup {a.name}] = d
      BY <1>0 DEF Step, Cycle
    <3>3. CycleOK(s, d, running)
      <4>1. CycleOK(s, d, [running EXCEPT ![a.name] = running[a.name]])
        <5> DEFINE bad == c.bad \cup {a.name}
        <5>1. c.bad \subseteq bad /\ a.name \in bad /\ "done" \in Stages \ {"none"}
              /\ "done" \notin Pending
          BY DEF Stages, Pending
        <5> HIDE DEF c, bad
        <5>2. CycleOK(s, [c EXCEPT !.gor[a.name] = "done", !.bad = bad],
                      [running EXCEPT ![a.name] = running[a.name]])
          BY <1>0, <3>1, <5>1, RoutineOK
        <5> QED
          BY <5>2 DEF bad
      <4> QED
        BY <2>2, <4>1
    <3> QED
      BY <1>0, <3>1, <3>2, <3>3, GotoOK
  <2> QED
    BY <2>3, <2>4, <2>5, <2>6
<1>9. CASE JoinApply(s)
  <2>1. /\ Goto(s, [c EXCEPT !.pc = "stats2", !.gor = NoRoutines])
        /\ c.pc = "apply" /\ running' = running
        /\ \A n \in Apps : c.gor[n] \in {"none", "done"}
    BY <1>9 DEF JoinApply, At
  <2>2. CycleOK(s, [c EXCEPT !.pc = "stats2", !.gor = NoRoutines], running)
    <3> HIDE DEF c
    <3> QED BY <1>0, <2>1, JoinApplyOK
  <2> QED
    BY <1>0, <2>1, <2>2, GotoOK
<1> QED
  BY <1>1, <1>2, <1>3, <1>4, <1>5, <1>6, <1>7, <1>8, <1>9 DEF EngineStep

\* So does every failure, crash and abort.
LEMMA EngineFaultOK ==
  ASSUME TypeOK, PlanInv, NEW s \in Svcs, EngineFault(s)
  PROVE  PlansOK'
<1> DEFINE c == cyc[s]
<1>0. /\ PlansOK /\ c \in Cycle /\ CycleOK(s, c, running)
      /\ running \in [Apps -> Versions \cup {None}]
      /\ \A run : CycleOK(s, IdleCycle, run)
  BY IdleOK DEF TypeOK, PlanInv, PlansOK
<1>1. CASE CollectFails(s)
  <2>1. PICK S \in SUBSET Listed(c.kind) : CollectAs(s, S, FALSE)
    BY <1>1 DEF CollectFails
  <2>2. PICK r \in Seq(AppInfo) :
          /\ Range(r) = S /\ Distinct(r)
          /\ Goto(s, [c EXCEPT !.pc = "report", !.rlist = r, !.ok = FALSE])
    BY <2>1, CollectType
  <2>3. c.pc = "collect" /\ running' = running
    BY <1>1 DEF CollectFails, At
  <2>4. CycleOK(s, [c EXCEPT !.pc = "report", !.rlist = r, !.ok = FALSE], running)
    <3>1. \A a \in Range(r) : running[a.name] = a.ver
      BY <2>2 DEF Listed
    <3> DEFINE b == FALSE
    <3>2. ~b /\ b \in BOOLEAN
      OBVIOUS
    <3>3. CycleOK(s, [c EXCEPT !.pc = "report", !.rlist = r, !.ok = b], running)
      <4> HIDE DEF c, b
      <4> QED BY <1>0, <2>2, <2>3, <3>1, <3>2, CollectOK
    <3> QED
      BY <3>3
  <2> QED
    BY <1>0, <2>2, <2>3, <2>4, GotoOK
<1>2. CASE DeleteAppFails(s)
  <2>1. PICK a \in c.del : \E v \in {running[a.name], None} : Touch(s, IdleCycle, a.name, v)
    BY <1>2 DEF DeleteAppFails
  <2>2. a.name \in Apps /\ Owns(s, a.name)
    BY <1>0 DEF Cycle, AppInfo, CycleOK, SoundPlan
  <2> QED
    BY <1>0, <2>1, <2>2, TouchOK
<1>3. CASE CycleFails(s) \/ Crash(s) \/ ConcurrentMapWrites(s)
  BY <1>0, <1>3, GotoOK DEF CycleFails, Crash, ConcurrentMapWrites
<1>4. ASSUME NEW a \in AppInfo, RoutineFails(s, a) PROVE PlansOK'
  <2>1. PICK v, l : Routine(s, a, l) /\ Touch(s, Step(s, a, "fail"), a.name, v)
    BY <1>4 DEF RoutineFails
  <2> DEFINE g == "fail"
  <2>2. g \in Stages \ {"none"} /\ g # "done" /\ g \notin Pending
    BY DEF Stages, Pending
  <2>3. /\ CycleOK(s, Step(s, a, g), [running EXCEPT ![a.name] = v])
        /\ a.name \in Apps /\ Owns(s, a.name)
    <3> HIDE DEF g
    <3> QED BY <1>0, <2>1, <2>2, StepOK
  <2> QED
    BY <1>0, <2>1, <2>3, TouchOK
<1> QED
  BY <1>1, <1>2, <1>3, <1>4 DEF EngineFault

\* The plan invariant is inductive.
LEMMA PlanStep ==
  ASSUME TypeOK, PlanInv, [Next]_vars
  PROVE  PlanInv'
<1>0. PlansOK /\ cloud \in Desires /\ \A t \in Svcs : desire[t] \in Desires \cup {NoDesire}
  BY DEF PlanInv, PlansOK
<1>1. PlansOK'
  <2>1. CASE UNCHANGED <<running, cyc>>
    BY <1>0, <2>1 DEF PlansOK
  <2>2. ASSUME NEW s \in Svcs, EngineStep(s) PROVE PlansOK'
    BY <2>2, EngineStepOK
  <2>3. ASSUME NEW s \in Svcs, EngineFault(s) PROVE PlansOK'
    BY <2>3, EngineFaultOK
  <2>4. ASSUME NEW s \in Svcs, Exit(s) PROVE PlansOK'
    <3>1. CycleOK(s, IdleCycle, running)
      BY IdleOK, IdleType
    <3> QED
      BY <1>0, <2>4, <3>1, GotoOK DEF Exit
  <2> QED
    BY <2>1, <2>2, <2>3, <2>4 DEF Next, vars, CloudUpdate, SyncReport, SyncNodeProps
<1>2. cloud' \in Desires
  <2>1. cloud' \in Desires \/ cloud' = cloud
    BY DEF Next, vars, CloudUpdate, SyncReport, SyncNodeProps, EngineStep, EngineFault, Exit,
           Tick, Collect, Report, CheckPorts, ReportAppStats, DeleteApp, StartApply, GoRoutine,
           SyncResource, Remove, Install, RecordCause, JoinApply, CollectFails,
           DeleteAppFails, CycleFails, Crash, ConcurrentMapWrites, RoutineFails
  <2> QED
    BY <1>0, <2>1
<1>3. \A t \in Svcs : desire'[t] \in Desires \cup {NoDesire}
  <2>1. \/ desire' = desire
        \/ \E s \in Svcs, d \in {cloud, NoDesire} : desire' = [desire EXCEPT ![s] = d]
    BY DEF Next, vars, CloudUpdate, SyncReport, SyncNodeProps, EngineStep, EngineFault, Exit,
           Tick, Collect, Report, CheckPorts, ReportAppStats, DeleteApp, StartApply, GoRoutine,
           SyncResource, Remove, Install, RecordCause, JoinApply, CollectFails,
           DeleteAppFails, CycleFails, Crash, ConcurrentMapWrites, RoutineFails
  <2> QED
    BY <1>0, <2>1 DEF TypeOK
<1> QED
  BY <1>1, <1>2, <1>3 DEF PlanInv, PlansOK

\* The plan of every cycle stays true of the AMI, in every instance.
THEOREM PlanCorrect == Spec => []PlanInv
<1>1. Init => PlanInv
  <2> SUFFICES ASSUME Init PROVE PlanInv
    OBVIOUS
  <2>1. \A s \in Svcs : CycleOK(s, IdleCycle, running)
    BY IdleOK, IdleType
  <2> QED
    BY <2>1 DEF Init, PlanInv
<1>2. TypeOK /\ PlanInv /\ [Next]_vars => PlanInv'
  BY PlanStep
<1>3. Spec => []TypeOK
  BY TypeCorrect
<1> QED
  BY <1>1, <1>2, <1>3, PTL DEF Spec

\* No error is lost between a goroutine and the report, in every instance:
\* after a cycle every desired application of the process is listed at its
\* version or has a cause.
THEOREM ApplyOrExplainCorrect == Spec => []ApplyOrExplain
<1>1. PlanInv => ApplyOrExplain
  BY DEF PlanInv, CycleOK, CompletePlan, ApplyOrExplain, CycleApps, Dapps, At
<1> QED
  BY <1>1, PlanCorrect, PTL

-----------------------------------------------------------------------------
(* What a change of the AMI tells about the process that made it.          *)

\* Process s is about to delete application n, or has a goroutine for it.
Deleting(s, n) == At(s, "delete") /\ \E a \in cyc[s].del : a.name = n
Applying(s, n) ==
  /\ At(s, "apply")
  /\ \E a \in cyc[s].update : a.name = n /\ cyc[s].gor[n] \in {"remove", "install"}

\* The AMI changes one application at a time, on behalf of one process.
LEMMA WhoTouches ==
  ASSUME TypeOK, [Next]_vars, NEW n \in Apps, running'[n] # running[n]
  PROVE  \E s \in Svcs : /\ Deleting(s, n) \/ Applying(s, n)
                         /\ \A m \in Apps : m # n => running'[m] = running[m]
<1>1. ASSUME NEW s \in Svcs, NEW c, NEW m, NEW v, Touch(s, c, m, v)
      PROVE  /\ m = n /\ v # running[n]
             /\ \A k \in Apps : k # n => running'[k] = running[k]
  BY <1>1 DEF Touch, TypeOK
<1>2. PICK s \in Svcs : \/ DeleteApp(s) \/ DeleteAppFails(s)
                        \/ \E a \in AppInfo : Remove(s, a) \/ Install(s, a) \/ RoutineFails(s, a)
  BY DEF Next, vars, CloudUpdate, SyncReport, SyncNodeProps, EngineStep, EngineFault, Exit,
         Tick, Collect, Report, CheckPorts, ReportAppStats, StartApply, GoRoutine,
         SyncResource, RecordCause, JoinApply, CollectFails, CycleFails, Crash,
         ConcurrentMapWrites
<1>3. CASE DeleteApp(s) \/ DeleteAppFails(s)
  <2>1. PICK a, c, v : a \in cyc[s].del /\ Touch(s, c, a.name, v)
    BY <1>3 DEF DeleteApp, DeleteAppFails
  <2>2. At(s, "delete")
    BY <1>3 DEF DeleteApp, DeleteAppFails
  <2> QED
    BY <1>1, <2>1, <2>2 DEF Deleting
<1>4. ASSUME NEW a \in AppInfo, Remove(s, a) \/ Install(s, a) \/ RoutineFails(s, a)
      PROVE  \E t \in Svcs : /\ Deleting(t, n) \/ Applying(t, n)
                             /\ \A m \in Apps : m # n => running'[m] = running[m]
  <2>1. PICK l, c, v :
          /\ l \in {"sync", "remove", "install"}
          /\ Routine(s, a, l) /\ Touch(s, c, a.name, v)
          /\ l = "sync" => v = running[a.name]
    BY <1>4 DEF Remove, Install, RoutineFails
  <2>2. a.name = n /\ l # "sync"
    BY <1>1, <2>1
  <2>3. Applying(s, n)
    BY <2>1, <2>2 DEF Applying, Routine
  <2> QED
    BY <1>1, <2>1, <2>3
<1> QED
  BY <1>2, <1>3, <1>4

\* It is the process that looks after the application.
LEMMA OwnerTouches ==
  ASSUME TypeOK, PlanInv, NEW s \in Svcs, NEW n \in Apps, Deleting(s, n) \/ Applying(s, n)
  PROVE  Owns(s, n) /\ cyc[s].pc \in {"delete", "apply"}
<1>1. cyc[s] \in Cycle /\ SoundPlan(s, cyc[s])
  BY DEF TypeOK, PlanInv, CycleOK
<1>2. CASE Deleting(s, n)
  BY <1>1, <1>2 DEF Deleting, At, SoundPlan
<1>3. CASE Applying(s, n)
  BY <1>1, <1>3, CycleAppsType DEF Applying, At, SoundPlan
<1> QED
  BY <1>2, <1>3

\* The two processes never touch each other's applications, in every
\* instance.
THEOREM OnlyOwnerTouchesCorrect == Spec => OnlyOwnerTouches
<1>1. TypeOK /\ PlanInv /\ [Next]_vars =>
        [\A n \in Apps : running'[n] # running[n] =>
           \E s \in Svcs : Owns(s, n) /\ cyc[s].pc \in {"delete", "apply"}]_vars
  <2> SUFFICES ASSUME TypeOK, PlanInv, [Next]_vars, NEW n \in Apps, running'[n] # running[n]
               PROVE  \E s \in Svcs : Owns(s, n) /\ cyc[s].pc \in {"delete", "apply"}
    OBVIOUS
  <2> QED
    BY WhoTouches, OwnerTouches
<1> QED
  BY <1>1, TypeCorrect, PlanCorrect, PTL DEF Spec, OnlyOwnerTouches

\* No interleaving restarts a healthy application, in every instance.
THEOREM NoNeedlessRestartCorrect == Spec => NoNeedlessRestart
<1>1. TypeOK /\ PlanInv /\ [Next]_vars =>
        [\A n \in Apps : running[n] # None /\ running'[n] # running[n] =>
           \E s \in Svcs : /\ Owns(s, n)
                           /\ cyc[s].ok => [name |-> n, ver |-> running[n]] \notin Dapps(s)]_vars
  <2> SUFFICES ASSUME TypeOK, PlanInv, [Next]_vars, NEW n \in Apps,
                      running[n] # None, running'[n] # running[n]
               PROVE  \E s \in Svcs :
                        /\ Owns(s, n)
                        /\ cyc[s].ok => [name |-> n, ver |-> running[n]] \notin Dapps(s)
    OBVIOUS
  <2>1. PICK s \in Svcs : Deleting(s, n) \/ Applying(s, n)
    BY WhoTouches
  <2> DEFINE c == cyc[s]
             x == [name |-> n, ver |-> running[n]]
  <2>2. Owns(s, n)
    BY <2>1, OwnerTouches
  <2>3. /\ c \in Cycle /\ SoundPlan(s, c) /\ NeededPlan(s, c, running)
        /\ Dapps(s) = CycleApps(s, c)
    BY DEF TypeOK, PlanInv, CycleOK, Dapps, CycleApps
  <2>4. x.name = n /\ x.ver = running[n]
    OBVIOUS
  <2>5. CASE Deleting(s, n)
    <3>1. \A b \in CycleApps(s, c) : b.name # n
      BY <2>3, <2>5 DEF Deleting, SoundPlan
    <3>2. x \notin Dapps(s)
      <4> HIDE DEF x, c
      <4> QED BY <2>3, <2>4, <3>1
    <3> QED
      BY <2>2, <3>2
  <2>6. CASE Applying(s, n)
    <3>1. PICK a \in c.update : a.name = n /\ c.gor[n] \in {"remove", "install"} /\ c.pc = "apply"
      BY <2>6 DEF Applying, At
    <3>2. c.ok => running[n] # a.ver
      BY <2>3, <3>1 DEF NeededPlan, Pending
    <3>3. \A b \in CycleApps(s, c) : b.name = n => b = a
      <4> HIDE DEF c
      <4> QED BY <2>3, <3>1, CycleAppsType DEF SoundPlan
    <3>4. c.ok => x \notin Dapps(s)
      <4> HIDE DEF x, c
      <4> QED BY <2>3, <2>4, <3>2, <3>3
    <3> QED
      BY <2>2, <3>4
  <2> QED
    BY <2>1, <2>5, <2>6
<1> QED
  BY <1>1, TypeCorrect, PlanCorrect, PTL DEF Spec, NoNeedlessRestart

\* In native mode one of the two processes is always left, whatever the
\* cloud upgrades: a process that acts is alive and never touches its own
\* application, so whoever removes first survives.
THEOREM SomeEngineAliveCorrect ==
  ASSUME ~Graceful,
         \A s \in Svcs : ~Owns(s, HostApp[s]),
         \E s \in Svcs : Installed[HostApp[s]] # None
  PROVE  Spec => []SomeEngineAlive
<1> DEFINE Inv == term = {} /\ SomeEngineAlive
<1>1. Init => Inv
  BY DEF Init, SomeEngineAlive, Alive, Up
<1>2. TypeOK /\ PlanInv /\ Inv /\ [Next]_vars => Inv'
  <2> SUFFICES ASSUME TypeOK, PlanInv, Inv, [Next]_vars PROVE Inv'
    OBVIOUS
  <2>0. \A t \in Svcs : HostApp[t] \in Apps
    BY HostAssumption DEF Apps
  <2>1. term' = {}
    <3>1. \A s, c, n, v : Touch(s, c, n, v) => term' = term
      BY DEF Touch
    <3>2. ASSUME NEW s \in Svcs, EngineStep(s) PROVE term' = term
      <4>1. CASE Tick(s) \/ Collect(s) \/ Report(s) \/ CheckPorts(s) \/ ReportAppStats(s)
                 \/ StartApply(s) \/ JoinApply(s)
        BY <4>1 DEF Tick, Collect, Report, CheckPorts, ReportAppStats, StartApply, JoinApply
      <4>2. CASE DeleteApp(s)
        BY <3>1, <4>2 DEF DeleteApp
      <4>3. CASE GoRoutine(s)
        BY <3>1, <4>3 DEF GoRoutine, SyncResource, Remove, Install, RecordCause
      <4> QED
        BY <3>2, <4>1, <4>2, <4>3 DEF EngineStep
    <3>3. ASSUME NEW s \in Svcs, EngineFault(s) PROVE term' = term
      <4>1. CASE CollectFails(s) \/ CycleFails(s) \/ Crash(s) \/ ConcurrentMapWrites(s)
        BY <4>1 DEF CollectFails, CycleFails, Crash, ConcurrentMapWrites
      <4>2. CASE DeleteAppFails(s)
        BY <3>1, <4>2 DEF DeleteAppFails
      <4>3. CASE \E a \in AppInfo : RoutineFails(s, a)
        BY <3>1, <4>3 DEF RoutineFails
      <4> QED
        BY <3>3, <4>1, <4>2, <4>3 DEF EngineFault
    <3>4. ASSUME NEW s \in Svcs, SyncReport(s) \/ SyncNodeProps(s) \/ Exit(s) PROVE term' = {}
      BY <3>4 DEF SyncReport, SyncNodeProps, Exit
    <3>5. CASE CloudUpdate \/ UNCHANGED vars
      BY <3>5 DEF CloudUpdate, vars
    <3> QED
      BY <3>2, <3>3, <3>4, <3>5 DEF Next
  <2>2. CASE \A n \in Apps : running'[n] = running[n]
    BY <2>0, <2>1, <2>2 DEF SomeEngineAlive, Alive, Up
  <2>3. CASE \E n \in Apps : running'[n] # running[n]
    <3>1. PICK n \in Apps : running'[n] # running[n]
      BY <2>3
    <3>2. PICK s \in Svcs : /\ Deleting(s, n) \/ Applying(s, n)
                            /\ \A m \in Apps : m # n => running'[m] = running[m]
      BY <3>1, WhoTouches
    <3>3. Up(s) /\ HostApp[s] # n
      BY <3>2, OwnerTouches DEF Deleting, Applying, At, Alive
    <3> QED
      BY <2>0, <2>1, <3>2, <3>3 DEF SomeEngineAlive, Alive, Up
  <2> QED
    BY <2>1, <2>2, <2>3
<1> QED
  BY <1>1, <1>2, TypeCorrect, PlanCorrect, PTL DEF Spec

-----------------------------------------------------------------------------
(* Induction over the natural numbers in first-order form: the property is *)
(* a set, the step of a recurrence a function.                             *)

\* A set of numbers that holds 0 and with every number its successor holds
\* all of them.
LEMMA SetInduction ==
  ASSUME NEW T, 0 \in T, \A n \in Nat : n \in T => n + 1 \in T
  PROVE  Nat \subseteq T
<1> SUFFICES ASSUME Nat \ T # {} PROVE FALSE
  OBVIOUS
<1>1. PICK x \in Nat \ T : \A y \in Nat \ T : <<y, x>> \notin OpToRel(<, Nat)
  BY NatLessThanWellFounded, WFMin
<1>2. x # 0 /\ x - 1 \in Nat /\ x - 1 < x
  OBVIOUS
<1>3. x - 1 \in T
  BY <1>1, <1>2 DEF OpToRel
<1>4. (x - 1) + 1 \in T
  BY <1>2, <1>3
<1> QED
  BY <1>4

\* step is the step of a recurrence over W, and f its values from v0 on.
Stepwise(step, W) == \A k \in Nat, v \in W : step[k][v] \in W
Solves(f, v0, step, W, n) == /\ f \in [0..n -> W] /\ f[0] = v0
                             /\ \A k \in 1..n : f[k] = step[k][f[k - 1]]

\* A recurrence over a finite range of numbers has a solution.
LEMMA Recurrence ==
  ASSUME NEW W, NEW v0 \in W, NEW step, Stepwise(step, W), NEW n \in Nat
  PROVE  \E f : Solves(f, v0, step, W, n)
<1> USE DEF Stepwise, Solves
<1> DEFINE Sol(m, f) == Solves(f, v0, step, W, m)
           T == {m \in Nat : \E f : Sol(m, f)}
<1>1. 0 \in T
  <2>1. Sol(0, [k \in 0..0 |-> v0])
    OBVIOUS
  <2> QED
    BY <2>1
<1>2. ASSUME NEW m \in Nat, m \in T PROVE m + 1 \in T
  <2>1. PICK f : Sol(m, f)
    BY <1>2
  <2> DEFINE g == [k \in 0..(m + 1) |-> IF k = m + 1 THEN step[m + 1][f[m]] ELSE f[k]]
  <2>2. \A k \in 0..m : k \in 0..(m + 1) /\ k # m + 1 /\ g[k] = f[k] /\ f[k] \in W
    BY <2>1
  <2>3. m \in 0..m /\ m + 1 \in 0..(m + 1) /\ m + 1 \in Nat /\ 0 \in 0..m
    OBVIOUS
  <2>4. g[m + 1] = step[m + 1][f[m]] /\ step[m + 1][f[m]] \in W
    BY <2>2, <2>3
  <2>5. g \in [0..(m + 1) -> W]
    <3>1. \A k \in 0..(m + 1) : k \in 0..m \/ k = m + 1
      OBVIOUS
    <3>2. \A k \in 0..(m + 1) : g[k] \in W
      <4> HIDE DEF g
      <4> QED BY <2>2, <2>4, <3>1
    <3> QED
      BY <3>2
  <2>6. ASSUME NEW k \in 1..(m + 1) PROVE g[k] = step[k][g[k - 1]]
    <3>1. CASE k = m + 1
      <4>1. k - 1 = m
        BY <3>1
      <4> HIDE DEF g
      <4> QED
        BY <2>2, <2>3, <2>4, <3>1, <4>1
    <3>2. CASE k # m + 1
      <4>1. k \in 1..m /\ k \in 0..m /\ k - 1 \in 0..m
        BY <3>2
      <4> HIDE DEF g
      <4> QED
        BY <2>1, <2>2, <4>1
    <3> QED
      BY <3>1, <3>2
  <2>7. g[0] = v0
    BY <2>1, <2>2, <2>3
  <2>8. Sol(m + 1, g)
    <3> HIDE DEF g
    <3> QED BY <2>5, <2>6, <2>7
  <2> HIDE DEF g, Sol, Solves, Stepwise
  <2> QED
    BY <2>3, <2>8
<1>3. Nat \subseteq T
  <2> HIDE DEF T
  <2> QED BY <1>1, <1>2, SetInduction
<1> QED
  BY <1>3

-----------------------------------------------------------------------------
(* What checkMultiAppPort computes.                                        *)

\* A bounded set of numbers has a maximum.
LEMMA MaxType ==
  ASSUME NEW L \in Nat, NEW S \in SUBSET (1..L), S # {}
  PROVE  Max(S) \in S /\ \A x \in S : x <= Max(S)
<1> DEFINE U == {u \in Nat : \A x \in S : x <= u}
<1>1. L \in U
  OBVIOUS
<1>2. PICK u \in U : \A y \in U : <<y, u>> \notin OpToRel(<, Nat)
  BY <1>1, NatLessThanWellFounded, WFMin
<1>3. PICK s \in S : s <= u /\ s >= 1
  <2>1. PICK s \in S : TRUE
    OBVIOUS
  <2>2. s <= u
    OBVIOUS
  <2>3. s \in 1..L
    OBVIOUS
  <2>4. s >= 1
    BY <2>3
  <2> QED
    BY <2>2, <2>4
<1>4. u \in S
  <2> SUFFICES ASSUME u \notin S PROVE FALSE
    OBVIOUS
  <2>1. u - 1 \in Nat /\ u - 1 < u
    BY <1>3
  <2>2. \A x \in S : x <= u - 1
    OBVIOUS
  <2>3. u - 1 \in U
    BY <2>1, <2>2
  <2> QED
    BY <1>2, <2>1, <2>3 DEF OpToRel
<1>5. \A y \in S : u >= y
  OBVIOUS
<1>6. Max(S) \in S /\ \A y \in S : Max(S) >= y
  BY <1>4, <1>5 DEF Max
<1> QED
  BY <1>6

\* A bounded set of numbers has a minimum.
LEMMA MinType ==
  ASSUME NEW L \in Nat, NEW S \in SUBSET (1..L), S # {}
  PROVE  Min(S) \in S
<1>1. S \subseteq Nat
  OBVIOUS
<1>2. PICK u \in S : \A y \in S : <<y, u>> \notin OpToRel(<, Nat)
  BY <1>1, NatLessThanWellFounded, WFMin
<1>3. \A y \in S : u \in Nat /\ y \in Nat /\ ~(y < u)
  BY <1>1, <1>2 DEF OpToRel
<1>4. \A y \in S : u <= y
  BY <1>3
<1> QED
  BY <1>4 DEF Min

\* A concatenation holds the elements of its two parts.
LEMMA RangeConcat ==
  ASSUME NEW N, NEW s \in Seq(N), NEW t \in Seq(N)
  PROVE  Range(s \o t) = Range(s) \cup Range(t)
<1>1. Range(s \o t) \subseteq Range(s) \cup Range(t)
  <2> SUFFICES ASSUME NEW i \in DOMAIN (s \o t)
               PROVE  (s \o t)[i] \in Range(s) \cup Range(t)
    BY DEF Range
  <2>1. CASE i <= Len(s)
    BY <2>1 DEF Range
  <2>2. CASE i > Len(s)
    <3>1. i - Len(s) \in DOMAIN t /\ (s \o t)[i] = t[i - Len(s)]
      BY <2>2
    <3> QED
      BY <3>1 DEF Range
  <2> QED
    BY <2>1, <2>2
<1>2. ASSUME NEW i \in DOMAIN s PROVE s[i] \in Range(s \o t)
  <2>1. i \in DOMAIN (s \o t) /\ (s \o t)[i] = s[i]
    OBVIOUS
  <2> QED
    BY <2>1 DEF Range
<1>3. ASSUME NEW i \in DOMAIN t PROVE t[i] \in Range(s \o t)
  <2>1. i + Len(s) \in DOMAIN (s \o t) /\ (s \o t)[i + Len(s)] = t[i]
    OBVIOUS
  <2> QED
    BY <2>1 DEF Range
<1> QED
  BY <1>1, <1>2, <1>3 DEF Range

\* The names of the applications without replicas that use port p.
Users(infos, port, multi, p) ==
  {infos[i].name : i \in {j \in DOMAIN infos : infos[j] \notin multi
                                             /\ p \in Range(port[infos[j]])}}

\* A list of applications with names in N, at positions up to L, and what
\* host ports they have.
PortInput(infos, port, L, N, P) ==
  /\ L \in Nat /\ DOMAIN infos \subseteq 1..L
  /\ \A i \in DOMAIN infos : infos[i].name \in N /\ port[infos[i]] \in Seq(P)

\* The list of a port holds the applications without replicas that use it.
LEMMA ClaimantsType ==
  ASSUME NEW infos, NEW port, NEW L, NEW N, NEW P, PortInput(infos, port, L, N, P),
         NEW multi, NEW p
  PROVE  /\ claimants(infos, port, multi, p) \in Seq(N)
         /\ Range(claimants(infos, port, multi, p)) = Users(infos, port, multi, p)
<1>0. /\ L \in Nat /\ DOMAIN infos \subseteq 1..L
      /\ \A i \in DOMAIN infos : infos[i].name \in N /\ port[infos[i]] \in Seq(P)
  BY DEF PortInput
<1> DEFINE uses(k) == IF k \notin DOMAIN infos \/ infos[k] \in multi THEN <<>>
                 ELSE [q \in 1..Cardinality({i \in DOMAIN port[infos[k]] : port[infos[k]][i] = p})
                         |-> infos[k].name]
           last == IF DOMAIN infos = {} THEN 0 ELSE Max(DOMAIN infos)
           Rec(g) == g = [k \in 0..last |-> IF k = 0 THEN <<>> ELSE g[k - 1] \o uses(k)]
           cat == CHOOSE g : Rec(g)
           User(j) == /\ j \in DOMAIN infos /\ infos[j] \notin multi
                      /\ p \in Range(port[infos[j]])
<1>1. claimants(infos, port, multi, p) = cat[last]
  BY DEF claimants
<1>2. last \in Nat /\ \A k \in DOMAIN infos : k \in 1..last
  <2>1. CASE DOMAIN infos = {}
    BY <2>1
  <2>2. CASE DOMAIN infos # {}
    <3>1. last \in DOMAIN infos /\ \A k \in DOMAIN infos : k <= last
      BY <1>0, <2>2, MaxType
    <3> HIDE DEF last
    <3> QED BY <1>0, <3>1
  <2> QED
    BY <2>1, <2>2
<1>3. ASSUME NEW k \in Nat
      PROVE  /\ uses(k) \in Seq(N)
             /\ Range(uses(k)) = IF User(k) THEN {infos[k].name} ELSE {}
  <2>1. CASE k \notin DOMAIN infos \/ infos[k] \in multi
    <3>1. uses(k) = <<>> /\ ~User(k)
      BY <2>1
    <3>2. Range(<<>>) = {} /\ <<>> \in Seq(N)
      BY DEF Range
    <3> QED
      BY <3>1, <3>2
  <2>2. CASE ~(k \notin DOMAIN infos \/ infos[k] \in multi)
    <3> DEFINE X == {i \in DOMAIN port[infos[k]] : port[infos[k]][i] = p}
    <3>1. /\ port[infos[k]] \in Seq(P) /\ Len(port[infos[k]]) \in Nat
          /\ DOMAIN port[infos[k]] = 1..Len(port[infos[k]])
      BY <1>0, <2>2
    <3>2. IsFiniteSet(1..Len(port[infos[k]]))
      <4>1. PICK l \in Int : l = Len(port[infos[k]])
        BY <3>1
      <4> QED
        BY <4>1, FS_Interval
    <3>3. X \subseteq 1..Len(port[infos[k]])
      BY <3>1
    <3>4. IsFiniteSet(X) /\ Cardinality(X) \in Nat /\ (Cardinality(X) = 0 <=> X = {})
      BY <3>2, <3>3, FS_Subset, FS_CardinalityType, FS_EmptySet
    <3>5. User(k) <=> X # {}
      BY <2>2 DEF Range
    <3>6. uses(k) = [q \in 1..Cardinality(X) |-> infos[k].name]
      BY <2>2
    <3> HIDE DEF X, User, uses
    <3>7. infos[k].name \in N
      BY <1>0, <2>2
    <3>8. uses(k) \in Seq(N)
      BY <3>4, <3>6, <3>7
    <3>9. CASE X = {}
      <4>1. DOMAIN uses(k) = {}
        BY <3>4, <3>6, <3>9
      <4> QED
        BY <3>5, <3>8, <3>9, <4>1 DEF Range
    <3>10. CASE X # {}
      <4>1. 1 \in DOMAIN uses(k)
        BY <3>4, <3>6, <3>10
      <4>2. \A q \in DOMAIN uses(k) : uses(k)[q] = infos[k].name
        BY <3>6
      <4>3. Range(uses(k)) = {infos[k].name}
        BY <4>1, <4>2 DEF Range
      <4> QED
        BY <3>5, <3>8, <3>10, <4>3
    <3> QED
      BY <3>9, <3>10
  <2> QED
    BY <2>1, <2>2
<1> HIDE DEF uses, last
<1>4. Rec(cat)
  <2> DEFINE step == [k \in Nat |-> [v \in Seq(N) |-> v \o uses(k)]]
  <2>1. \A k \in Nat, v \in Seq(N) : step[k][v] = v \o uses(k) /\ step[k][v] \in Seq(N)
    BY <1>3
  <2>2. <<>> \in Seq(N)
    OBVIOUS
  <2>3. PICK f \in [0..last -> Seq(N)] :
           f[0] = <<>> /\ \A k \in 1..last : f[k] = step[k][f[k - 1]]
    <3> HIDE DEF step
    <3>1. PICK W : W = Seq(N)
      OBVIOUS
    <3>2. PICK n \in Nat : n = last
      BY <1>2
    <3>3. PICK v0 \in W : v0 = <<>>
      BY <2>2, <3>1
    <3>4. Stepwise(step, W)
      BY <2>1, <3>1 DEF Stepwise
    <3>5. \E f : Solves(f, v0, step, W, n)
      BY <3>4, Recurrence
    <3> QED BY <3>1, <3>2, <3>3, <3>5 DEF Solves
  <2>4. \A k \in 1..last : k \in Nat /\ k # 0 /\ f[k - 1] \in Seq(N)
    BY <1>2
  <2>5. \A k \in 1..last : f[k] = f[k - 1] \o uses(k)
    BY <2>1, <2>3, <2>4
  <2>6. \A k \in 0..last : k = 0 \/ k \in 1..last
    BY <1>2
  <2>7. Rec(f)
    BY <2>3, <2>5, <2>6
  <2> HIDE DEF Rec
  <2> QED
    BY <2>7
<1>5. cat[0] = <<>> /\ \A k \in 1..last : cat[k] = cat[k - 1] \o uses(k)
  <2> HIDE DEF cat
  <2>1. 0 \in 0..last /\ \A k \in 1..last : k \in 0..last /\ k # 0
    BY <1>2
  <2>2. \A k \in 0..last : cat[k] = IF k = 0 THEN <<>> ELSE cat[k - 1] \o uses(k)
    BY <1>4
  <2> QED BY <2>1, <2>2
<1> HIDE DEF cat, Rec
<1> DEFINE Upto(k) == {infos[i].name : i \in {j \in 1..k : User(j)}}
           T == {k \in Nat : k <= last => cat[k] \in Seq(N) /\ Range(cat[k]) = Upto(k)}
<1>6. 0 \in T
  <2>1. Range(<<>>) = {} /\ <<>> \in Seq(N)
    BY DEF Range
  <2>2. Upto(0) = {}
    OBVIOUS
  <2> HIDE DEF Upto
  <2> QED BY <1>5, <2>1, <2>2
<1>7. ASSUME NEW k \in Nat, k \in T PROVE k + 1 \in T
  <2> SUFFICES ASSUME k + 1 <= last
               PROVE  cat[k + 1] \in Seq(N) /\ Range(cat[k + 1]) = Upto(k + 1)
    OBVIOUS
  <2>1. cat[k] \in Seq(N) /\ Range(cat[k]) = Upto(k)
    BY <1>2, <1>7
  <2>2. cat[k + 1] = cat[k] \o uses(k + 1)
    <3>1. k + 1 \in 1..last /\ (k + 1) - 1 = k
      BY <1>2
    <3> HIDE DEF T
    <3> QED BY <1>5, <3>1
  <2>3. uses(k + 1) \in Seq(N) /\ Range(uses(k + 1)) = IF User(k + 1) THEN {infos[k + 1].name} ELSE {}
    <3>1. k + 1 \in Nat
      OBVIOUS
    <3> HIDE DEF User
    <3> QED BY <1>3, <3>1
  <2> HIDE DEF User
  <2>4. Range(cat[k + 1]) = Range(cat[k]) \cup Range(uses(k + 1))
    BY <2>1, <2>2, <2>3, RangeConcat
  <2>5. 1..(k + 1) = (1..k) \cup {k + 1}
    OBVIOUS
  <2>6. Upto(k + 1) = Upto(k) \cup IF User(k + 1) THEN {infos[k + 1].name} ELSE {}
    BY <2>5
  <2>7. cat[k] \o uses(k + 1) \in Seq(N)
    BY <2>1, <2>3
  <2> HIDE DEF Upto
  <2> QED
    BY <2>1, <2>2, <2>3, <2>4, <2>6, <2>7
<1>8. cat[last] \in Seq(N) /\ Range(cat[last]) = Upto(last)
  <2>1. Nat \subseteq T
    <3> HIDE DEF T
    <3> QED BY <1>6, <1>7, SetInduction
  <2>2. last \in T
    <3> HIDE DEF T
    <3> QED BY <1>2, <2>1
  <2>3. last <= last
    BY <1>2
  <2> HIDE DEF Upto
  <2> QED
    BY <2>2, <2>3
<1>9. Upto(last) = Users(infos, port, multi, p)
  BY <1>2 DEF Users
<1> QED
  BY <1>1, <1>8, <1>9

\* The two maps the loop over the ports writes.
Maps(N) == [own : SUBSET N, del : SUBSET N]

\* A round leaves at most one of the users of a port, and drops one only in
\* favour of another.
LEMMA RoundType ==
  ASSUME NEW N, NEW a \in Seq(N), NEW st \in Maps(N)
  PROVE  /\ portRound(a, st) \in Maps(N)
         /\ st.del \subseteq portRound(a, st).del
         /\ \A m, n \in Range(a) : m # n => m \in portRound(a, st).del \/ n \in portRound(a, st).del
         /\ \A n \in portRound(a, st).del :
              n \in st.del \/ (n \in Range(a) /\ \E m \in Range(a) : m # n)
<1>1. Range(a) \subseteq N /\ Len(a) \in Nat /\ DOMAIN a = 1..Len(a)
  BY DEF Range
<1>2. st.own \subseteq N /\ st.del \subseteq N
  BY DEF Maps
<1>3. CASE Len(a) <= 1
  <2>1. \A i, j \in DOMAIN a : i = j
    BY <1>1, <1>3
  <2>2. \A m, n \in Range(a) : m = n
    BY <2>1 DEF Range
  <2>3. portRound(a, st) = st
    BY <1>3 DEF portRound
  <2> QED
    BY <2>2, <2>3
<1>4. CASE ~(Len(a) <= 1)
  <2> DEFINE existing == {i \in DOMAIN a : a[i] \in st.own}
             first == a[IF existing = {} THEN 1 ELSE Min(existing)]
             losers == Range(a) \ {first}
             r == [own |-> st.own \cup losers, del |-> st.del \cup losers]
  <2>1. portRound(a, st) = r
    BY <1>4 DEF portRound
  <2>2. first \in Range(a)
    <3>1. CASE existing = {}
      BY <1>1, <1>4, <3>1 DEF Range
    <3>2. CASE existing # {}
      <4>1. existing \subseteq 1..Len(a)
        BY <1>1
      <4>2. Min(existing) \in existing
        <5> HIDE DEF existing
        <5> QED BY <1>1, <3>2, <4>1, MinType
      <4> QED
        BY <3>2, <4>2 DEF Range
    <3> QED
      BY <3>1, <3>2
  <2> HIDE DEF first
  <2>3. r.del = st.del \cup losers /\ r \in Maps(N)
    BY <1>1, <1>2 DEF Maps
  <2> HIDE DEF r
  <2> QED
    BY <2>1, <2>2, <2>3
<1> QED
  BY <1>3, <1>4

\* What the whole call drops, whatever the order of the ports: the
\* applications with replicas and host ports, and of the users of every port
\* that was visited all but one, each in favour of another user.
LEMMA CheckType ==
  ASSUME NEW infos, NEW port, NEW L, NEW N, NEW P, PortInput(infos, port, L, N, P),
         NEW multi, NEW own \in SUBSET N, NEW Q, NEW order \in Seq(Q),
         NEW del, del = checkMultiAppPort(infos, port, multi, own, order).del
  PROVE  /\ replicaLosers(infos, port, multi) \subseteq del
         /\ \A p \in Range(order) : \A m, n \in Users(infos, port, multi, p) :
              m # n => m \in del \/ n \in del
         /\ \A n \in del :
              \/ n \in replicaLosers(infos, port, multi)
              \/ \E p \in Range(order) : /\ n \in Users(infos, port, multi, p)
                                         /\ \E m \in Users(infos, port, multi, p) : m # n
<1> DEFINE Rec(g) == g = [k \in 0..Len(order) |->
                            IF k = 0 THEN checkStart(infos, port, multi, own)
                            ELSE portRound(claimants(infos, port, multi, order[k]), g[k - 1])]
           after == CHOOSE g : Rec(g)
           U(k) == Users(infos, port, multi, order[k])
           start == checkStart(infos, port, multi, own)
           lose == replicaLosers(infos, port, multi)
           round(k, v) == portRound(claimants(infos, port, multi, order[k]), v)
<1>1. checkMultiAppPort(infos, port, multi, own, order) = after[Len(order)]
  BY DEF checkMultiAppPort
<1>2. PICK last \in Nat : last = Len(order) /\ DOMAIN order = 1..last
  OBVIOUS
<1>3. ASSUME NEW k \in Nat, NEW v \in Maps(N)
      PROVE  /\ round(k, v) \in Maps(N) /\ v.del \subseteq round(k, v).del
             /\ \A m, n \in U(k) : m # n => m \in round(k, v).del \/ n \in round(k, v).del
             /\ \A n \in round(k, v).del : n \in v.del \/ (n \in U(k) /\ \E m \in U(k) : m # n)
  <2>1. PICK a : a = claimants(infos, port, multi, order[k])
    OBVIOUS
  <2>2. a \in Seq(N) /\ Range(a) = U(k)
    BY <2>1, ClaimantsType
  <2> HIDE DEF U
  <2> QED
    BY <2>1, <2>2, RoundType
<1>4. start \in Maps(N) /\ start.del = lose
  <2>1. lose \subseteq N
    BY DEF replicaLosers, PortInput
  <2> QED
    BY <2>1 DEF checkStart, Maps
<1> HIDE DEF start, lose, U, round
<1>5. Rec(after)
  <2> DEFINE step == [k \in Nat |-> [v \in Maps(N) |-> round(k, v)]]
  <2>1. PICK W : W = Maps(N)
    OBVIOUS
  <2>2. \A k \in Nat, v \in W : step[k][v] = round(k, v) /\ step[k][v] \in W
    BY <1>3, <2>1
  <2> HIDE DEF step
  <2>3. Stepwise(step, W)
    BY <2>2 DEF Stepwise
  <2>4. PICK v0 \in W : v0 = start
    BY <1>4, <2>1
  <2>5. PICK f : Solves(f, v0, step, W, last)
    BY <2>3, Recurrence
  <2>6. /\ f \in [0..last -> W] /\ f[0] = start
        /\ \A k \in 1..last : f[k] = step[k][f[k - 1]]
    BY <2>4, <2>5 DEF Solves
  <2>7. \A k \in 1..last : k \in Nat /\ k # 0 /\ f[k - 1] \in W
    BY <2>6
  <2>8. \A k \in 1..last : f[k] = round(k, f[k - 1])
    BY <2>2, <2>6, <2>7
  <2>9. \A k \in 0..last : k = 0 \/ k \in 1..last
    OBVIOUS
  <2>10. f = [k \in 0..last |-> IF k = 0 THEN start ELSE round(k, f[k - 1])]
    BY <2>6, <2>7, <2>8, <2>9
  <2>11. Rec(f)
    BY <1>2, <2>10 DEF start, round
  <2> HIDE DEF Rec
  <2> QED
    BY <2>11
<1>6. after[0] = start /\ \A k \in 1..last : after[k] = round(k, after[k - 1])
  <2> HIDE DEF after
  <2>1. 0 \in 0..last /\ \A k \in 1..last : k \in 0..last /\ k # 0
    OBVIOUS
  <2>2. \A k \in 0..last : after[k] = IF k = 0 THEN start ELSE round(k, after[k - 1])
    BY <1>2, <1>5 DEF start, round
  <2> QED
    BY <2>1, <2>2
<1> HIDE DEF after, Rec
<1> DEFINE Good(k) ==
             /\ after[k] \in Maps(N) /\ lose \subseteq after[k].del
             /\ \A i \in 1..k : \A m, n \in U(i) : m # n => m \in after[k].del \/ n \in after[k].del
             /\ \A n \in after[k].del :
                  n \in lose \/ \E i \in 1..k : n \in U(i) /\ \E m \in U(i) : m # n
           T == {k \in Nat : k <= last => Good(k)}
<1>7. 0 \in T
  BY <1>4, <1>6
<1>8. ASSUME NEW k \in Nat, k \in T PROVE k + 1 \in T
  <2> SUFFICES ASSUME k + 1 <= last PROVE Good(k + 1)
    OBVIOUS
  <2>1. Good(k)
    BY <1>8
  <2>2. k + 1 \in 1..last /\ (k + 1) - 1 = k /\ k + 1 \in Nat
    OBVIOUS
  <2> HIDE DEF T, Good
  <2>3. after[k + 1] = round(k + 1, after[k])
    BY <1>6, <2>2
  <2>4. PICK v \in Maps(N) : v = after[k]
    BY <2>1 DEF Good
  <2>5. PICK w : w = after[k + 1]
    OBVIOUS
  <2>6. /\ w \in Maps(N) /\ v.del \subseteq w.del
        /\ \A m, n \in U(k + 1) : m # n => m \in w.del \/ n \in w.del
        /\ \A n \in w.del : n \in v.del \/ (n \in U(k + 1) /\ \E m \in U(k + 1) : m # n)
    BY <1>3, <2>2, <2>3, <2>4, <2>5
  <2>7. /\ \A i \in 1..(k + 1) : i \in 1..k \/ i = k + 1
        /\ k + 1 \in 1..(k + 1) /\ \A i \in 1..k : i \in 1..(k + 1)
    OBVIOUS
  <2>8. /\ lose \subseteq v.del
        /\ \A i \in 1..k : \A m, n \in U(i) : m # n => m \in v.del \/ n \in v.del
        /\ \A n \in v.del : n \in lose \/ \E i \in 1..k : n \in U(i) /\ \E m \in U(i) : m # n
    BY <2>1, <2>4 DEF Good
  <2>9. \A i \in 1..(k + 1) : \A m, n \in U(i) : m # n => m \in w.del \/ n \in w.del
    BY <2>6, <2>7, <2>8
  <2>10. \A n \in w.del : n \in lose \/ \E i \in 1..(k + 1) : n \in U(i) /\ \E m \in U(i) : m # n
    BY <2>6, <2>7, <2>8
  <2> QED
    BY <2>5, <2>6, <2>8, <2>9, <2>10 DEF Good
<1>9. Good(last)
  <2>1. Nat \subseteq T
    <3> HIDE DEF T
    <3> QED BY <1>7, <1>8, SetInduction
  <2>2. last \in T
    <3> HIDE DEF T
    <3> QED BY <2>1
  <2> HIDE DEF Good
  <2> QED
    BY <2>2
<1>10. Range(order) = {order[k] : k \in 1..last}
  BY <1>2 DEF Range
<1>11. del = after[last].del
  BY <1>1, <1>2
<1> QED
  BY <1>9, <1>10, <1>11 DEF U, lose

\* The ports are finitely many.
LEMMA PortsFinite ==
  ASSUME NEW infos, NEW port, NEW L, NEW N, NEW P, PortInput(infos, port, L, N, P), NEW multi
  PROVE  IsFiniteSet(portsOf(infos, port, multi))
<1> DEFINE D == {j \in DOMAIN infos : infos[j] \notin multi}
           Img == {Range(port[infos[i]]) : i \in D}
<1>1. L \in Nat /\ DOMAIN infos \subseteq 1..L
  BY DEF PortInput
<1>2. IsFiniteSet(D)
  <2>1. IsFiniteSet(1..L)
    BY <1>1, FS_Interval
  <2> QED
    BY <1>1, <2>1, FS_Subset
<1>3. IsFiniteSet(Img)
  <2> DEFINE f == [i \in D |-> Range(port[infos[i]])]
  <2>1. f \in Surjection(D, Img)
    BY DEF Surjection
  <2> HIDE DEF D, Img, f
  <2> QED
    BY <1>2, <2>1, FS_Surjection
<1>4. ASSUME NEW X \in Img PROVE IsFiniteSet(X)
  <2>1. PICK s \in Seq(P) : X = Range(s)
    BY DEF PortInput
  <2>2. Len(s) \in Nat /\ DOMAIN s = 1..Len(s)
    OBVIOUS
  <2>3. IsFiniteSet(DOMAIN s)
    BY <2>2, FS_Interval
  <2>4. s \in Surjection(DOMAIN s, Range(s))
    BY DEF Surjection, Range
  <2> QED
    BY <2>1, <2>3, <2>4, FS_Surjection
<1>5. portsOf(infos, port, multi) = UNION Img
  BY DEF portsOf
<1> HIDE DEF Img
<1> QED
  BY <1>3, <1>4, <1>5, FS_UNION

\* The same for an order in which Go may range over the map of ports.
LEMMA CheckOrders ==
  ASSUME NEW infos, NEW port, NEW L, NEW N, NEW P, PortInput(infos, port, L, N, P),
         NEW multi, NEW own \in SUBSET N,
         NEW order \in Orders(portsOf(infos, port, multi)),
         NEW del, del = checkMultiAppPort(infos, port, multi, own, order).del
  PROVE  /\ replicaLosers(infos, port, multi) \subseteq del
         /\ \A p : \A m, n \in Users(infos, port, multi, p) : m # n => m \in del \/ n \in del
         /\ \A n \in del :
              \/ n \in replicaLosers(infos, port, multi)
              \/ \E p : /\ n \in Users(infos, port, multi, p)
                        /\ \E m \in Users(infos, port, multi, p) : m # n
<1> DEFINE Q == portsOf(infos, port, multi)
<1>1. IsFiniteSet(Q)
  BY PortsFinite
<1>2. \A p : Users(infos, port, multi, p) # {} => p \in Q
  BY DEF Users, portsOf
<1> HIDE DEF Q
<1>3. order \in Seq(Q) /\ Range(order) = Q
  BY <1>1, OrdersType DEF Q
<1>4. /\ replicaLosers(infos, port, multi) \subseteq del
      /\ \A p \in Range(order) : \A m, n \in Users(infos, port, multi, p) :
           m # n => m \in del \/ n \in del
      /\ \A n \in del :
           \/ n \in replicaLosers(infos, port, multi)
           \/ \E p \in Range(order) : /\ n \in Users(infos, port, multi, p)
                                      /\ \E m \in Users(infos, port, multi, p) : m # n
  BY <1>3, CheckType
<1> QED
  BY <1>2, <1>3, <1>4

-----------------------------------------------------------------------------
(* The ports of the applications one cycle starts.                         *)

\* No two of the applications still to be started claim the same port.
Apart(c) ==
  c.pc \in {"stats1", "delete", "apply"} =>
    \A a, b \in c.update : a.name # b.name => Range(HostPort[a]) \cap Range(HostPort[b]) = {}
AllApart == \A s \in Svcs : Apart(cyc[s])

\* A cycle goes on with the locals d after c without starting more.
Follows(c, d) == \/ d.pc \notin {"stats1", "delete", "apply"}
                 \/ c.pc \in {"stats1", "delete", "apply"} /\ d.update = c.update

\* What checkMultiAppPort leaves to be started claims no port twice.
LEMMA CheckPortsApart ==
  ASSUME TypeOK, PlanInv, NEW s \in Svcs, CheckPorts(s)
  PROVE  Apart(cyc'[s])
<1> DEFINE c == cyc[s]
           dapps == Filter(s, c.dlist)
<1>1. /\ c \in Cycle /\ c.dlist \in Seq(AppInfo) /\ c.update \subseteq Range(dapps)
  BY DEF TypeOK, Cycle, PlanInv, CycleOK, SoundPlan, CycleApps
<1>2. /\ DOMAIN dapps \subseteq DOMAIN c.dlist
      /\ \A i \in DOMAIN dapps : dapps[i] = c.dlist[i]
  BY <1>1, FilterType
<1>3. PICK order \in Orders(portsOf(dapps, HostPort, MultiReplica)) :
        Goto(s, [c EXCEPT !.pc = "stats1",
                   !.bad = Names(dapps) \cap
                           checkMultiAppPort(dapps, HostPort, MultiReplica, {}, order).del,
                   !.update = {a \in c.update : a.name \notin
                           checkMultiAppPort(dapps, HostPort, MultiReplica, {}, order).del}])
  BY DEF CheckPorts
<1>4. PICK lose : lose = checkMultiAppPort(dapps, HostPort, MultiReplica, {}, order).del
  OBVIOUS
<1>5. cyc'[s].update = {a \in c.update : a.name \notin lose}
  BY <1>1, <1>3, <1>4 DEF Goto, TypeOK, Cycle
<1>6. PICK L : L = Len(c.dlist)
  OBVIOUS
<1>7. PICK N : N = Apps
  OBVIOUS
<1>8. PortInput(dapps, HostPort, L, N, Nat)
  <2>1. L \in Nat /\ DOMAIN c.dlist = 1..L
    BY <1>1, <1>6
  <2>2. \A i \in DOMAIN dapps : dapps[i] \in AppInfo
    BY <1>1, <1>2
  <2>3. \A a \in AppInfo : a.name \in N /\ HostPort[a] \in Seq(Nat)
    BY <1>7, PortAssumption DEF AppInfo
  <2> HIDE DEF dapps, c
  <2> QED
    BY <1>2, <2>1, <2>2, <2>3 DEF PortInput
<1> HIDE DEF dapps, c
<1>9. PICK own \in SUBSET N : own = {}
  OBVIOUS
<1>10. /\ replicaLosers(dapps, HostPort, MultiReplica) \subseteq lose
       /\ \A p : \A m, n \in Users(dapps, HostPort, MultiReplica, p) :
            m # n => m \in lose \/ n \in lose
  <2>1. lose = checkMultiAppPort(dapps, HostPort, MultiReplica, own, order).del
    BY <1>4, <1>9
  <2> QED
    BY <1>8, <2>1, CheckOrders
<1>11. ASSUME NEW a \in c.update, a.name \notin lose, NEW p \in Range(HostPort[a])
       PROVE  a.name \in Users(dapps, HostPort, MultiReplica, p)
  <2>1. PICK i \in DOMAIN dapps : dapps[i] = a
    BY <1>1, <1>11 DEF Range
  <2>2. HostPort[a] # <<>>
    BY <1>11 DEF Range
  <2>3. a \notin MultiReplica
    BY <1>10, <1>11, <2>1, <2>2 DEF replicaLosers
  <2> QED
    BY <1>11, <2>1, <2>3 DEF Users
<1>12. ASSUME NEW a \in cyc'[s].update, NEW b \in cyc'[s].update, a.name # b.name
       PROVE  Range(HostPort[a]) \cap Range(HostPort[b]) = {}
  BY <1>5, <1>10, <1>11, <1>12
<1> QED
  BY <1>12 DEF Apart

\* A process that goes on with fewer or the same applications to start, or
\* with none, starts none that collide.
LEMMA GotoApart ==
  ASSUME TypeOK, AllApart, NEW s \in Svcs, NEW d, Goto(s, d), Follows(cyc[s], d)
  PROVE  AllApart'
  BY DEF TypeOK, AllApart, Goto, Apart, Follows

\* So does a change the AMI makes, which may kill other processes.
LEMMA TouchApart ==
  ASSUME TypeOK, AllApart, NEW s \in Svcs, NEW d, NEW n, NEW v, Touch(s, d, n, v),
         Follows(cyc[s], d)
  PROVE  AllApart'
<1>1. \A t \in Svcs : cyc'[t] = IdleCycle \/ cyc'[t] = cyc[t] \/ (t = s /\ cyc'[t] = d)
  BY DEF Touch
<1>2. IdleCycle.pc = "idle"
  BY DEF IdleCycle
<1> QED
  BY <1>1, <1>2 DEF AllApart, Apart, Follows

\* No step makes a cycle start two applications that claim the same port.
LEMMA ApartStep ==
  ASSUME TypeOK, PlanInv, AllApart, [Next]_vars
  PROVE  AllApart'
<1>0. \A s \in Svcs : cyc[s] \in Cycle
  BY DEF TypeOK
<1>1. CASE UNCHANGED cyc
  BY <1>1 DEF AllApart
<1>2. ASSUME NEW s \in Svcs, CheckPorts(s) PROVE AllApart'
  <2>1. Apart(cyc'[s])
    BY <1>2, CheckPortsApart
  <2>2. \A t \in Svcs : t # s => cyc'[t] = cyc[t]
    BY <1>2 DEF CheckPorts, Goto, TypeOK
  <2> QED
    BY <2>1, <2>2 DEF AllApart
<1>3. \A c : IdleCycle.pc = "idle" /\ NextKind(c).pc \in {"idle", "collect"}
  BY DEF IdleCycle, NextKind
<1>4. ASSUME NEW s \in Svcs,
             \/ Tick(s) \/ Collect(s) \/ CollectFails(s) \/ Report(s) \/ ReportAppStats(s)
             \/ StartApply(s) \/ JoinApply(s) \/ CycleFails(s) \/ Crash(s)
             \/ ConcurrentMapWrites(s) \/ Exit(s)
      PROVE  \E d : Goto(s, d) /\ Follows(cyc[s], d)
  <2>1. CASE Tick(s)
    <3> DEFINE d == [IdleCycle EXCEPT !.pc = "collect", !.snap = desire[s]]
    <3>1. d.pc = "collect"
      BY DEF IdleCycle
    <3>2. Goto(s, d)
      BY <2>1 DEF Tick
    <3> HIDE DEF d
    <3> QED
      BY <3>1, <3>2 DEF Follows
  <2>2. CASE Collect(s) \/ CollectFails(s)
    <3>1. PICK r, b : Goto(s, [cyc[s] EXCEPT !.pc = "report", !.rlist = r, !.ok = b])
      BY <2>2 DEF Collect, CollectFails, CollectAs
    <3>2. [cyc[s] EXCEPT !.pc = "report", !.rlist = r, !.ok = b].pc = "report"
      BY <1>0 DEF Cycle
    <3> QED
      BY <3>1, <3>2 DEF Follows
  <2>3. CASE Report(s)
    <3>1. PICK x, y, z : Goto(s, NextKind(cyc[s])) \/
             Goto(s, [cyc[s] EXCEPT !.pc = "syncapps", !.dlist = x, !.del = y, !.update = z])
      BY <2>3 DEF Report
    <3>2. [cyc[s] EXCEPT !.pc = "syncapps", !.dlist = x, !.del = y, !.update = z].pc = "syncapps"
      BY <1>0 DEF Cycle
    <3> QED
      BY <1>3, <3>1, <3>2 DEF Follows
  <2>4. CASE ReportAppStats(s)
    <3> DEFINE d == [cyc[s] EXCEPT !.pc = "delete"]
    <3>1. Goto(s, NextKind(cyc[s])) \/ (cyc[s].pc = "stats1" /\ Goto(s, d))
      BY <2>4 DEF ReportAppStats, At
    <3>2. d.update = cyc[s].update
      BY <1>0 DEF Cycle
    <3> HIDE DEF d
    <3> QED
      BY <1>3, <3>1, <3>2 DEF Follows
  <2>5. CASE StartApply(s)
    <3>1. PICK g : cyc[s].pc = "delete" /\ Goto(s, [cyc[s] EXCEPT !.pc = "apply", !.gor = g])
      BY <2>5 DEF StartApply, At
    <3>2. [cyc[s] EXCEPT !.pc = "apply", !.gor = g].update = cyc[s].update
      BY <1>0 DEF Cycle
    <3> QED
      BY <3>1, <3>2 DEF Follows
  <2>6. CASE JoinApply(s)
    <3>1. [cyc[s] EXCEPT !.pc = "stats2", !.gor = NoRoutines].pc = "stats2"
      BY <1>0 DEF Cycle
    <3> QED
      BY <2>6, <3>1 DEF JoinApply, Follows
  <2>7. CASE CycleFails(s) \/ Crash(s) \/ ConcurrentMapWrites(s) \/ Exit(s)
    BY <1>3, <2>7 DEF CycleFails, Crash, ConcurrentMapWrites, Exit, Follows
  <2> QED
    BY <1>4, <2>1, <2>2, <2>3, <2>4, <2>5, <2>6, <2>7
<1>5. ASSUME NEW s \in Svcs, NEW a,
             SyncResource(s, a) \/ Remove(s, a) \/ Install(s, a) \/ RoutineFails(s, a)
      PROVE  AllApart'
  <2>1. PICK l : Goto(s, Step(s, a, l)) \/ \E v : Touch(s, Step(s, a, l), a.name, v)
    BY <1>5 DEF SyncResource, Remove, Install, RoutineFails
  <2>2. cyc[s].pc = "apply"
    BY <1>5 DEF SyncResource, Remove, Install, RoutineFails, Routine, At
  <2>3. Step(s, a, l).update = cyc[s].update
    BY <1>0 DEF Cycle, Step
  <2>4. Follows(cyc[s], Step(s, a, l))
    BY <2>2, <2>3 DEF Follows
  <2> QED
    BY <2>1, <2>4, GotoApart, TouchApart
<1>6. ASSUME NEW s \in Svcs, NEW a, RecordCause(s, a) PROVE AllApart'
  <2> DEFINE d == [Step(s, a, "done") EXCEPT !.bad = @ \cup {a.name}]
  <2>1. Goto(s, d) /\ cyc[s].pc = "apply"
    BY <1>6 DEF RecordCause, Routine, At
  <2>2. d.update = cyc[s].update
    BY <1>0 DEF Cycle, Step
  <2> HIDE DEF d
  <2> QED
    BY <2>1, <2>2, GotoApart DEF Follows
<1>7. ASSUME NEW s \in Svcs, DeleteApp(s) \/ DeleteAppFails(s) PROVE AllApart'
  <2>1. PICK a, v : \/ cyc[s].pc = "delete" /\ Touch(s, [cyc[s] EXCEPT !.del = @ \ {a}], a.name, v)
                    \/ Touch(s, IdleCycle, a.name, v)
    BY <1>7 DEF DeleteApp, DeleteAppFails, At
  <2>2. [cyc[s] EXCEPT !.del = @ \ {a}].update = cyc[s].update
    BY <1>0 DEF Cycle
  <2>3. Follows(cyc[s], IdleCycle)
    BY <1>3 DEF Follows
  <2>4. cyc[s].pc = "delete" => Follows(cyc[s], [cyc[s] EXCEPT !.del = @ \ {a}])
    BY <2>2 DEF Follows
  <2> QED
    BY <2>1, <2>3, <2>4, TouchApart
<1>8. ASSUME NEW s \in Svcs, NEW d, Goto(s, d), Follows(cyc[s], d) PROVE AllApart'
  BY <1>8, GotoApart
<1> QED
  BY <1>1, <1>2, <1>4, <1>5, <1>6, <1>7, <1>8
     DEF Next, vars, CloudUpdate, SyncReport, SyncNodeProps, EngineStep, EngineFault, GoRoutine

\* The applications started by one cycle never claim the same host port, in
\* every instance and whatever the order in which Go ranges over the ports.
THEOREM BatchPortsDisjointCorrect == Spec => []BatchPortsDisjoint
<1>1. Init => AllApart
  BY DEF Init, AllApart, Apart, IdleCycle
<1>2. TypeOK /\ PlanInv /\ AllApart /\ [Next]_vars => AllApart'
  BY ApartStep
<1>3. AllApart => BatchPortsDisjoint
  BY DEF AllApart, Apart, BatchPortsDisjoint
<1> QED
  BY <1>1, <1>2, <1>3, TypeCorrect, PlanCorrect, PTL DEF Spec

-----------------------------------------------------------------------------
(* The port check over all its inputs.                                     *)

\* Every order of the claimants is an input of the port check.
LEMMA ClaimantInput ==
  ASSUME NEW infos \in Orders(Claimants), NEW port \in [Claimants -> PortLists]
  PROVE  /\ PortInput(infos, port, Len(infos), AppNames, PortRange)
         /\ Range(infos) = Claimants
<1>1. IsFiniteSet(Claimants)
  <2> DEFINE f == [n \in AppNames |-> Claimant(n)]
  <2>1. f \in Surjection(AppNames, Claimants)
    BY DEF Surjection, Claimants
  <2> HIDE DEF f
  <2> QED
    BY <2>1, AppNamesAssumption, FS_Surjection
<1>2. infos \in Seq(Claimants) /\ Range(infos) = Claimants
  BY <1>1, OrdersType
<1>3. Len(infos) \in Nat /\ DOMAIN infos = 1..Len(infos)
      /\ \A i \in DOMAIN infos : infos[i] \in Claimants
  BY <1>2
<1>4. \A a \in Claimants : a.name \in AppNames
  BY DEF Claimants, Claimant
<1>5. \A l \in PortLists : l \in Seq(PortRange)
  <2> SUFFICES ASSUME NEW k \in 0..MaxPorts, NEW l \in [1..k -> PortRange]
               PROVE  l \in Seq(PortRange)
    BY DEF PortLists
  <2>1. k \in Nat
    BY MaxPortsAssumption
  <2> QED
    BY <2>1
<1>6. \A a \in Claimants : port[a] \in Seq(PortRange)
  BY <1>5
<1> QED
  BY <1>2, <1>3, <1>4, <1>6 DEF PortInput

\* Who uses a port, in terms of what the applications claim.
LEMMA UsersClaim ==
  ASSUME NEW infos, Range(infos) = Claimants, NEW port, NEW multi, NEW p, NEW n
  PROVE  n \in Users(infos, port, multi, p) <=> n \in AppNames /\ p \in Claims(n, port, multi)
<1>1. \A m : Claimant(m).name = m
  BY DEF Claimant
<1>2. ASSUME n \in Users(infos, port, multi, p)
      PROVE  n \in AppNames /\ p \in Claims(n, port, multi)
  <2>1. PICK i \in DOMAIN infos : /\ infos[i].name = n /\ infos[i] \notin multi
                                  /\ p \in Range(port[infos[i]])
    BY <1>2 DEF Users
  <2>2. PICK m \in AppNames : infos[i] = Claimant(m)
    BY DEF Claimants, Range
  <2>3. m = n
    BY <1>1, <2>1, <2>2
  <2> QED
    BY <2>1, <2>2, <2>3 DEF Claims
<1>3. ASSUME n \in AppNames, p \in Claims(n, port, multi)
      PROVE  n \in Users(infos, port, multi, p)
  <2>1. Claimant(n) \notin multi /\ p \in Range(port[Claimant(n)])
    BY <1>3 DEF Claims
  <2>2. PICK i \in DOMAIN infos : infos[i] = Claimant(n)
    BY <1>3 DEF Claimants, Range
  <2> QED
    BY <1>1, <2>1, <2>2 DEF Users
<1> QED
  BY <1>2, <1>3

\* At most one application is left for every host port, and whoever is
\* dropped has a rival or replicas: for every number of applications and of
\* ports, every order of the list and every order of the map of ports.
THEOREM PortCheckCorrect == Exclusive /\ OnlyRivalsLose
<1> SUFFICES ASSUME NEW infos \in Orders(Claimants), NEW port \in [Claimants -> PortLists],
                    NEW multi \in SUBSET Claimants, NEW del \in Dropped(infos, port, multi)
             PROVE  /\ \A m, n \in AppNames \ del :
                         m # n => Claims(m, port, multi) \cap Claims(n, port, multi) = {}
                    /\ \A n \in del :
                         \/ \E m \in AppNames \ {n} :
                              Claims(m, port, multi) \cap Claims(n, port, multi) # {}
                         \/ Claimant(n) \in multi /\ port[Claimant(n)] # <<>>
  BY DEF Exclusive, OnlyRivalsLose
<1>1. /\ PortInput(infos, port, Len(infos), AppNames, PortRange)
      /\ Range(infos) = Claimants
  BY ClaimantInput
<1>2. PICK order \in Orders(portsOf(infos, port, multi)) :
        del = checkMultiAppPort(infos, port, multi, statsOwn, order).del
  BY DEF Dropped
<1>3. statsOwn \in SUBSET AppNames
  BY DEF statsOwn
<1> DEFINE U(p) == Users(infos, port, multi, p)
<1>4. /\ \A p : \A m, n \in U(p) : m # n => m \in del \/ n \in del
      /\ \A n \in del : \/ n \in replicaLosers(infos, port, multi)
                        \/ \E p : n \in U(p) /\ \E m \in U(p) : m # n
  <2>1. PICK L : PortInput(infos, port, L, AppNames, PortRange)
    BY <1>1
  <2>2. PICK own \in SUBSET AppNames : own = statsOwn
    BY <1>3
  <2>3. del = checkMultiAppPort(infos, port, multi, own, order).del
    BY <1>2, <2>2
  <2> QED
    BY <2>1, <2>3, CheckOrders
<1>5. \A p, n : n \in U(p) <=> n \in AppNames /\ p \in Claims(n, port, multi)
  BY <1>1, UsersClaim
<1>6. ASSUME NEW n \in replicaLosers(infos, port, multi)
      PROVE  Claimant(n) \in multi /\ port[Claimant(n)] # <<>>
  <2>1. PICK i \in DOMAIN infos : /\ infos[i].name = n /\ infos[i] \in multi
                                  /\ port[infos[i]] # <<>>
    BY DEF replicaLosers
  <2>2. PICK m \in AppNames : infos[i] = Claimant(m)
    BY <1>1 DEF Claimants, Range
  <2>3. m = n
    BY <2>1, <2>2 DEF Claimant
  <2> QED
    BY <2>1, <2>2, <2>3
<1> HIDE DEF U
<1> QED
  BY <1>4, <1>5, <1>6

\* The two processes of module MCPair, in either mode, run beside a port
\* check that settles every collision.
THEOREM PortsSettledCorrect == PairSpec => []PortsSettled
<1>1. PairInit => InKube \/ InNative
  BY DEF PairInit, Init, Native!Init, InKube, InNative
<1>2. (InKube \/ InNative) /\ [PairNext]_vars => (InKube \/ InNative)'
  <2> SUFFICES ASSUME InKube \/ InNative, [PairNext]_vars PROVE (InKube \/ InNative)'
    OBVIOUS
  <2>1. CASE cloud' = cloud
    BY <2>1 DEF InKube, InNative
  <2>2. CASE Next
    <3>1. cloud' \in Desires \/ cloud' = cloud
      BY <2>2 DEF Next, CloudUpdate, SyncReport, SyncNodeProps, EngineStep, EngineFault, Exit,
             Tick, Collect, Report, CheckPorts, ReportAppStats, DeleteApp, StartApply, GoRoutine,
             SyncResource, Remove, Install, RecordCause, JoinApply, CollectFails,
             DeleteAppFails, CycleFails, Crash, ConcurrentMapWrites, RoutineFails
    <3> QED
      BY <2>1, <3>1 DEF InKube
  <2>3. CASE Native!Next
    <3>1. cloud' \in NativeDesires \/ cloud' = cloud
      BY <2>3 DEF Native!Next, Native!CloudUpdate, Native!SyncReport, Native!SyncNodeProps,
             Native!EngineStep, Native!EngineFault, Native!Exit, Native!Tick, Native!Collect,
             Native!Report, Native!CheckPorts, Native!ReportAppStats, Native!DeleteApp,
             Native!StartApply, Native!GoRoutine, Native!SyncResource, Native!Remove,
             Native!Install, Native!RecordCause, Native!JoinApply, Native!CollectFails,
             Native!DeleteAppFails, Native!CycleFails, Native!Crash,
             Native!ConcurrentMapWrites, Native!RoutineFails
    <3> QED
      BY <2>1, <3>1 DEF InNative
  <2> QED
    BY <2>1, <2>2, <2>3 DEF PairNext, Exit, vars
<1>3. InKube \/ InNative => PortsSettled
  BY PortCheckCorrect DEF PortsSettled
<1> QED
  BY <1>1, <1>2, <1>3, PTL DEF PairSpec
=============================================================================
