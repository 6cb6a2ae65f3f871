------------------------------ MODULE AppLists ------------------------------
(***************************************************************************)
(* The pure operations of the engine on application lists                  *)
(* (engine/engine.go, engine/utils.go).  An AppInfo is a record            *)
(* [name, ver].  The lists the cloud desires and the AMI reports are       *)
(* sequences of AppInfo; what a filter leaves of a list keeps the          *)
(* positions it had, so a filtered list is a function on some of them.     *)
(***************************************************************************)
EXTENDS Naturals, Sequences, FiniteSets, Functions, Folds, FiniteSetsExt

Names(list) == {list[i].name : i \in DOMAIN list}

\* The values of the Go map built by `m[a.Name] = a` over list: the last
\* entry of every name.
mapOf(list) ==
  {list[i] : i \in {j \in DOMAIN list : \A k \in DOMAIN list :
                                          list[k].name = list[j].name => k <= j}}

\* Every order in which Go may range over the elements of a finite set.
Orders(S) == Bijection(1..Cardinality(S), S)

-----------------------------------------------------------------------------
\* Mutant of the update half of getDeleteAndUpdate.
toUpdateAll(desires, reports) == mapOf(desires)

\* getDeleteAndUpdate: the reported applications nobody desires, and the
\* desired ones that are not reported at the desired version.
toDelete(desires, reports) == {a \in mapOf(reports) : a.name \notin Names(desires)}
toUpdate(desires, reports) == mapOf(desires) \ Range(reports)

\* The place of name n in a list; after the end when it is not there.
Place(list, n) ==
  LET at == {i \in DOMAIN list : list[i].name = n}
  IN  IF at = {} THEN Len(list) + 1 ELSE Min(at)

\* alignApps: the reported list in the order of the desired one; what is
\* not desired follows in map order.  A set: Go's map order is arbitrary.
alignApps(reApps, deApps) ==
  IF reApps = <<>> \/ deApps = <<>>
  THEN {reApps}
  ELSE {r \in Orders(mapOf(reApps)) :
          \A i, j \in DOMAIN r :
            Place(deApps, r[i].name) < Place(deApps, r[j].name) => i < j}

\* Mutants of the filters: everything passes, nothing does.
filterAppAll(apps, like) == apps
filterAppNone(apps, like) == <<>>

\* filterAppLike / filterAppNotLike with the single module "baetyl-core":
\* like holds the names that contain it.  The first keeps at most one
\* application, because of the break.
filterAppLike(apps, like) ==
  LET hits == {i \in DOMAIN apps : apps[i].name \in like}
  IN  [i \in {j \in hits : \A k \in hits : j <= k} |-> apps[i]]

filterAppNotLike(apps, like) ==
  [i \in {j \in DOMAIN apps : apps[j].name \notin like} |-> apps[i]]

-----------------------------------------------------------------------------
(***************************************************************************)
(* checkMultiAppPort.  port[a] is the sequence of the host ports of the    *)
(* services of application a (zero ports left out), multi the              *)
(* applications with more than one replica.  st carries the two maps the   *)
(* loop over the ports writes: own, the names n for which                  *)
(* stats[n].InstanceStats[n] is set, and del, the names to drop.           *)
(***************************************************************************)
\* The list ports[p]: one entry per service port, so an application that
\* uses p twice is listed twice.
claimants(infos, port, multi, p) ==
  LET uses(k) == IF k \notin DOMAIN infos \/ infos[k] \in multi THEN <<>>
                 ELSE [q \in 1..Cardinality({i \in DOMAIN port[infos[k]] : port[infos[k]][i] = p})
                         |-> infos[k].name]
      last == IF DOMAIN infos = {} THEN 0 ELSE Max(DOMAIN infos)
      cat[k \in 0..last] == IF k = 0 THEN <<>> ELSE cat[k - 1] \o uses(k)
  IN  cat[last]

portsOf(infos, port, multi) ==
  UNION {Range(port[infos[i]]) : i \in {j \in DOMAIN infos : infos[j] \notin multi}}

\* More than one replica cannot have a host port.
replicaLosers(infos, port, multi) ==
  {infos[i].name : i \in {j \in DOMAIN infos : infos[j] \in multi /\ port[infos[j]] # <<>>}}

checkStart(infos, port, multi, own) ==
  LET losers == replicaLosers(infos, port, multi)
  IN  [own |-> own \cup losers, del |-> losers]

\* Mutants of the round: two claimants are let through; an uncontended
\* port is lost as well.
portRoundOffByOne(aNames, st) ==
  IF Len(aNames) <= 2 THEN st
  ELSE [own |-> st.own \cup (Range(aNames) \ {aNames[1]}),
        del |-> st.del \cup (Range(aNames) \ {aNames[1]})]
portRoundDropsAll(aNames, st) ==
  [own |-> st.own \cup Range(aNames), del |-> st.del \cup Range(aNames)]

\* One round of the loop over ports: the first claimant whose own instance
\* is in stats keeps the port, or else the first of the list.
portRound(aNames, st) ==
  IF Len(aNames) <= 1 THEN st
  ELSE LET existing == {i \in DOMAIN aNames : aNames[i] \in st.own}
           first    == aNames[IF existing = {} THEN 1 ELSE Min(existing)]
           losers   == Range(aNames) \ {first}
       IN  [own |-> st.own \cup losers, del |-> st.del \cup losers]

\* The whole call when the ports are visited in the given order.
checkMultiAppPort(infos, port, multi, own, order) ==
  LET after[k \in 0..Len(order)] ==
        IF k = 0 THEN checkStart(infos, port, multi, own)
        ELSE portRound(claimants(infos, port, multi, order[k]), after[k - 1])
  IN  after[Len(order)]
=============================================================================
