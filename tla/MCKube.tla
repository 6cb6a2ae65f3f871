------------------------------- MODULE MCKube -------------------------------
(***************************************************************************)
(* An instance of module Kube for TLC: two applications and two versions,  *)
(* of which the second is applied with PreserveUpdates for application b.  *)
(* The versions of a plain application differ in workload and extras, and  *)
(* each version of a yaml application names an object the other does not.  *)
(***************************************************************************)
EXTENDS Kube

Kinded(s, t) == [x \in Apps |-> IF x = "a" THEN s ELSE t]

MCTypes == {Kinded("plain", "plain"), Kinded("plain", "helm"), Kinded("yaml", "yaml")}
MCWork == Kinded([v \in Versions |-> IF v = 1 THEN "job" ELSE "deploy"],
                 [v \in Versions |-> IF v = 1 THEN "daemon" ELSE "job"])
MCExtras == [x \in Apps |-> [v \in Versions |-> IF v = 1 THEN {"svc"} ELSE {"hpa"}]]
MCYamlObjs == [x \in Apps |-> [v \in Versions |-> {0, v}]]
MCPreserve == {<<"b", 2>>}
=============================================================================
