------------------------------ MODULE MCEngine ------------------------------
(***************************************************************************)
(* Instances of module Engine for TLC.                                     *)
(***************************************************************************)
EXTENDS Engine

V(n, v) == [name |-> n, ver |-> v]
List(sys, user) == [k \in Kinds |-> IF k = "sys" THEN sys ELSE user]

\* One process, baetyl-core.  The two user applications collide on a port
\* in one desire only; one system application comes and goes.
CoreDesires ==
  {List(<<V("core", 1), V("rule", 1)>>, <<V("a", 1)>>),
   List(<<V("rule", 2), V("core", 2)>>, <<V("b", 1), V("a", 2)>>),
   List(<<V("core", 1)>>, <<V("b", 2), V("a", 2)>>)}

CoreInstalled == [n \in Apps |-> IF n \in {"core", "a"} THEN 1 ELSE None]

CorePorts == [x \in AppInfo |-> CASE x.name = "a" -> <<80>>
                                  [] x = V("b", 2) -> <<80, 81>>
                                  [] x = V("rule", 2) -> <<82>>
                                  [] OTHER -> <<>>]

\* Version 2 of rule has replicas and a host port, which is refused.
CoreMulti == {V("rule", 2)}
CorePreserve == {V("a", 2)}

\* Two processes.  Native mode: the cloud upgrades both processes at once and
\* desires nothing else.
NativeDesires == {List(<<V("core", 2), V("init", 2)>>, <<>>)}

\* Kube mode: the cloud upgrades one of the two processes only.
KubeDesires == {List(<<V("init", 1), V("core", 2)>>, <<V("a", 1)>>)}

BothInstalled == [n \in Apps |-> IF n \in {"core", "init"} THEN 1 ELSE None]
NoPorts == [x \in AppInfo |-> <<>>]
CoreHost == [s \in Svcs |-> IF s = "core" THEN "core" ELSE "init"]
=============================================================================
