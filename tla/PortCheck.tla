----------------------------- MODULE PortCheck -----------------------------
(***************************************************************************)
(* checkMultiAppPort (engine/utils.go) over all inputs of a bounded size:  *)
(* the map of ports is ranged over in an arbitrary order, and what one     *)
(* port decides (the statistics of the losers) is read when the next port  *)
(* is decided.                                                             *)
(***************************************************************************)
EXTENDS AppLists

CONSTANTS AppNames,   \* names of the desired applications
          PortRange,  \* host ports
          MaxPorts    \* bound: service ports of one application

ASSUME AppNamesAssumption == IsFiniteSet(AppNames)
ASSUME MaxPortsAssumption == MaxPorts \in Nat

Claimant(n) == [name |-> n, ver |-> 1]
Claimants == {Claimant(n) : n \in AppNames}
PortLists == UNION {[1..k -> PortRange] : k \in 0..MaxPorts}

\* The names n with stats[n].InstanceStats[n] when the call starts: none,
\* running or not.  Both AMIs key InstanceStats by the name of the pod or of
\* the program instance, which is longer than the application name.
statsOwn == {}

\* The names that the call drops, for every order of the ports.
Dropped(infos, port, multi) ==
  {checkMultiAppPort(infos, port, multi, statsOwn, order).del :
     order \in Orders(portsOf(infos, port, multi))}

Claims(n, port, multi) == IF Claimant(n) \in multi THEN {} ELSE Range(port[Claimant(n)])

\* No two applications that are left claim the same port.
Exclusive ==
  \A infos \in Orders(Claimants), port \in [Claimants -> PortLists], multi \in SUBSET Claimants :
    \A del \in Dropped(infos, port, multi) :
      \A m, n \in AppNames \ del :
        m # n => Claims(m, port, multi) \cap Claims(n, port, multi) = {}

\* Whoever is dropped has a rival, or replicas.
OnlyRivalsLose ==
  \A infos \in Orders(Claimants), port \in [Claimants -> PortLists], multi \in SUBSET Claimants :
    \A del \in Dropped(infos, port, multi) :
      \A n \in del :
        \/ \E m \in AppNames \ {n} : Claims(m, port, multi) \cap Claims(n, port, multi) # {}
        \/ Claimant(n) \in multi /\ port[Claimant(n)] # <<>>
=============================================================================
