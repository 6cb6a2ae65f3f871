------------------------------- MODULE MCPair -------------------------------
(***************************************************************************)
(* Two processes for TLC, in both modes.  Native mode: the cloud upgrades  *)
(* both processes at once, and a call may fail or a process crash.  Kube   *)
(* mode, which the constants of the configuration describe: the cloud      *)
(* upgrades one of the two processes, and a removed process is asked to    *)
(* stop.  The cloud does not change its mind, so its desire tells in which *)
(* mode a behaviour is.  The port check is evaluated over all its inputs   *)
(* beside them.                                                            *)
(***************************************************************************)
EXTENDS MCEngine, PortCheck

Native == INSTANCE Engine WITH Graceful <- FALSE, Desires <- NativeDesires, MaxFaults <- 1

InKube == cloud \in Desires
InNative == cloud \in NativeDesires

PairInit == Init \/ Native!Init

\* Only in kube mode is a process ever on its way out.
PairNext == \/ \E s \in Svcs : Exit(s)
            \/ InKube /\ Next
            \/ InNative /\ Native!Next

\* The fairness of module Engine, in both modes.
Either(kube, native) == (InKube /\ kube) \/ (InNative /\ native)

PairSpec == /\ PairInit /\ [][PairNext]_vars
            /\ \A s \in Svcs : /\ WF_vars(Either(EngineStep(s), Native!EngineStep(s)))
                              /\ WF_vars(SyncReport(s)) /\ WF_vars(Exit(s))
-----------------------------------------------------------------------------
\* In either mode the port check settles collisions fairly: at most one
\* application is left for every host port, whatever the order of the list
\* and of the ports, and an application is dropped only for a reason of its
\* own, a port that another listed application also claims or host ports with
\* replicas (checkMultiAppPort, lines 229-254).
PortsSettled == (InKube \/ InNative) /\ Exclusive /\ OnlyRivalsLose
=============================================================================
