----------------------------- MODULE MCStorage ------------------------------
(***************************************************************************)
(* Instances of module Storage for TLC.                                    *)
(*                                                                         *)
(* Two scenarios in one run.  "apply", which the constants of the          *)
(* configuration describe: a and b share configurations while downloads    *)
(* fail, the process crashes and the disk is full once.  "clean": c and    *)
(* the job j take turns with configuration x, mounted with AutoClean,      *)
(* while the cleaning goroutine works.                                     *)
(***************************************************************************)
EXTENDS Storage

VARIABLE scenario

V(n, v) == [name |-> n, ver |-> v]

Cleaned == {V("c", 1), V("c", 2), V("j", 1)}
SharedApps == {V("a", 1), V("a", 2), V("b", 1)} \cup Cleaned
SharedCfgs == {V("x", 1), V("y", 1)}
SharedUses == [a \in Apps |-> CASE a \in {V("a", 1), V("c", 1), V("j", 1)} -> {V("x", 1)}
                                [] a = V("a", 2) -> {V("x", 1), V("y", 1)}
                                [] OTHER -> {V("y", 1)}]
SharedClean == [a \in Apps |-> IF a \in Cleaned THEN Uses[a] ELSE {}]
SharedJobs == {V("j", 1)}
SharedDesires == {{V("a", 1)}, {V("a", 2), V("b", 1)}, {V("b", 1)}}
TurnDesires == {{V("c", 1)}, {V("c", 2), V("j", 1)}}

Clean == INSTANCE Storage WITH Desires <- TurnDesires, MaxUpdates <- 3, MaxCleans <- 1,
                               MaxPressure <- 0, MaxFails <- 1, MaxFaults <- 0

\* The usual upgrade: a new version of the application comes with a new
\* version of its configuration.
UpgradeApps == {V("a", 1), V("a", 2)}
UpgradeCfgs == {V("x", 1), V("x", 2)}
UpgradeUses == [a \in Apps |-> IF a.ver = 1 THEN {V("x", 1)} ELSE {V("x", 2)}]
UpgradeDesires == {{V("a", 1)}, {V("a", 2)}}
CleanNone == [a \in Apps |-> {}]
-----------------------------------------------------------------------------
BothInit == \/ scenario = "apply" /\ Init
            \/ scenario = "clean" /\ Clean!Init

BothNext == /\ UNCHANGED scenario
            /\ \/ scenario = "apply" /\ Next
               \/ scenario = "clean" /\ Clean!Next

\* The fairness of module Storage, whose fair actions spend no bound and so
\* are the same in both scenarios.
BothSpec == /\ BothInit /\ [][BothNext]_<<vars, scenario>>
            /\ WF_vars(EngineStep) /\ WF_vars(CleanStep)
            /\ \A a \in Apps : WF_vars(RoutineStep(a))

\* While nothing cleans, an application is handed over only when every
\* object with an MD5 is whole, in spite of downloads in place, crashes in
\* the middle of them, goroutines that share a lock file which the first of
\* them unlinks, and recycling; the one exception is an object that another
\* goroutine, whose download failed, takes away (downloadObject,
\* DownloadConfig).  The cleaning goroutine may take objects away from an
\* application that is being deployed.
AppliedComplete == [][scenario = "apply" => HandsOverWhole]_<<vars, scenario>>

\* While nothing cleans, what is desired runs in the end, with its objects
\* in place (reportAndApply, downloadObject).
ReadyUnlessCleaned == scenario = "clean" \/ EventuallyReady
=============================================================================
