-------------------------------- MODULE Ami --------------------------------
(***************************************************************************)
(* What the engine relies on in an AMI (interface AMI of ami/ami.go): the  *)
(* calls ApplyApp and DeleteApp as Engine's goroutines make them, and the  *)
(* list StatsApps returns.  A call for one application changes the list of *)
(* that application only; DeleteApp succeeds when nothing is listed any    *)
(* more, ApplyApp when the version it was called with is listed.  A call   *)
(* that fails, or whose process dies, leaves any part of its work behind.  *)
(***************************************************************************)
CONSTANTS Apps, Versions,
          Idle,     \* no call under way
          Deleting  \* the call is DeleteApp

VARIABLES listed,   \* the versions of an application that StatsApps lists
          call,     \* Idle, Deleting, or the version that is applied
          ok        \* whether the last call succeeded

vars == <<listed, call, ok>>

Init == /\ listed \in [Apps -> SUBSET Versions]
        /\ call = [a \in Apps |-> Idle]
        /\ ok = [a \in Apps |-> TRUE]

Begin(a) == /\ call[a] = Idle
            /\ \E c \in Versions \cup {Deleting} : call' = [call EXCEPT ![a] = c]
            /\ UNCHANGED <<listed, ok>>

Remove(a) == /\ call[a] # Idle
             /\ \E v \in listed[a] : listed' = [listed EXCEPT ![a] = @ \ {v}]
             /\ UNCHANGED <<call, ok>>

Install(a) == /\ call[a] \in Versions
              /\ listed' = [listed EXCEPT ![a] = @ \cup {call[a]}]
              /\ UNCHANGED <<call, ok>>

Succeed(a) == /\ \/ call[a] = Deleting /\ listed[a] = {}
                 \/ call[a] \in Versions /\ call[a] \in listed[a]
              /\ call' = [call EXCEPT ![a] = Idle]
              /\ ok' = [ok EXCEPT ![a] = TRUE]
              /\ UNCHANGED listed

\* A failing call may do a last piece of its work in the step it ends with.
Fail(a) == /\ call[a] # Idle
           /\ \/ UNCHANGED listed
              \/ call[a] \in Versions /\ listed' = [listed EXCEPT ![a] = @ \cup {call[a]}]
           /\ call' = [call EXCEPT ![a] = Idle]
           /\ ok' = [ok EXCEPT ![a] = FALSE]

\* The process that made the calls ends.
Crash == /\ \E a \in Apps : call[a] # Idle
         /\ call' = [a \in Apps |-> Idle]
         /\ ok' = [a \in Apps |-> ok[a] /\ call[a] = Idle]
         /\ UNCHANGED listed

Next == \/ Crash
        \/ \E a \in Apps : Begin(a) \/ Remove(a) \/ Install(a) \/ Succeed(a) \/ Fail(a)

Spec == Init /\ [][Next]_vars
=============================================================================
