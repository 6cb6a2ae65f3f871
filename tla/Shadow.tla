------------------------------- MODULE Shadow -------------------------------
(***************************************************************************)
(* The shadow of a node (node/node.go) and those that write to it at the   *)
(* same time: the engine's reports, the goroutines of sync that fetch the  *)
(* desire (sync/sync.go), and clients that change node properties with     *)
(* UpdateNodeProperties, which reads the report and writes it back in two  *)
(* transactions.  A desired property goes the long way round: cloud, sync, *)
(* shadow, event handler (eventx), an application that acts on the event,  *)
(* UpdateNodeProperties, report, cloud.                                    *)
(*                                                                         *)
(* Core.Close closes the store before it stops sync (core/core.go), and    *)
(* the event handler subscribes after sync has begun to publish.           *)
(***************************************************************************)
EXTENDS Naturals, Sequences, FiniteSets

CONSTANTS Keys, Values,
          None,        \* no value; in a patch: remove the property
          Same,        \* in a patch: leave the property alone
          Wishes,      \* desires in the cloud: [props, devices]
          OwnPatches,  \* what clients change on their own account
          Scenarios,   \* [async, notify, responds : BOOLEAN]
          MaxSets,     \* bound: changes of the desire in the cloud
          MaxObs,      \* bound: changes of what the engine observes
          MaxPatches,  \* bound: patches no event asked for
          MaxFaults,   \* bound: lost or unasked messages, failing requests, stops, crashes
          MaxQueue     \* bound: messages from the cloud on their way

Props == [Keys -> Values \cup {None}]
Patches == [Keys -> Values \cup {None, Same}]
Clients == {"app", "other"}

ASSUME ShadowBounds == MaxSets \in Nat /\ MaxObs \in Nat /\ MaxPatches \in Nat
                       /\ MaxFaults \in Nat /\ MaxQueue \in Nat \ {0}
ASSUME WishesAssumption == Wishes \subseteq [props : Props, devices : Nat] /\ OwnPatches \subseteq Patches
ASSUME ScenarioAssumption == Scenarios \subseteq [async : BOOLEAN, notify : BOOLEAN, responds : BOOLEAN]

VARIABLES world,     \* the link, the configuration, the application; fixed
          cloud,     \* the desire in the cloud: [props, devices]
          known,     \* the report the cloud has last seen
          desire,    \* the shadow in the store: the desire
          report,    \* and the report: [props, apps]
          seen,      \* the number of the engine's current observation
          core,      \* "starting" | "up" | "closing" | "down"
          syn,       \* the reporting goroutine: [pc, msg]
          sent,      \* reports on their way to the cloud (async)
          inbox,     \* messages on their way from the cloud (async)
          events,    \* events on their way to the application
          client,    \* client[c]: its request: [pc, patch, snap]
          told,      \* the devices last published for the device manager
          intended,  \* what the patches made of the properties, taken as atomic
          sets, patches, faults

vars == <<world, cloud, known, desire, report, seen, core, syn, sent, inbox, events,
          client, told, intended, sets, patches, faults>>

store == <<desire, report, intended>>
bounds == <<sets, patches, faults>>
NoProps == [k \in Keys |-> None]
NoReport == [props |-> NoProps, apps |-> 0]
NoDesire == [props |-> NoProps, devices |-> 0]
Resting == [pc |-> "idle", msg |-> NoDesire, snap |-> NoReport]
NoRequest == [pc |-> "idle", patch |-> [k \in Keys |-> Same], snap |-> NoReport]

Init == /\ world \in Scenarios
        /\ cloud = NoDesire /\ known = NoReport
        /\ desire = NoDesire /\ report = NoReport /\ intended = NoProps
        /\ seen = 0 /\ told = 0
        /\ core = "starting"
        /\ syn = Resting
        /\ sent = <<>> /\ inbox = <<>> /\ events = <<>>
        /\ client = [c \in Clients |-> NoRequest]
        /\ sets = MaxSets /\ patches = MaxPatches /\ faults = MaxFaults

Running == core \in {"starting", "up"}
Fault == faults > 0 /\ faults' = faults - 1

-----------------------------------------------------------------------------
(* The transactions of the shadow.                                         *)

\* Mutant: the report is replaced.
ReportReplaces(r, apps) == [props |-> NoProps, apps |-> apps]

\* Report without override: what the engine does not report stays.
Report(r, apps) == [r EXCEPT !.apps = apps]

\* Patch of a report: a nil removes.
Patch(props, delta) == [k \in Keys |-> IF delta[k] = Same THEN props[k] ELSE delta[k]]

\* Mutant: removed properties are not in the difference.
DiffClean(d, r) == [k \in Keys |-> IF d.props[k] \in {r.props[k], None} THEN Same ELSE d.props[k]]

\* The node properties in DiffWithNil: with a nil for what is to go.
DiffWithNil(d, r) == [k \in Keys |-> IF d.props[k] = r.props[k] THEN Same ELSE d.props[k]]

Differs(delta) == \E k \in Keys : delta[k] # Same

-----------------------------------------------------------------------------
(* The engine.                                                             *)

Observe == /\ seen < MaxObs /\ seen' = seen + 1
           /\ UNCHANGED <<world, cloud, known, store, core, syn, sent, inbox, events,
                          client, told, bounds>>

\* Mutant: only the first cycle of a process reports.
EngineReportAtStart == /\ core = "starting"
                       /\ report' = Report(report, seen)
                       /\ UNCHANGED <<world, cloud, known, desire, intended, seen, core, syn,
                                      sent, inbox, events, client, told, bounds>>

EngineReport == /\ Running
                /\ report' = Report(report, seen)
                /\ UNCHANGED <<world, cloud, known, desire, intended, seen, core, syn, sent,
                               inbox, events, client, told, bounds>>

-----------------------------------------------------------------------------
(* UpdateNodeProperties.                                                   *)

\* Get: the whole report.
UpdateGet(c, delta) ==
  /\ Running /\ client[c].pc = "idle"
  /\ client' = [client EXCEPT ![c] = [pc |-> "got", patch |-> delta, snap |-> report]]

\* Report with override.  Overlap is what nobody promises anything for.
UpdatePut(c) ==
  /\ Running /\ client[c].pc = "got"
  /\ report' = [client[c].snap EXCEPT !.props = Patch(@, client[c].patch)]
  /\ intended' = IF client[c].snap.props = report.props
                 THEN Patch(intended, client[c].patch) ELSE report'.props
  /\ client' = [client EXCEPT ![c] = NoRequest]
  /\ UNCHANGED <<world, cloud, known, desire, seen, core, syn, sent, inbox, events,
                 told, bounds>>

\* The application acts on an event.
Respond == /\ world.responds /\ events # <<>>
           /\ UpdateGet("app", Head(events))
           /\ events' = Tail(events)
           /\ UNCHANGED <<world, cloud, known, store, seen, core, syn, sent, inbox, told, bounds>>

\* Another client changes a property on its own account.
PatchOne == /\ patches > 0 /\ patches' = patches - 1
            /\ \E delta \in OwnPatches : UpdateGet("other", delta)
            /\ UNCHANGED <<world, cloud, known, store, seen, core, syn, sent, inbox, events,
                           told, sets, faults>>

-----------------------------------------------------------------------------
(* The cloud (external).                                                   *)

SetDesire == /\ sets > 0 /\ sets' = sets - 1
             /\ cloud' \in Wishes \ {cloud}
             /\ UNCHANGED <<world, known, store, seen, core, syn, sent, inbox, events,
                            client, told, patches, faults>>

\* The answer to a report is empty when there is nothing to change.
Empty(r) == r.props = cloud.props /\ cloud.devices = 0

-----------------------------------------------------------------------------
(* sync.                                                                   *)

\* sendEvent and the event handler: an event is dropped when the handler has
\* not subscribed, when no application listens or when a channel is full.
Deliver(d) == IF core = "up" /\ world.responds /\ Len(events) < MaxQueue
              THEN events' = Append(events, d) ELSE UNCHANGED events

\* reportAndDesire: the properties, or else the devices.
PublishOne(d, delta) ==
  IF world.notify /\ Differs(delta)
  THEN Deliver(delta) /\ UNCHANGED told
  ELSE UNCHANGED events /\ told' = (IF d.devices # 0 THEN d.devices ELSE told)

\* Mutant: dispatch returns after the properties.
PublishBothOrOne(kind, d, delta) ==
  IF world.notify /\ Differs(delta)
  THEN Deliver(delta) /\ UNCHANGED told
  ELSE UNCHANGED events /\ told' = (IF kind = "report" /\ d.devices # 0 THEN d.devices ELSE told)

\* dispatch: the properties, and for a report the devices as well.
PublishBoth(kind, d, delta) ==
  /\ IF world.notify /\ Differs(delta) THEN Deliver(delta) ELSE UNCHANGED events
  /\ told' = IF kind = "report" /\ d.devices # 0 THEN d.devices ELSE told

SyncGet == /\ Running /\ syn.pc = "idle" /\ ~world.async
           /\ syn' = [syn EXCEPT !.pc = "asking", !.snap = report]
           /\ UNCHANGED <<world, cloud, known, store, seen, core, sent, inbox, events,
                          client, told, bounds>>

\* reportAsync.
SyncSend == /\ Running /\ world.async /\ Len(sent) < MaxQueue
            /\ sent' = Append(sent, report)
            /\ UNCHANGED <<world, cloud, known, store, seen, core, syn, inbox, events,
                           client, told, bounds>>

\* The request reaches the cloud, which answers.
Answer == /\ syn.pc = "asking"
          /\ known' = syn.snap
          /\ \/ Empty(syn.snap) /\ syn' = Resting
             \/ syn' = [Resting EXCEPT !.pc = "answered", !.msg = cloud]
          /\ UNCHANGED <<world, cloud, store, seen, core, sent, inbox, events, client, told, bounds>>

RequestFails == /\ syn.pc = "asking" /\ Fault
                /\ known' \in {known, syn.snap}
                /\ syn' = Resting
                /\ UNCHANGED <<world, cloud, store, seen, core, sent, inbox, events, client,
                               told, sets, patches>>

\* Desire with override.
StoreDesire(d) == desire' = d

SyncDesire == /\ Running /\ syn.pc = "answered"
              /\ StoreDesire(syn.msg)
              /\ PublishOne(syn.msg, DiffWithNil(desire', report))
              /\ syn' = Resting
              /\ UNCHANGED <<world, cloud, known, report, intended, seen, core, sent, inbox,
                             client, bounds>>

\* The store is closed: an error, and the answer is forgotten.
SyncDesireFails == /\ core = "closing" /\ syn.pc = "answered"
                   /\ syn' = Resting
                   /\ UNCHANGED <<world, cloud, known, store, seen, core, sent, inbox, events,
                                  client, told, bounds>>

\* The cloud takes a report and answers, or sends its desire unasked.  A
\* message about node properties has nothing else in it.
CloudTakes == /\ sent # <<>> /\ Len(inbox) < MaxQueue
              /\ known' = Head(sent) /\ sent' = Tail(sent)
              /\ \/ Empty(Head(sent)) /\ UNCHANGED inbox
                 \/ inbox' = Append(inbox, [kind |-> "report", desire |-> cloud])
              /\ UNCHANGED <<world, cloud, store, seen, core, syn, events, client, told, bounds>>

CloudPushes == /\ world.async /\ Len(inbox) < MaxQueue /\ Fault
               /\ core # "down"
               /\ inbox' = Append(inbox, [kind |-> "props", desire |-> [cloud EXCEPT !.devices = 0]])
               /\ UNCHANGED <<world, cloud, known, store, seen, core, syn, sent, events, client,
                              told, sets, patches>>

\* dispatch of a message from the cloud.
Dispatch == /\ Running /\ inbox # <<>>
            /\ StoreDesire(Head(inbox).desire)
            /\ PublishBoth(Head(inbox).kind, Head(inbox).desire, DiffWithNil(desire', report))
            /\ inbox' = Tail(inbox)
            /\ UNCHANGED <<world, cloud, known, report, intended, seen, core, syn, sent,
                           client, bounds>>

\* A message gets lost: on the link, or because MQTT refuses it.
Lose == /\ Fault
        /\ \/ sent # <<>> /\ sent' = Tail(sent) /\ UNCHANGED <<inbox, events>>
           \/ inbox # <<>> /\ inbox' = Tail(inbox) /\ UNCHANGED <<sent, events>>
           \/ events # <<>> /\ events' = Tail(events) /\ UNCHANGED <<sent, inbox>>
        /\ UNCHANGED <<world, cloud, known, store, seen, core, syn, client, told, sets, patches>>

-----------------------------------------------------------------------------
(* The process.                                                            *)

Subscribe == /\ core = "starting" /\ core' = "up"
             /\ UNCHANGED <<world, cloud, known, store, seen, syn, sent, inbox, events,
                            client, told, bounds>>

\* Close: the server answers its requests and ends, the engine ends, the
\* store is closed; sync goes on.
Close == /\ core = "up" /\ Fault
         /\ \A c \in Clients : client[c].pc = "idle"
         /\ core' = "closing"
         /\ UNCHANGED <<world, cloud, known, store, seen, syn, sent, inbox, events,
                        client, told, sets, patches>>

Ended == /\ core' = "down"
         /\ syn' = Resting /\ sent' = <<>> /\ inbox' = <<>> /\ events' = <<>>
         /\ client' = [c \in Clients |-> NoRequest]

CloseEnds == /\ core = "closing" /\ syn.pc = "idle"
             /\ Ended
             /\ UNCHANGED <<world, cloud, known, store, seen, told, bounds>>

Crash == /\ core # "down" /\ Fault
         /\ Ended
         /\ UNCHANGED <<world, cloud, known, store, seen, told, sets, patches>>

\* NewNode finds the shadow and merges the versions of the program into its
\* report.
Restart == /\ core = "down" /\ core' = "starting"
           /\ UNCHANGED <<world, cloud, known, store, seen, syn, sent, inbox, events,
                          client, told, bounds>>

SyncStep == SyncGet \/ SyncSend \/ SyncDesire \/ SyncDesireFails
CloudStep == Answer \/ CloudTakes
ProcessStep == Subscribe \/ CloseEnds \/ Restart

Next == \/ Observe \/ EngineReport \/ SyncStep \/ Dispatch \/ CloudStep \/ ProcessStep
        \/ Respond \/ \E c \in Clients : UpdatePut(c)
        \/ PatchOne \/ SetDesire \/ RequestFails \/ CloudPushes \/ Lose \/ Close \/ Crash

(***************************************************************************)
(* Fairness: the tickers of engine and sync keep firing and their          *)
(* transactions end; the link works but for MaxFaults messages; handlers   *)
(* and the application act on what reaches them; the supervisor restarts   *)
(* the process.                                                            *)
(***************************************************************************)
Spec == /\ Init /\ [][Next]_vars
        /\ WF_vars(EngineReport)
        /\ WF_vars(SyncGet \/ SyncDesire \/ SyncDesireFails) /\ WF_vars(SyncSend)
        /\ WF_vars(Answer) /\ WF_vars(CloudTakes) /\ WF_vars(Dispatch)
        /\ WF_vars(Respond) /\ \A c \in Clients : WF_vars(UpdatePut(c))
        /\ WF_vars(ProcessStep)

-----------------------------------------------------------------------------
\* Every variable has its type.
TypeOK ==
  LET reports == [props : Props, apps : 0..MaxObs]
      desires == [props : Props, devices : Nat]
  IN  /\ world \in Scenarios /\ core \in {"starting", "up", "closing", "down"}
      /\ cloud \in desires /\ desire \in desires /\ syn.msg \in desires
      /\ known \in reports /\ report \in reports /\ syn.snap \in reports
      /\ \A c \in Clients : client[c].patch \in Patches /\ client[c].snap \in reports
      /\ \A i \in DOMAIN events : events[i] \in Patches
      /\ Len(events) <= MaxQueue /\ Len(inbox) <= MaxQueue /\ Len(sent) <= MaxQueue
      /\ intended \in Props /\ told \in Nat /\ seen \in 0..MaxObs

\* A change of the properties that UpdateNodeProperties has confirmed stays
\* until another change, whatever the engine, sync, a crash or a restart do
\* to the shadow: only changes that overlap with each other get lost.
PatchesKept == report.props = intended

\* An overlapping change of properties writes an old report back over the
\* engine's: the shadow and the cloud see the current one in the end.
ReportCatchesUp == <>[](report.apps = seen /\ known.apps = seen)

\* With notification on and an application that acts on events, the
\* properties that the node reports are in the end those that are desired,
\* and the cloud knows: through overlapping changes, answers that come too
\* late for the store, events before the subscription and lost messages.
PropsConverge == world.notify /\ world.responds =>
                   <>[](report.props = cloud.props /\ known.props = cloud.props)

\* The device manager learns the devices in the end.  In answers to a
\* request a change of properties goes first, in every cycle: with an
\* application that does not act on it the devices never follow.
DevicesTold == <>[]( \/ cloud.devices = 0 \/ told = cloud.devices
                     \/ /\ ~world.async /\ world.notify /\ ~world.responds
                        /\ cloud.props # report.props)
=============================================================================
