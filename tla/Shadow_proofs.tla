--------------------------- MODULE Shadow_proofs ----------------------------
(***************************************************************************)
(* Proofs about module Shadow, for any keys, values, scenarios and bounds. *)
(***************************************************************************)
EXTENDS Shadow, TLAPS

Reports == [props : Props, apps : 0..MaxObs]
Desired == [props : Props, devices : Nat]
Replies == [kind : {"report", "props"}, desire : Desired]
Rounds == [pc : {"idle", "asking", "answered"}, msg : Desired, snap : Reports]
Requests == [pc : {"idle", "got"}, patch : Patches, snap : Reports]

\* The channels, with what may be on its way in them.
ChannelsOK == /\ sent \in Seq(Reports) /\ Len(sent) <= MaxQueue
              /\ inbox \in Seq(Replies) /\ Len(inbox) <= MaxQueue
              /\ events \in Seq(Patches) /\ Len(events) <= MaxQueue

\* TypeOK with the records of the goroutines and the contents of channels.
ShadowTypes ==
  /\ world \in Scenarios /\ core \in {"starting", "up", "closing", "down"}
  /\ cloud \in Desired /\ desire \in Desired
  /\ known \in Reports /\ report \in Reports
  /\ intended \in Props /\ told \in Nat /\ seen \in 0..MaxObs
  /\ syn \in Rounds /\ client \in [Clients -> Requests]
  /\ ChannelsOK

\* What the shadow holds, and what the patches made of it, agree.
ShadowInv == ShadowTypes /\ PatchesKept

-----------------------------------------------------------------------------
(* The transactions.                                                       *)

\* A patch of properties gives properties; a difference is a patch.
LEMMA PatchTypes ==
  /\ \A p \in Props, delta \in Patches : Patch(p, delta) \in Props
  /\ \A d \in Desired, r \in Reports : DiffWithNil(d, r) \in Patches
<1>1. ASSUME NEW p \in Props, NEW delta \in Patches
      PROVE  Patch(p, delta) \in Props
  BY DEF Props, Patches, Patch
<1>2. ASSUME NEW d \in Desired, NEW r \in Reports
      PROVE  DiffWithNil(d, r) \in Patches
  <2>1. d.props \in Props
    BY DEF Desired
  <2> QED
    BY <2>1 DEF Props, Patches, DiffWithNil
<1> QED
  BY <1>1, <1>2

\* The values the variables start from, and go back to, have their types.
LEMMA RestTypes ==
  /\ NoProps \in Props /\ NoReport \in Reports /\ NoDesire \in Desired
  /\ Resting \in Rounds /\ NoRequest \in Requests
<1>1. NoProps \in Props /\ [k \in Keys |-> Same] \in Patches
  BY DEF NoProps, Props, Patches
<1>2. 0 \in 0..MaxObs
  BY ShadowBounds
<1>3. NoReport \in Reports /\ NoDesire \in Desired
  BY <1>1, <1>2 DEF NoReport, NoDesire, Reports, Desired
<1> QED
  BY <1>1, <1>3 DEF Resting, NoRequest, Rounds, Requests

\* The records that steps change keep their types; a report with other
\* applications keeps its properties.
LEMMA UpdateTypes ==
  /\ \A r \in Reports, n \in 0..MaxObs : Report(r, n) \in Reports /\ Report(r, n).props = r.props
  /\ \A r \in Reports, delta \in Patches :
       /\ [r EXCEPT !.props = Patch(@, delta)] \in Reports
       /\ [r EXCEPT !.props = Patch(@, delta)].props = Patch(r.props, delta)
  /\ \A s \in Rounds, r \in Reports : [s EXCEPT !.pc = "asking", !.snap = r] \in Rounds
  /\ \A s \in Rounds, d \in Desired : [s EXCEPT !.pc = "answered", !.msg = d] \in Rounds
  /\ \A d \in Desired : [d EXCEPT !.devices = 0] \in Desired
<1>1. ASSUME NEW r \in Reports, NEW n \in 0..MaxObs
      PROVE  Report(r, n) \in Reports /\ Report(r, n).props = r.props
  BY DEF Report, Reports
<1>2. ASSUME NEW r \in Reports, NEW delta \in Patches
      PROVE  /\ [r EXCEPT !.props = Patch(@, delta)] \in Reports
             /\ [r EXCEPT !.props = Patch(@, delta)].props = Patch(r.props, delta)
  <2>1. r.props \in Props
    BY DEF Reports
  <2>2. Patch(r.props, delta) \in Props
    BY <2>1, PatchTypes
  <2> QED
    BY <2>2 DEF Reports
<1>3. ASSUME NEW s \in Rounds, NEW r \in Reports
      PROVE  [s EXCEPT !.pc = "asking", !.snap = r] \in Rounds
  BY DEF Rounds
<1>4. ASSUME NEW s \in Rounds, NEW d \in Desired
      PROVE  [s EXCEPT !.pc = "answered", !.msg = d] \in Rounds
  BY DEF Rounds
<1>5. ASSUME NEW d \in Desired
      PROVE  [d EXCEPT !.devices = 0] \in Desired
  BY DEF Desired
<1> QED
  BY <1>1, <1>2, <1>3, <1>4, <1>5

\* Putting a message into a channel that has room, and taking one out.
LEMMA Channel ==
  ASSUME NEW S, NEW q \in Seq(S), NEW n \in Nat, Len(q) <= n
  PROVE  /\ \A m \in S : Len(q) < n => Append(q, m) \in Seq(S) /\ Len(Append(q, m)) <= n
         /\ q # <<>> => Head(q) \in S /\ Tail(q) \in Seq(S) /\ Len(Tail(q)) <= n
<1>1. ASSUME NEW m \in S, Len(q) < n
      PROVE  Append(q, m) \in Seq(S) /\ Len(Append(q, m)) <= n
  BY <1>1
<1>2. ASSUME q # <<>>
      PROVE  Head(q) \in S /\ Tail(q) \in Seq(S) /\ Len(Tail(q)) <= n
  BY <1>2
<1> QED
  BY <1>1, <1>2

\* sendEvent keeps the channel of events.
LEMMA DeliverTypes ==
  ASSUME ShadowTypes, NEW d \in Patches, Deliver(d)
  PROVE  events' \in Seq(Patches) /\ Len(events') <= MaxQueue
<1>1. events \in Seq(Patches) /\ Len(events) <= MaxQueue /\ MaxQueue \in Nat
  BY ShadowBounds DEF ShadowTypes, ChannelsOK
<1>2. CASE core = "up" /\ world.responds /\ Len(events) < MaxQueue
  BY <1>1, <1>2, Channel DEF Deliver
<1>3. CASE ~(core = "up" /\ world.responds /\ Len(events) < MaxQueue)
  BY <1>1, <1>3 DEF Deliver
<1> QED
  BY <1>2, <1>3

-----------------------------------------------------------------------------
(* The invariant.                                                          *)

\* It holds of the empty shadow.
LEMMA ShadowInit == Init => ShadowInv
<1> SUFFICES ASSUME Init
             PROVE  ShadowInv
  OBVIOUS
<1>1. client \in [Clients -> Requests] /\ syn \in Rounds
  BY RestTypes DEF Init
<1>2. ChannelsOK
  BY ShadowBounds DEF Init, ChannelsOK
<1>3. seen \in 0..MaxObs /\ told \in Nat
  BY ShadowBounds DEF Init
<1>4. PatchesKept
  BY DEF Init, PatchesKept, NoReport
<1>5. core \in {"starting", "up", "closing", "down"} /\ world \in Scenarios
  BY DEF Init
<1>6. /\ cloud \in Desired /\ desire \in Desired
      /\ known \in Reports /\ report \in Reports /\ intended \in Props
  BY RestTypes DEF Init
<1> QED
  BY <1>1, <1>2, <1>3, <1>4, <1>5, <1>6 DEF ShadowInv, ShadowTypes

\* Every step keeps types and properties.
LEMMA ShadowStep == ShadowInv /\ [Next]_vars => ShadowInv'
<1> SUFFICES ASSUME ShadowInv, [Next]_vars
             PROVE  ShadowInv'
  OBVIOUS
<1> USE DEF ShadowInv, ShadowTypes, PatchesKept, store, bounds
<1>0. /\ MaxQueue \in Nat /\ MaxObs \in Nat
      /\ report.props \in Props /\ syn.msg \in Desired /\ syn.snap \in Reports
      /\ \A c \in Clients : client[c].patch \in Patches /\ client[c].snap \in Reports
  BY ShadowBounds DEF Reports, Rounds, Requests
<1>1. CASE Observe
  <2>1. seen' \in 0..MaxObs
    BY <1>0, <1>1 DEF Observe
  <2> QED
    BY <1>1, <2>1 DEF Observe, ChannelsOK
<1>2. CASE EngineReport
  <2>1. report' \in Reports /\ report'.props = report.props
    BY <1>2, UpdateTypes DEF EngineReport
  <2> QED
    BY <1>2, <2>1 DEF EngineReport, ChannelsOK
<1>3. CASE SyncStep
  <2>1. CASE SyncGet
    <3>1. syn' \in Rounds
      BY <2>1, UpdateTypes DEF SyncGet
    <3> QED
      BY <2>1, <3>1 DEF SyncGet, ChannelsOK
  <2>2. CASE SyncSend
    <3>1. sent' \in Seq(Reports) /\ Len(sent') <= MaxQueue
      BY <1>0, <2>2, Channel DEF SyncSend, ChannelsOK
    <3> QED
      BY <2>2, <3>1 DEF SyncSend, ChannelsOK
  <2>3. CASE SyncDesire
    <3>1. desire' \in Desired /\ syn' \in Rounds
      BY <1>0, <2>3, RestTypes DEF SyncDesire, StoreDesire
    <3>2. DiffWithNil(desire', report) \in Patches
      BY <3>1, PatchTypes
    <3>3. events' \in Seq(Patches) /\ Len(events') <= MaxQueue
      BY <2>3, <3>2, DeliverTypes DEF SyncDesire, PublishOne, ChannelsOK
    <3>4. told' \in Nat
      BY <1>0, <2>3 DEF SyncDesire, PublishOne, Desired
    <3> QED
      BY <2>3, <3>1, <3>3, <3>4 DEF SyncDesire, ChannelsOK
  <2>4. CASE SyncDesireFails
    BY <2>4, RestTypes DEF SyncDesireFails, ChannelsOK
  <2> QED
    BY <1>3, <2>1, <2>2, <2>3, <2>4 DEF SyncStep
<1>4. CASE Dispatch
  <2>1. Head(inbox) \in Replies /\ inbox' \in Seq(Replies) /\ Len(inbox') <= MaxQueue
    BY <1>0, <1>4, Channel DEF Dispatch, ChannelsOK
  <2>2. desire' \in Desired /\ Head(inbox).desire \in Desired
    BY <1>4, <2>1 DEF Dispatch, StoreDesire, Replies
  <2>3. DiffWithNil(desire', report) \in Patches
    BY <2>2, PatchTypes
  <2>4. events' \in Seq(Patches) /\ Len(events') <= MaxQueue
    BY <1>4, <2>3, DeliverTypes DEF Dispatch, PublishBoth, ChannelsOK
  <2>5. told' \in Nat
    BY <1>4, <2>2 DEF Dispatch, PublishBoth, Desired
  <2> QED
    BY <1>4, <2>1, <2>2, <2>4, <2>5 DEF Dispatch, ChannelsOK
<1>5. CASE CloudStep
  <2>1. CASE Answer
    <3>1. syn' \in Rounds
      BY <2>1, RestTypes, UpdateTypes DEF Answer
    <3> QED
      BY <1>0, <2>1, <3>1 DEF Answer, ChannelsOK
  <2>2. CASE CloudTakes
    <3>1. Head(sent) \in Reports /\ sent' \in Seq(Reports) /\ Len(sent') <= MaxQueue
      BY <1>0, <2>2, Channel DEF CloudTakes, ChannelsOK
    <3>2. [kind |-> "report", desire |-> cloud] \in Replies
      BY DEF Replies
    <3>3. inbox' \in Seq(Replies) /\ Len(inbox') <= MaxQueue
      BY <1>0, <2>2, <3>2, Channel DEF CloudTakes, ChannelsOK
    <3> QED
      BY <2>2, <3>1, <3>3 DEF CloudTakes, ChannelsOK
  <2> QED
    BY <1>5, <2>1, <2>2 DEF CloudStep
<1>6. CASE ProcessStep
  <2>1. CASE Subscribe
    BY <2>1 DEF Subscribe, ChannelsOK
  <2>2. CASE CloseEnds
    BY <1>0, <2>2, RestTypes DEF CloseEnds, Ended, ChannelsOK
  <2>3. CASE Restart
    BY <2>3 DEF Restart, ChannelsOK
  <2> QED
    BY <1>6, <2>1, <2>2, <2>3 DEF ProcessStep
<1>u. ASSUME NEW c \in Clients, NEW delta \in Patches, UpdateGet(c, delta)
      PROVE  client' \in [Clients -> Requests]
  <2>1. [pc |-> "got", patch |-> delta, snap |-> report] \in Requests
    BY DEF Requests
  <2> QED
    BY <1>u, <2>1 DEF UpdateGet
<1>7. CASE Respond
  <2>1. Head(events) \in Patches /\ events' \in Seq(Patches) /\ Len(events') <= MaxQueue
    BY <1>0, <1>7, Channel DEF Respond, ChannelsOK
  <2>2. client' \in [Clients -> Requests]
    BY <1>7, <1>u, <2>1 DEF Respond, Clients
  <2> QED
    BY <1>7, <2>1, <2>2 DEF Respond, ChannelsOK
<1>8. ASSUME NEW c \in Clients, UpdatePut(c)
      PROVE  ShadowInv'
  <2>1. /\ report' \in Reports
        /\ report'.props = Patch(client[c].snap.props, client[c].patch)
    BY <1>0, <1>8, UpdateTypes DEF UpdatePut
  <2>2. report'.props \in Props
    BY <2>1 DEF Reports
  <2>3. intended' = report'.props
    BY <1>8, <2>1 DEF UpdatePut
  <2>4. client' \in [Clients -> Requests]
    BY <1>8, RestTypes DEF UpdatePut
  <2> QED
    BY <1>8, <2>1, <2>2, <2>3, <2>4 DEF UpdatePut, ChannelsOK
<1>9. CASE PatchOne
  <2>1. client' \in [Clients -> Requests]
    BY <1>9, <1>u, WishesAssumption DEF PatchOne, Clients
  <2> QED
    BY <1>9, <2>1 DEF PatchOne, ChannelsOK
<1>10. CASE SetDesire
  <2>1. cloud' \in Desired
    BY <1>10, WishesAssumption DEF SetDesire, Desired
  <2> QED
    BY <1>10, <2>1 DEF SetDesire, ChannelsOK
<1>11. CASE RequestFails
  BY <1>0, <1>11, RestTypes DEF RequestFails, ChannelsOK
<1>12. CASE CloudPushes
  <2>1. [kind |-> "props", desire |-> [cloud EXCEPT !.devices = 0]] \in Replies
    BY UpdateTypes DEF Replies
  <2>2. inbox' \in Seq(Replies) /\ Len(inbox') <= MaxQueue
    BY <1>0, <1>12, <2>1, Channel DEF CloudPushes, ChannelsOK
  <2> QED
    BY <1>12, <2>2 DEF CloudPushes, ChannelsOK
<1>13. CASE Lose
  <2>1. ChannelsOK'
    BY <1>0, <1>13, Channel DEF Lose, ChannelsOK
  <2> QED
    BY <1>13, <2>1 DEF Lose
<1>14. CASE Close
  BY <1>14 DEF Close, ChannelsOK
<1>15. CASE Crash
  BY <1>0, <1>15, RestTypes DEF Crash, Ended, ChannelsOK
<1>16. CASE UNCHANGED vars
  BY <1>16 DEF vars, ChannelsOK
<1> QED
  BY <1>1, <1>2, <1>3, <1>4, <1>5, <1>6, <1>7, <1>8, <1>9, <1>10, <1>11, <1>12, <1>13,
     <1>14, <1>15, <1>16 DEF Next

\* The shadow is well formed, and agrees with the patches, in every state.
THEOREM ShadowCorrect == Spec => []ShadowInv
  BY ShadowInit, ShadowStep, PTL DEF Spec

\* Types, for every set of keys and values, every scenario and all bounds:
\* no channel ever holds more than MaxQueue messages.
THEOREM ShadowTypesCorrect == Spec => []TypeOK
<1>1. ShadowInv => TypeOK
  <2> SUFFICES ASSUME ShadowInv
               PROVE  TypeOK
    OBVIOUS
  <2>1. syn.msg \in Desired /\ syn.snap \in Reports
    BY DEF ShadowInv, ShadowTypes, Rounds
  <2>2. \A c \in Clients : client[c].patch \in Patches /\ client[c].snap \in Reports
    BY DEF ShadowInv, ShadowTypes, Requests
  <2>3. \A i \in DOMAIN events : events[i] \in Patches
    BY DEF ShadowInv, ShadowTypes, ChannelsOK
  <2> QED
    BY <2>1, <2>2, <2>3 DEF ShadowInv, ShadowTypes, ChannelsOK, TypeOK, Reports, Desired
<1> QED
  BY <1>1, ShadowCorrect, PTL

\* A confirmed change of the node properties stays until another change, for
\* any number of clients' patches, reports, crashes and restarts: the
\* reports of the engine merge, sync writes the desire only, and an
\* UpdateNodeProperties that nothing overlapped wrote its patch.
THEOREM PatchesKeptCorrect == Spec => []PatchesKept
<1>1. ShadowInv => PatchesKept
  BY DEF ShadowInv
<1> QED
  BY <1>1, ShadowCorrect, PTL
=============================================================================
