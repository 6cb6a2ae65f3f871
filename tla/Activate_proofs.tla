-------------------------- MODULE Activate_proofs --------------------------
(***************************************************************************)
(* Proofs about module Activate, for any number of handlers, activations   *)
(* and faults.                                                             *)
(***************************************************************************)
EXTENDS Activate, TLAPS

\* The files are the three of genCert, in its order.
LEMMA FilesFact ==
  /\ Len(Files) = 3
  /\ Files[1] = "ca" /\ Files[2] = "cert" /\ Files[3] = "key"
  /\ \A n \in 1..3 : Files[n] \in FileSet
  BY DEF Files, FileSet

-----------------------------------------------------------------------------
(* Types.                                                                  *)

Record == [pc : {"idle", "post", "write", "sig", "dead"}, id : Ids \cup {Absent},
           next : 1..3, open : BOOLEAN]

\* The records that steps give a worker have their type.
LEMMA RecordTypes ==
  /\ Idle \in Record
  /\ [Idle EXCEPT !.pc = "dead"] \in Record
  /\ \A n \in Ids : [Idle EXCEPT !.pc = "post", !.id = n] \in Record
  /\ \A r \in Record : /\ [r EXCEPT !.pc = "write"] \in Record
                       /\ [r EXCEPT !.pc = "sig"] \in Record
                       /\ [r EXCEPT !.open = TRUE] \in Record
                       /\ r.next # 3 => [r EXCEPT !.open = FALSE, !.next = @ + 1] \in Record
<1>1. Idle \in Record
  BY DEF Record, Idle
<1>4. ASSUME NEW r \in Record, NEW n \in Ids \cup {Absent}, NEW l \in {"post", "dead"}
      PROVE  /\ [r EXCEPT !.pc = l, !.id = n] \in Record
             /\ [r EXCEPT !.pc = l] \in Record
  BY DEF Record
<1>2. ASSUME NEW r \in Record
      PROVE  /\ [r EXCEPT !.pc = "write"] \in Record
             /\ [r EXCEPT !.pc = "sig"] \in Record
             /\ [r EXCEPT !.open = TRUE] \in Record
  BY DEF Record
<1>3. ASSUME NEW r \in Record, r.next # 3
      PROVE  [r EXCEPT !.open = FALSE, !.next = @ + 1] \in Record
  <2>1. r.next + 1 \in 1..3
    BY <1>3 DEF Record
  <2> QED
    BY <2>1 DEF Record
<1> QED
  BY <1>1, <1>2, <1>3, <1>4

\* Every step keeps the types.
LEMMA TypeStep == TypeOK /\ [Next]_vars => TypeOK'
<1> SUFFICES ASSUME TypeOK, [Next]_vars
             PROVE  TypeOK'
  OBVIOUS
<1>0. /\ wk \in [Workers -> Record] /\ Ids \subseteq Nat /\ MaxActs \in Nat /\ MaxFaults \in Nat
      /\ Absent \notin Ids /\ Torn \notin Ids
  BY FilesFact, BoundsAssumption DEF TypeOK, Record, Ids, Absent, Torn
<1>w. ASSUME NEW w \in Workers, NEW r \in Record, Worker(w, r)
      PROVE  wk' \in [Workers -> Record]
  BY <1>0, <1>w DEF Worker
<1>r. ASSUME wk' \in [Workers -> Record]
      PROVE  wk' \in [Workers -> [pc : {"idle", "post", "write", "sig", "dead"},
                                 id : Ids \cup {Absent}, next : 1..Len(Files), open : BOOLEAN]]
  BY <1>r, FilesFact DEF Record
<1>1. CASE Boot
  <2>1. main' \in {"wait", "extract"} /\ UNCHANGED <<mode, disk, sig, wk, acts, faults>>
    BY <1>1 DEF Boot
  <2>2. serving' \in BOOLEAN
    BY <1>1, Zenon DEF Boot, TypeOK
  <2> QED
    BY <2>1, <2>2 DEF TypeOK
<1>2. CASE ListenFails
  <2>1. faults' \in 0..MaxFaults
    BY <1>2, <1>0 DEF ListenFails, Fault, TypeOK
  <2>2. serving' \in BOOLEAN /\ UNCHANGED <<mode, disk, sig, main, wk, acts>>
    BY <1>2, Zenon DEF ListenFails
  <2> QED
    BY <2>1, <2>2 DEF TypeOK
<1>3. CASE Receive
  <2>1. sig' \in 0..1
    BY <1>3 DEF Receive, TypeOK
  <2> QED
    BY <1>3, <2>1 DEF Receive, TypeOK
<1>4. CASE CloseDone
  BY <1>4 DEF CloseDone, TypeOK
<1>5. CASE Extract
  BY <1>5 DEF Extract, TypeOK
<1>6. ASSUME Restarted
      PROVE  /\ main' = "boot" /\ sig' = 0 /\ serving' = FALSE
             /\ wk' \in [Workers -> Record]
  BY <1>6, RecordTypes DEF Restarted
<1>7. CASE Restart
  BY <1>7, <1>6, <1>r DEF Restart, TypeOK
<1>8. CASE Crash
  BY <1>8, <1>6, <1>r, <1>0 DEF Crash, Fault, TypeOK
<1>9. ASSUME NEW w \in Workers, Begin(w)
      PROVE  TypeOK'
  <2>1. acts + 1 \in Ids
    BY <1>9, <1>0 DEF Begin, TypeOK, Ids
  <2>2. wk' \in [Workers -> Record]
    BY <1>9, <1>w, <2>1, RecordTypes DEF Begin
  <2> QED
    BY <1>9, <2>1, <2>2, <1>r, <1>0 DEF Begin, TypeOK, Ids
<1>10. ASSUME NEW w \in Workers, Accepted(w)
       PROVE  TypeOK'
  <2>1. wk' \in [Workers -> Record]
    BY <1>10, <1>w, <1>0, RecordTypes DEF Accepted
  <2> QED
    BY <1>10, <2>1, <1>r DEF Accepted, TypeOK
<1>11. ASSUME NEW w \in Workers, Fails(w)
       PROVE  TypeOK'
  <2>1. wk' \in [Workers -> Record]
    BY <1>11, <1>w, RecordTypes DEF Fails
  <2> QED
    BY <1>11, <2>1, <1>r, <1>0 DEF Fails, Fault, TypeOK
<1>12. ASSUME NEW w \in Workers, OpenFile(w)
       PROVE  TypeOK'
  <2>1. wk' \in [Workers -> Record]
    BY <1>12, <1>w, <1>0, RecordTypes DEF OpenFile
  <2>2. Files[wk[w].next] \in FileSet
    BY <1>0, FilesFact DEF Record
  <2>3. disk' \in [FileSet -> Ids \cup {Absent, Torn}]
    BY <1>12, <2>2 DEF OpenFile, TypeOK
  <2> QED
    BY <1>12, <2>1, <2>3, <1>r DEF OpenFile, TypeOK
<1>13. ASSUME NEW w \in Workers, WriteFile(w)
       PROVE  TypeOK'
  <2>1. wk' \in [Workers -> Record]
    BY <1>13, <1>w, <1>0, RecordTypes, FilesFact DEF WriteFile
  <2>2. Files[wk[w].next] \in FileSet /\ wk[w].id \in Ids \cup {Absent}
    BY <1>0, FilesFact DEF Record
  <2>3. disk' \in [FileSet -> Ids \cup {Absent, Torn}]
    BY <1>13, <2>2 DEF WriteFile, TypeOK
  <2> QED
    BY <1>13, <2>1, <2>3, <1>r DEF WriteFile, TypeOK
<1>14. ASSUME NEW w \in Workers, Send(w)
       PROVE  TypeOK'
  <2>1. wk' \in [Workers -> Record]
    BY <1>14, <1>w, RecordTypes DEF Send
  <2> QED
    BY <1>14, <2>1, <1>r DEF Send, TypeOK
<1>15. ASSUME NEW w \in Workers, Die(w)
       PROVE  TypeOK'
  <2>1. wk' \in [Workers -> Record]
    BY <1>15, <1>w, RecordTypes DEF Die
  <2> QED
    BY <1>15, <2>1, <1>r DEF Die, TypeOK
<1>16. CASE UNCHANGED vars
  BY <1>16 DEF vars, TypeOK
<1> QED
  BY <1>1, <1>2, <1>3, <1>4, <1>5, <1>7, <1>8, <1>9, <1>10, <1>11, <1>12, <1>13, <1>14,
     <1>15, <1>16 DEF Next, MainStep, ActivateStep

-----------------------------------------------------------------------------
(* Nobody writes once baetyl-init has gone on.                             *)

Resting(w) == wk[w].pc \in {"idle", "dead"}

\* Goroutines activate only while NewInitialize waits for them or closes
\* them, and requests are accepted only before it closes.
Quiet == /\ serving => main = "wait"
         /\ main \notin {"wait", "close"} => \A w \in Workers : Resting(w)

IdentityInv == TypeOK /\ Quiet /\ RunningHasIdentity

\* A goroutine that acts finds NewInitialize waiting for it or closing it.
LEMMA ActingWorker ==
  ASSUME TypeOK, Quiet, NEW w \in Workers,
         Begin(w) \/ ActivateStep(w) \/ Fails(w) \/ Die(w)
  PROVE  main \in {"wait", "close"} /\ UNCHANGED <<main, serving>>
<1>1. CASE Begin(w)
  BY <1>1 DEF Begin, Quiet
<1>2. CASE ActivateStep(w) \/ Fails(w)
  <2>1. wk[w].pc \in {"post", "write", "sig"} /\ UNCHANGED <<main, serving>>
    BY <1>2 DEF ActivateStep, Accepted, OpenFile, WriteFile, Send, Fails
  <2> QED
    BY <2>1 DEF Quiet, Resting
<1>3. CASE Die(w)
  BY <1>3 DEF Die
<1> QED
  BY <1>1, <1>2, <1>3

\* Every step keeps the files from changing under a running baetyl-init.
LEMMA IdentityStep == IdentityInv /\ [Next]_vars => IdentityInv'
<1> SUFFICES ASSUME TypeOK, Quiet, RunningHasIdentity, [Next]_vars
             PROVE  Quiet' /\ RunningHasIdentity'
  BY TypeStep DEF IdentityInv
<1>1. CASE Boot
  BY <1>1 DEF Boot, Quiet, Resting, RunningHasIdentity
<1>2. CASE ListenFails
  BY <1>2 DEF ListenFails, Quiet, Resting, RunningHasIdentity
<1>3. CASE Receive
  BY <1>3 DEF Receive, Quiet, Resting, RunningHasIdentity
<1>4. CASE CloseDone
  BY <1>4 DEF CloseDone, Quiet, Resting, RunningHasIdentity
<1>5. CASE Extract
  BY <1>5 DEF Extract, Quiet, Resting, RunningHasIdentity, Usable
<1>6. CASE Restart \/ Crash
  BY <1>6 DEF Restart, Crash, Restarted, Idle, Quiet, Resting, RunningHasIdentity
<1>7. ASSUME NEW w \in Workers, Begin(w) \/ ActivateStep(w) \/ Fails(w) \/ Die(w)
      PROVE  Quiet' /\ RunningHasIdentity'
  BY <1>7, ActingWorker DEF Quiet, RunningHasIdentity
<1>8. CASE UNCHANGED vars
  BY <1>8 DEF vars, Quiet, Resting, RunningHasIdentity, Usable
<1> QED
  BY <1>1, <1>2, <1>3, <1>4, <1>5, <1>6, <1>7, <1>8 DEF Next, MainStep

\* In the beginning nobody writes.
LEMMA IdentityInit == Init => IdentityInv
<1> SUFFICES ASSUME Init
             PROVE  IdentityInv
  OBVIOUS
<1>1. TypeOK
  <2>1. wk \in [Workers -> Record]
    BY RecordTypes DEF Init
  <2>2. wk \in [Workers -> [pc : {"idle", "post", "write", "sig", "dead"},
                           id : Ids \cup {Absent}, next : 1..Len(Files), open : BOOLEAN]]
    BY <2>1, FilesFact DEF Record
  <2>3. acts \in 0..MaxActs /\ faults \in 0..MaxFaults /\ sig \in 0..1
    BY BoundsAssumption DEF Init
  <2>4. disk \in [FileSet -> Ids \cup {Absent, Torn}]
    BY DEF Init
  <2> QED
    BY <2>2, <2>3, <2>4 DEF Init, TypeOK
<1> QED
  BY <1>1 DEF Init, IdentityInv, Quiet, Resting, Idle, RunningHasIdentity

-----------------------------------------------------------------------------
(* One goroutine and no fault.                                             *)

NoFiles == \A f \in FileSet : disk[f] = Absent

\* The activation under way has written the files before the current one.
Progress ==
  LET t == wk[Ticker]
  IN  /\ t.id \in Ids
      /\ \A n \in 1..3 : n < t.next => disk[Files[n]] = t.id

\* What the ticker goroutine is doing, and what that means for the disk.
TickerInv ==
  LET t == wk[Ticker]
  IN  /\ t.pc \in {"idle", "post", "dead"} =>
           Usable \/ (NoFiles /\ sig = 0 /\ main \notin {"close", "extract", "running"})
      /\ t.pc = "post" => t.id \in Ids /\ t.next = 1
      /\ t.pc = "write" => Progress
      /\ t.pc = "sig" => Usable

Orderly == /\ ~serving /\ main # "exited"
           /\ \A w \in Handlers : wk[w].pc = "idle"
           /\ main = "boot" => NoFiles
           /\ TickerInv

\* Without a fault, and with one goroutine, every activation is completed.
OrderlyInv == mode = "timer" /\ faults = MaxFaults => Orderly

ActivateInv == IdentityInv /\ OrderlyInv

\* A step of the ticker goroutine leaves what it is doing in order.
LEMMA TickerStep ==
  ASSUME TypeOK, Quiet, Orderly, Begin(Ticker) \/ ActivateStep(Ticker) \/ Die(Ticker)
  PROVE  TickerInv'
<1> DEFINE t == wk[Ticker]
<1>0. /\ t \in Record /\ Ticker \in Workers /\ wk \in [Workers -> Record]
      /\ disk \in [FileSet -> Ids \cup {Absent, Torn}]
      /\ t.next \in 1..3 /\ MaxActs \in Nat
  BY FilesFact, BoundsAssumption DEF TypeOK, Record, Workers
<1>1. CASE Begin(Ticker)
  <2>1. /\ wk'[Ticker].pc = "post" /\ wk'[Ticker].id = acts + 1 /\ wk'[Ticker].next = 1
        /\ t.pc = "idle" /\ UNCHANGED <<disk, sig, main>> /\ acts < MaxActs
    BY <1>0, <1>1 DEF Begin, Worker, Idle
  <2>2. acts + 1 \in Ids
    BY <1>0, <2>1 DEF TypeOK, Ids
  <2> QED
    BY <2>1, <2>2 DEF Orderly, TickerInv, Usable, NoFiles
<1>2. CASE Accepted(Ticker)
  <2>1. /\ wk'[Ticker].pc = "write" /\ wk'[Ticker].id = t.id /\ wk'[Ticker].next = t.next
        /\ t.pc = "post" /\ UNCHANGED <<disk, sig, main>>
    BY <1>0, <1>2 DEF Accepted, Worker, Record
  <2>2. t.id \in Ids /\ t.next = 1
    BY <2>1 DEF Orderly, TickerInv
  <2> QED
    BY <2>1, <2>2 DEF TickerInv, Progress
<1>3. CASE OpenFile(Ticker)
  <2>1. /\ wk'[Ticker].pc = "write" /\ wk'[Ticker].id = t.id /\ wk'[Ticker].next = t.next
        /\ t.pc = "write" /\ disk' = [disk EXCEPT ![Files[t.next]] = Torn]
    BY <1>0, <1>3 DEF OpenFile, Worker, Record
  <2>2. t.id \in Ids /\ \A n \in 1..3 : n < t.next => disk[Files[n]] = t.id
    BY <2>1 DEF Orderly, TickerInv, Progress
  <2>3. \A n \in 1..3 : n < t.next => disk'[Files[n]] = t.id
    BY <1>0, <2>1, <2>2, FilesFact
  <2> QED
    BY <2>1, <2>2, <2>3 DEF TickerInv, Progress
<1>4. CASE WriteFile(Ticker)
  <2>1. /\ t.pc = "write" /\ disk' = [disk EXCEPT ![Files[t.next]] = t.id]
        /\ UNCHANGED <<sig, main>>
    BY <1>4 DEF WriteFile
  <2>2. t.id \in Ids /\ \A n \in 1..3 : n < t.next => disk[Files[n]] = t.id
    BY <2>1 DEF Orderly, TickerInv, Progress
  <2>3. \A n \in 1..3 : n < t.next + 1 => disk'[Files[n]] = t.id
    BY <1>0, <2>1, <2>2, FilesFact
  <2>4. CASE t.next = 3
    <3>1. wk'[Ticker].pc = "sig"
      BY <1>0, <1>4, <2>4, FilesFact DEF WriteFile, Worker, Record
    <3>2. Usable'
      BY <2>2, <2>3, <2>4, FilesFact DEF Usable, FileSet
    <3> QED
      BY <3>1, <3>2 DEF TickerInv
  <2>5. CASE t.next # 3
    <3>1. /\ wk'[Ticker].pc = "write" /\ wk'[Ticker].id = t.id
          /\ wk'[Ticker].next = t.next + 1
      BY <1>0, <1>4, <2>1, <2>5, FilesFact DEF WriteFile, Worker, Record
    <3> QED
      BY <2>2, <2>3, <3>1 DEF TickerInv, Progress
  <2> QED
    BY <2>4, <2>5
<1>5. CASE Send(Ticker)
  <2>1. wk'[Ticker].pc = "idle" /\ t.pc = "sig" /\ UNCHANGED disk
    BY <1>0, <1>5 DEF Send, Worker, Idle
  <2> QED
    BY <2>1 DEF Orderly, TickerInv, Usable
<1>6. CASE Die(Ticker)
  <2>1. /\ wk'[Ticker].pc = "dead" /\ t.pc = "idle" /\ main = "close"
        /\ UNCHANGED <<disk, sig, main>>
    BY <1>0, <1>6 DEF Die, Worker, Idle
  <2> QED
    BY <2>1 DEF Orderly, TickerInv, Usable, NoFiles
<1> QED
  BY <1>1, <1>2, <1>3, <1>4, <1>5, <1>6 DEF ActivateStep

\* Every step keeps the order.
LEMMA OrderlyStep == ActivateInv /\ [Next]_vars => OrderlyInv'
<1> SUFFICES ASSUME TypeOK, Quiet, OrderlyInv, [Next]_vars, mode' = "timer", faults' = MaxFaults
             PROVE  Orderly'
  BY DEF ActivateInv, IdentityInv, OrderlyInv
<1>0. /\ mode = "timer" /\ faults = MaxFaults /\ ~Fault
  <2>1. UNCHANGED mode
    BY DEF Next, MainStep, Boot, Receive, CloseDone, Extract, Restart, ListenFails, Crash, Begin,
           ActivateStep, Accepted, OpenFile, WriteFile, Send, Fails, Die, vars
  <2>2. UNCHANGED faults \/ Fault
    BY DEF Next, MainStep, Boot, Receive, CloseDone, Extract, Restart, ListenFails, Crash, Begin,
           ActivateStep, Accepted, OpenFile, WriteFile, Send, Fails, Die, vars
  <2>3. faults \in 0..MaxFaults /\ MaxFaults \in Nat
    BY BoundsAssumption DEF TypeOK
  <2> QED
    BY <2>1, <2>2, <2>3 DEF Fault
<1>1. Orderly
  BY <1>0 DEF OrderlyInv
<1>2. CASE Boot
  <2>1. disk["cert"] = Absent
    BY <1>1, <1>2 DEF Boot, Orderly, NoFiles, FileSet
  <2>2. main' = "wait" /\ ~serving' /\ UNCHANGED <<disk, sig, wk>>
    BY <1>0, <1>2, <2>1 DEF Boot
  <2> QED
    BY <1>1, <2>2 DEF Orderly, TickerInv, Usable, NoFiles, Progress
<1>3. CASE Receive
  <2>1. sig > 0 /\ main' = "close" /\ ~serving' /\ UNCHANGED <<disk, wk>>
    BY <1>3 DEF Receive
  <2> QED
    BY <1>1, <2>1 DEF Orderly, TickerInv, Usable, Progress
<1>4. CASE CloseDone
  <2>1. main = "close" /\ main' = "extract" /\ UNCHANGED <<disk, sig, wk, serving>>
    BY <1>4 DEF CloseDone
  <2> QED
    BY <1>1, <2>1 DEF Orderly, TickerInv, Usable, Progress
<1>5. CASE Extract
  <2>1. wk[Ticker].pc \in {"idle", "dead"}
    BY <1>5 DEF Extract, Quiet, Resting, Workers
  <2>2. Usable
    BY <1>1, <1>5, <2>1 DEF Orderly, TickerInv, Extract
  <2>3. main' = "running" /\ UNCHANGED <<disk, sig, wk, serving>>
    BY <1>5, <2>2 DEF Extract
  <2> QED
    BY <1>1, <2>2, <2>3 DEF Orderly, TickerInv, Usable, Progress
<1>6. CASE Restart
  BY <1>1, <1>6 DEF Restart, Orderly
<1>7. CASE ListenFails \/ Crash
  BY <1>0, <1>7 DEF ListenFails, Crash
<1>8. ASSUME NEW w \in Workers, Begin(w) \/ ActivateStep(w) \/ Fails(w) \/ Die(w)
      PROVE  Orderly'
  <2>1. ~Fails(w)
    BY <1>0 DEF Fails
  <2>2. w = Ticker
    BY <1>1, <1>8, <2>1 DEF Orderly, Workers, Begin, ActivateStep, Accepted, OpenFile, WriteFile,
                            Send, Die
  <2>3. TickerInv'
    BY <1>1, <1>8, <2>1, <2>2, TickerStep
  <2>4. main \in {"wait", "close"} /\ UNCHANGED <<main, serving>>
    BY <1>8, ActingWorker
  <2>5. \A v \in Handlers : wk'[v] = wk[v]
    BY <1>8, <2>1, <2>2, WorkersAssumption
       DEF TypeOK, Workers, Begin, ActivateStep, Accepted, OpenFile, WriteFile, Send, Die, Worker
  <2> QED
    BY <1>1, <2>3, <2>4, <2>5 DEF Orderly
<1>9. CASE UNCHANGED vars
  BY <1>1, <1>9 DEF vars, Orderly, TickerInv, Usable, NoFiles, Progress
<1> QED
  BY <1>2, <1>3, <1>4, <1>5, <1>6, <1>7, <1>8, <1>9 DEF Next, MainStep

-----------------------------------------------------------------------------
(* The theorems.                                                           *)

\* Types, the quiet of the goroutines once NewInitialize has gone on, and the
\* order in which one goroutine writes the files: the inductive invariant.
THEOREM ActivateCorrect == Spec => []ActivateInv
<1>1. Init => ActivateInv
  <2>1. Init => OrderlyInv
    BY DEF Init, OrderlyInv, Orderly, TickerInv, NoFiles, Idle, Workers
  <2> QED
    BY <2>1, IdentityInit DEF ActivateInv
<1>2. ActivateInv /\ [Next]_vars => ActivateInv'
  BY IdentityStep, OrderlyStep DEF ActivateInv
<1> QED
  BY <1>1, <1>2, PTL DEF Spec

\* For any number of requests, activations and faults: once baetyl-init has
\* gone on, its certificate and its key are whole and belong together
\* (activate.go, lines 108-121).
THEOREM RunningHasIdentityCorrect == Spec => []RunningHasIdentity
<1>1. ActivateInv => RunningHasIdentity
  BY DEF ActivateInv, IdentityInv
<1> QED
  BY <1>1, ActivateCorrect, PTL

\* With the ticker, only a crash or a failing write or request can leave a
\* certificate file that suppresses activation and is of no use
\* (NewInitialize, genCert).
THEOREM LockOutNeedsFaultCorrect == Spec => []LockOutNeedsFault
<1>1. ActivateInv => LockOutNeedsFault
  <2> SUFFICES ASSUME ActivateInv, LockedOut, ~(faults < MaxFaults), mode # "server"
               PROVE  FALSE
    BY DEF LockOutNeedsFault
  <2>1. mode = "timer" /\ faults = MaxFaults /\ MaxFaults \in Nat
    BY ModesAssumption, BoundsAssumption DEF ActivateInv, IdentityInv, TypeOK
  <2>2. Orderly
    BY <2>1 DEF ActivateInv, OrderlyInv
  <2>3. main = "extract" => Usable
    BY <2>2 DEF ActivateInv, IdentityInv, Quiet, Resting, Workers, Orderly, TickerInv
  <2> QED
    BY <2>2, <2>3 DEF LockedOut, Orderly, NoFiles, FileSet
<1> QED
  BY <1>1, ActivateCorrect, PTL
=============================================================================
