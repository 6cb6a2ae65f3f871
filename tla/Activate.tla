------------------------------ MODULE Activate ------------------------------
(***************************************************************************)
(* Activation of the node by baetyl-init (initz).  NewInitialize activates *)
(* when there is no certificate file, waits for one signal and goes on     *)
(* with the identity it finds on disk.  Activations are made either by one *)
(* goroutine with a ticker or by the handlers of a local web server, which *)
(* run concurrently.  Every activation the cloud accepts gets a new        *)
(* certificate and key, and writes them file by file.  The pages and       *)
(* answers of the web server are left out.                                 *)
(***************************************************************************)
EXTENDS Naturals, Sequences, FiniteSets

CONSTANTS Ticker,    \* the goroutine of activating
          Handlers,  \* requests to the web server, each with a goroutine
          Modes,     \* "timer" or "server": whether a Listen address is configured
          MaxActs,   \* bound: activations begun
          MaxFaults  \* bound: refusals, failing writes, failing listens, crashes

ASSUME WorkersAssumption == Ticker \notin Handlers
ASSUME ModesAssumption == Modes \subseteq {"timer", "server"}
ASSUME BoundsAssumption == MaxActs \in Nat /\ MaxFaults \in Nat

Workers == Handlers \cup {Ticker}

\* genCert writes the files in this order.
Files == <<"ca", "cert", "key">>
FileSet == {"ca", "cert", "key"}
Absent == 0             \* no file
Torn == MaxActs + 1     \* a file that was truncated and not written yet
Ids == 1..MaxActs       \* the activation a file belongs to

VARIABLES mode,     \* how activations are made, a matter of configuration
          disk,     \* [FileSet -> Absent, Torn or the activation it comes from]
          sig,      \* signals in the channel, which has room for one
          main,     \* the goroutine of NewInitialize
          serving,  \* the web server accepts requests
          wk,       \* the workers
          acts, faults

vars == <<mode, disk, sig, main, serving, wk, acts, faults>>

Idle == [pc |-> "idle", id |-> Absent, next |-> 1, open |-> FALSE]

Init == /\ mode \in Modes
        /\ disk = [f \in FileSet |-> Absent]
        /\ sig = 0
        /\ main = "boot"
        /\ serving = FALSE
        /\ wk = [w \in Workers |-> Idle]
        /\ acts = 0
        /\ faults = MaxFaults

Fault == faults > 0 /\ faults' = faults - 1

\* ExtractNodeInfo can load the certificate: the files are whole, and
\* certificate and key are of the same activation.
Usable == /\ \A f \in FileSet : disk[f] \in Ids
          /\ disk["cert"] = disk["key"]

-----------------------------------------------------------------------------
(* NewInitialize.                                                          *)

\* "to activate if no node cert": any file will do.
Boot == /\ main = "boot"
        /\ IF disk["cert"] = Absent
           THEN main' = "wait" /\ serving' = (mode = "server")
           ELSE main' = "extract" /\ UNCHANGED serving
        /\ UNCHANGED <<mode, disk, sig, wk, acts, faults>>

\* The port is taken: startServer returns and nobody listens.
ListenFails == /\ main = "wait" /\ serving /\ acts = 0 /\ Fault
               /\ serving' = FALSE
               /\ UNCHANGED <<mode, disk, sig, main, wk, acts>>

\* WaitAndClose receives one signal and closes: Shutdown of the server, or
\* the tomb of the ticker goroutine.
Receive == /\ main = "wait" /\ sig > 0
           /\ sig' = sig - 1
           /\ main' = "close"
           /\ serving' = FALSE
           /\ UNCHANGED <<mode, disk, wk, acts, faults>>

\* Mutant: Close does not wait.
CloseDoneAtOnce == /\ main = "close"
                   /\ main' = "extract"
                   /\ UNCHANGED <<mode, disk, sig, serving, wk, acts, faults>>

\* Both wait until no goroutine of theirs is left.
CloseDone == /\ main = "close"
             /\ \A w \in Workers : wk[w].pc = IF w = Ticker /\ mode = "timer" THEN "dead" ELSE "idle"
             /\ main' = "extract"
             /\ UNCHANGED <<mode, disk, sig, serving, wk, acts, faults>>

\* ExtractNodeInfo: an error ends the process.
Extract == /\ main = "extract"
           /\ main' = IF Usable THEN "running" ELSE "exited"
           /\ UNCHANGED <<mode, disk, sig, serving, wk, acts, faults>>

\* The supervisor starts a process that ended.
Restarted == /\ main' = "boot"
             /\ sig' = 0
             /\ serving' = FALSE
             /\ wk' = [w \in Workers |-> Idle]

Restart == /\ main = "exited" /\ Restarted
           /\ UNCHANGED <<mode, disk, acts, faults>>

Crash == /\ Fault /\ Restarted
         /\ UNCHANGED <<mode, disk, acts>>

-----------------------------------------------------------------------------
(* activate, called by worker w.                                           *)

Worker(w, r) == wk' = [wk EXCEPT ![w] = r]

\* A tick, also one that Go's select prefers to the dying tomb, or a request.
Begin(w) ==
  /\ wk[w].pc = "idle" /\ acts < MaxActs
  /\ IF w = Ticker THEN mode = "timer" /\ main \in {"wait", "close"} ELSE serving
  /\ acts' = acts + 1
  /\ Worker(w, [Idle EXCEPT !.pc = "post", !.id = acts + 1])
  /\ UNCHANGED <<mode, disk, sig, main, serving, faults>>

\* The cloud accepts the node.
Accepted(w) == /\ wk[w].pc = "post"
               /\ Worker(w, [wk[w] EXCEPT !.pc = "write"])
               /\ UNCHANGED <<mode, disk, sig, main, serving, acts, faults>>

\* The request or a write fails; what was written stays.
Fails(w) == /\ wk[w].pc \in {"post", "write"} /\ Fault
            /\ Worker(w, Idle)
            /\ UNCHANGED <<mode, disk, sig, main, serving, acts>>

\* CreateWriteFile: the file is truncated ...
OpenFile(w) == /\ wk[w].pc = "write" /\ ~wk[w].open
               /\ disk' = [disk EXCEPT ![Files[wk[w].next]] = Torn]
               /\ Worker(w, [wk[w] EXCEPT !.open = TRUE])
               /\ UNCHANGED <<mode, sig, main, serving, acts, faults>>

\* ... and written.
WriteFile(w) ==
  /\ wk[w].pc = "write" /\ wk[w].open
  /\ disk' = [disk EXCEPT ![Files[wk[w].next]] = wk[w].id]
  /\ Worker(w, IF wk[w].next = Len(Files) THEN [wk[w] EXCEPT !.pc = "sig"]
               ELSE [wk[w] EXCEPT !.open = FALSE, !.next = @ + 1])
  /\ UNCHANGED <<mode, sig, main, serving, acts, faults>>

\* Mutant: the signal is forgotten.
SendForgets(w) == /\ wk[w].pc = "sig"
                  /\ Worker(w, Idle)
                  /\ UNCHANGED <<mode, disk, sig, main, serving, acts, faults>>

\* active.sig <- true blocks while the channel is full.
Send(w) == /\ wk[w].pc = "sig" /\ sig < 1
           /\ sig' = sig + 1
           /\ Worker(w, Idle)
           /\ UNCHANGED <<mode, disk, main, serving, acts, faults>>

\* The ticker goroutine sees that its tomb is dying.
Die(w) == /\ w = Ticker /\ mode = "timer" /\ main = "close" /\ wk[w].pc = "idle"
          /\ Worker(w, [Idle EXCEPT !.pc = "dead"])
          /\ UNCHANGED <<mode, disk, sig, main, serving, acts, faults>>

MainStep == Boot \/ Receive \/ CloseDone \/ Extract \/ Restart
ActivateStep(w) == Accepted(w) \/ OpenFile(w) \/ WriteFile(w) \/ Send(w)

Next == \/ MainStep \/ ListenFails \/ Crash
        \/ \E w \in Workers : \/ Begin(w) \/ ActivateStep(w) \/ Fails(w) \/ Die(w)

(***************************************************************************)
(* Fairness: goroutines run, the cloud answers, the ticker fires.  The     *)
(* select between a tick and the dying tomb is random, so it does not      *)
(* prefer the tick for ever.  Nobody has to make a request.                *)
(***************************************************************************)
Spec == /\ Init /\ [][Next]_vars
        /\ WF_vars(MainStep) /\ WF_vars(Begin(Ticker)) /\ SF_vars(Die(Ticker))
        /\ \A w \in Workers : WF_vars(ActivateStep(w))
-----------------------------------------------------------------------------
\* Every variable has its type; the channel never holds more than it can.
TypeOK == /\ mode \in Modes
          /\ disk \in [FileSet -> Ids \cup {Absent, Torn}]
          /\ sig \in 0..1
          /\ main \in {"boot", "wait", "close", "extract", "running", "exited"}
          /\ serving \in BOOLEAN
          /\ wk \in [Workers -> [pc : {"idle", "post", "write", "sig", "dead"},
                                 id : Ids \cup {Absent}, next : 1..Len(Files), open : BOOLEAN]]
          /\ acts \in 0..MaxActs /\ faults \in 0..MaxFaults

\* Once baetyl-init has gone on, the certificate and the key on its disk
\* are whole and belong together, and stay so: Close has waited for every
\* goroutine that could still write them (activate.go, lines 108-121).
RunningHasIdentity == main = "running" => Usable

\* The node has a certificate file it cannot use and will not ask for
\* another one: nobody is activating and NewInitialize skips activation.
LockedOut == main \in {"boot", "extract", "exited"} /\ disk["cert"] # Absent /\ ~Usable

\* With one activating goroutine only a fault (a crash or a write that
\* failed) locks the node out.
LockOutNeedsFault == LockedOut => faults < MaxFaults \/ mode = "server"

\* The channel is full, nobody receives any more, and Close waits for the
\* goroutine that wants to send.
Jammed == main = "close" /\ sig = 1 /\ \E w \in Workers : wk[w].pc = "sig"

\* With the ticker baetyl-init goes on, or is jammed or locked out: there is
\* no other way to stay.
Proceeds == mode = "timer" => <>(main = "running" \/ Jammed \/ LockedOut)

\* "responsible for activating the edge node to the cloud and initializing
\* baetyl-core": baetyl-init gets past its activation.
Activates == <>(main = "running")
=============================================================================
