------------------------------- MODULE Chain --------------------------------
(***************************************************************************)
(* Remote debugging of baetyl-core: the handler of downside messages       *)
(* (engine/msg_handler.go) and the chains it keeps (chain/), each with a   *)
(* goroutine for its messages (the processor), one for the session with    *)
(* the remote side (connecting, logging) and one that reads its output.    *)
(*                                                                         *)
(* A chain is closed by the handler and, when its session fails, by its    *)
(* own session goroutine.  Close first waits for the processor to end and  *)
(* then closes the pipes.  Payloads and the metadata of messages are left  *)
(* out; upside messages are kept only as requests that await an answer.    *)
(***************************************************************************)
EXTENDS Naturals, Sequences, FiniteSets

CONSTANTS Keys,       \* namespace_name_container_token of a chain
          Kinds,      \* of the chains asked for: subset of {"shell", "ws", "logs"}
          Room,       \* messages a channel of the broker holds
          MaxChains,  \* bound: chains created
          MaxMsgs     \* bound: messages of the cloud

ASSUME KeysAssumption == Keys # {}
ASSUME KindsAssumption == Kinds \subseteq {"shell", "ws", "logs"}
ASSUME BoundsAssumption == {Room, MaxChains, MaxMsgs} \subseteq Nat

VARIABLES queue,   \* the channel of the downside topic
          hand,    \* the downside handler: [pc, msg, c]
          chains,  \* engineImpl.chains: key -> id of a chain, 0 for none
          chain,   \* id -> chain
          made,    \* number of chains created
          open,    \* requests that were not answered yet
          lost,    \* the broker has dropped a message
          left     \* messages the cloud may still send

vars == <<queue, hand, chains, chain, made, open, lost, left>>

Ids == 1..MaxChains

\* connect covers viewLogs, with kind "logs".  "request" stands for the
\* commands that are answered (labels, rpc, agent, describe).  What is
\* dropped without an answer, unknown commands and labels of several nodes
\* that cannot be parsed, has the effect of a disconnect without a chain.
Msgs == [op : {"connect"}, key : Keys, kind : Kinds]
        \cup [op : {"data", "disconnect"}, key : Keys]
        \cup [op : {"request"}]

NoMsg == [op |-> "none"]
Idle == [pc |-> "idle", msg |-> NoMsg, c |-> 0]

\* proc: the processor's goroutine; conn: the session's; read: chainReading.
\* sub: subscribed to the downside topic of its key; in, out: the pipes are
\* open; ctx: not cancelled; exit: Cancel is writing the exit command.
Unmade == [key |-> CHOOSE k \in Keys : TRUE, kind |-> "shell", sub |-> FALSE,
           inbox |-> <<>>, proc |-> "gone", dying |-> FALSE, timer |-> FALSE,
           conn |-> "over", read |-> FALSE,
           in |-> FALSE, out |-> FALSE, ctx |-> FALSE, exit |-> FALSE]

Init == /\ queue = <<>> /\ hand = Idle
        /\ chains = [k \in Keys |-> 0]
        /\ chain = [i \in Ids |-> Unmade]
        /\ made = 0 /\ open = 0 /\ lost = FALSE /\ left = MaxMsgs

-----------------------------------------------------------------------------
(* The broker: Publish gives up when the channel stays full.               *)

put(channel, m) == IF Len(channel) < Room THEN Append(channel, m) ELSE channel

Enqueue(m) == /\ queue' = put(queue, m)
              /\ lost' = (lost \/ Len(queue) >= Room)

\* Publish on the downside topic of key k.
Publish(k, m) ==
  LET subs == {i \in Ids : chain[i].sub /\ chain[i].key = k}
  IN  [i \in Ids |-> IF i \in subs THEN [chain[i] EXCEPT !.inbox = put(@, m)] ELSE chain[i]]

\* The link delivers a message and dispatch publishes it.
CloudSends(m) == /\ left > 0 /\ left' = left - 1
                 /\ Enqueue(m)
                 /\ open' = IF m.op = "request" /\ Len(queue) < Room THEN open + 1 ELSE open
                 /\ UNCHANGED <<hand, chains, chain, made>>

-----------------------------------------------------------------------------
(* chain.Close, in two parts around the wait for the processor.            *)

Dying(ch) == [ch EXCEPT !.dying = TRUE]

\* processor.Close has returned.
Ended(ch) == ch.proc = "gone"

\* Mutants of Released: no Unsubscribe; InWriter left open.
ReleasedSubscribed(ch) == [ch EXCEPT !.ctx = FALSE, !.in = FALSE, !.out = FALSE, !.exit = FALSE]
ReleasedInput(ch) == [ch EXCEPT !.ctx = FALSE, !.out = FALSE, !.sub = FALSE, !.inbox = <<>>]

\* cancel, close both writers, unsubscribe.
Released(ch) == [ch EXCEPT !.ctx = FALSE, !.in = FALSE, !.out = FALSE, !.exit = FALSE,
                           !.sub = FALSE, !.inbox = <<>>]

-----------------------------------------------------------------------------
(* The downside handler: one goroutine for all chains.                     *)

Take(op) == /\ hand.pc = "idle" /\ queue # <<>> /\ Head(queue).op = op
            /\ queue' = Tail(queue)

\* Mutant of Connect: the old chain of the key is left as it is.
ConnectBeside ==
  /\ Take("connect")
  /\ hand' = [pc |-> "create", msg |-> Head(queue), c |-> 0]
  /\ UNCHANGED <<chains, chain, made, open, lost, left>>

\* connect, viewLogs: the old chain of the key is closed first.
Connect ==
  /\ Take("connect")
  /\ LET m   == Head(queue)
         old == chains[m.key]
     IN  IF old = 0
         THEN /\ hand' = [pc |-> "create", msg |-> m, c |-> 0]
              /\ UNCHANGED chain
         ELSE /\ hand' = [pc |-> "close", msg |-> m, c |-> old]
              /\ chain' = [chain EXCEPT ![old] = Dying(@)]
  /\ UNCHANGED <<chains, made, open, lost, left>>

\* disconnect: the exit command is published before the chain is closed.
Disconnect ==
  /\ Take("disconnect")
  /\ LET m   == Head(queue)
         old == chains[m.key]
     IN  IF old = 0
         THEN UNCHANGED <<hand, chain>>
         ELSE /\ hand' = [pc |-> "close", msg |-> m, c |-> old]
              /\ chain' = [Publish(m.key, "exit") EXCEPT ![old] = Dying(@)]
  /\ UNCHANGED <<chains, made, open, lost, left>>

\* Close returns; the chain is deleted and connect goes on.
HandClosed ==
  /\ hand.pc = "close" /\ Ended(chain[hand.c])
  /\ chain' = [chain EXCEPT ![hand.c] = Released(@)]
  /\ chains' = [chains EXCEPT ![hand.msg.key] = 0]
  /\ hand' = IF hand.msg.op = "connect" THEN [hand EXCEPT !.pc = "create", !.c = 0] ELSE Idle
  /\ UNCHANGED <<queue, made, open, lost, left>>

\* NewChain subscribes; Debug and ViewLogs start the goroutines, in a new
\* tomb, so that starting them cannot fail.  They run before the chain is
\* stored.  A chain for logs has no timeout.
Create ==
  /\ hand.pc = "create" /\ made < MaxChains
  /\ made' = made + 1
  /\ chain' = [chain EXCEPT ![made + 1] =
                 [key |-> hand.msg.key, kind |-> hand.msg.kind, sub |-> TRUE, inbox |-> <<>>,
                  proc |-> "run", dying |-> FALSE, timer |-> hand.msg.kind # "logs",
                  conn |-> "dial", read |-> TRUE,
                  in |-> TRUE, out |-> TRUE, ctx |-> TRUE, exit |-> FALSE]]
  /\ hand' = [hand EXCEPT !.pc = "store", !.c = made + 1]
  /\ UNCHANGED <<queue, chains, open, lost, left>>

\* The metadata or the options are incomplete, or the broker refuses.
CreateFails == /\ hand.pc = "create"
               /\ hand' = Idle
               /\ UNCHANGED <<queue, chains, chain, made, open, lost, left>>

Store == /\ hand.pc = "store"
         /\ chains' = [chains EXCEPT ![hand.msg.key] = hand.c]
         /\ hand' = Idle
         /\ UNCHANGED <<queue, chain, made, open, lost, left>>

\* Data for a key without a chain is answered with a failure.  What the
\* user types may be the exit command.
Data == /\ Take("data")
        /\ LET k == Head(queue).key
           IN  IF chains[k] = 0 THEN UNCHANGED chain
               ELSE \E d \in {"data", "exit"} : chain' = Publish(k, d)
        /\ UNCHANGED <<hand, chains, made, open, lost, left>>

\* Mutant of Request: an early return that publishes nothing.
RequestSilent == /\ Take("request")
                 /\ UNCHANGED <<hand, chains, chain, made, open, lost, left>>

\* Success or failure, an answer is published.
Request == /\ Take("request")
           /\ open' = open - 1
           /\ UNCHANGED <<hand, chains, chain, made, lost, left>>

-----------------------------------------------------------------------------
(* The processor of chain i and its chainHandler.                          *)

Set(i, ch) == /\ chain' = [chain EXCEPT ![i] = ch]
              /\ UNCHANGED <<hand, chains, made, open, left>>

Receives(i, m) == /\ chain[i].proc = "run" /\ chain[i].inbox # <<>>
                  /\ Head(chain[i].inbox) = m

\* The rest of the inbox; the timer starts again after a message.
Read(i) == [chain[i] EXCEPT !.inbox = Tail(@), !.timer = chain[i].kind # "logs"]

\* Data goes into the pipe, which has no buffer.
OnData(i) == /\ Receives(i, "data")
             /\ Set(i, [Read(i) EXCEPT !.proc = "write"])
             /\ UNCHANGED <<queue, lost>>

OnBadData(i) == /\ Receives(i, "data")
                /\ Set(i, Read(i))
                /\ UNCHANGED <<queue, lost>>

\* Cancel: a websocket's context ends; a shell is sent the exit command by
\* a goroutine that is waited for no longer than a second.
OnExit(i) == /\ Receives(i, "exit")
             /\ Set(i, IF chain[i].kind = "ws" THEN [Read(i) EXCEPT !.ctx = FALSE]
                                               ELSE [Read(i) EXCEPT !.exit = chain[i].in])
             /\ UNCHANGED <<queue, lost>>

\* The session reads what was written; a session for logs reads nothing.
Written(i) == /\ chain[i].proc = "write" /\ chain[i].in
              /\ chain[i].conn = "up" /\ chain[i].kind # "logs"
              /\ Set(i, [chain[i] EXCEPT !.proc = "run"])
              /\ UNCHANGED <<queue, lost>>

\* The pipe is closed; a failure is published.
WriteFails(i) == /\ chain[i].proc = "write" /\ ~chain[i].in
                 /\ Set(i, [chain[i] EXCEPT !.proc = "run"])
                 /\ UNCHANGED <<queue, lost>>

ProcStops(i) == /\ chain[i].proc = "run" /\ chain[i].dying
                /\ Set(i, [chain[i] EXCEPT !.proc = "gone", !.timer = FALSE])
                /\ UNCHANGED <<queue, lost>>

\* Mutant of OnTimeout: tells the cloud but not the engine.
OnTimeoutSilent(i) == /\ chain[i].proc = "run" /\ chain[i].timer
                      /\ Set(i, [chain[i] EXCEPT !.timer = FALSE])
                      /\ UNCHANGED <<queue, lost>>

\* OnTimeout asks the engine to disconnect the key.  Whether the processor
\* goes on afterwards is up to the library.
OnTimeout(i) ==
  /\ chain[i].proc = "run" /\ chain[i].timer
  /\ Enqueue([op |-> "disconnect", key |-> chain[i].key])
  /\ \E p \in {"run", "gone"} : Set(i, [chain[i] EXCEPT !.timer = FALSE, !.proc = p])

-----------------------------------------------------------------------------
(* The session of chain i, and the reader of its output.                   *)

Session(i, ch) == Set(i, ch) /\ UNCHANGED <<queue, lost>>

Dial(i) == /\ chain[i].conn = "dial"
           /\ Session(i, [chain[i] EXCEPT !.conn = "up"])

\* connecting closes the chain when the session fails, logging does not.
Failed(ch) == IF ch.kind = "logs" THEN [ch EXCEPT !.conn = "over"]
                                  ELSE [Dying(ch) EXCEPT !.conn = "close"]

DialFails(i) == /\ chain[i].conn = "dial"
                /\ Session(i, Failed(chain[i]))

\* The stream to the container breaks.
SessionFails(i) == /\ chain[i].conn = "up" /\ chain[i].kind # "ws"
                   /\ Session(i, Failed(chain[i]))

\* The remote side ends on its own.  A websocket session reads its pipe
\* until that is closed, whatever the remote side does.
SessionEnds(i) == /\ chain[i].conn = "up" /\ chain[i].kind # "ws"
                  /\ Session(i, [chain[i] EXCEPT !.conn = "over"])

\* The session meets the end of its input, or the exit command.
HangsUp(i) == /\ chain[i].conn = "up" /\ chain[i].kind # "logs"
              /\ ~chain[i].in \/ chain[i].exit
              /\ Session(i, [chain[i] EXCEPT !.conn = "over", !.exit = FALSE])

\* The goroutine of RemoteWebsocket that watches the context.
Watch(i) == /\ chain[i].conn = "up" /\ chain[i].kind = "ws"
            /\ ~chain[i].ctx /\ chain[i].in
            /\ Session(i, [chain[i] EXCEPT !.in = FALSE, !.out = FALSE])

\* Close returns to connecting, which publishes its notice and ends.
ConnClosed(i) == /\ chain[i].conn = "close" /\ Ended(chain[i])
                 /\ Session(i, [Released(chain[i]) EXCEPT !.conn = "over"])

ReadingEnds(i) == /\ chain[i].read /\ ~chain[i].out
                  /\ Session(i, [chain[i] EXCEPT !.read = FALSE])

-----------------------------------------------------------------------------
HandStep == \/ Connect \/ Disconnect \/ HandClosed \/ Create \/ CreateFails \/ Store
            \/ Data \/ Request

ProcStep(i) == OnData(i) \/ OnBadData(i) \/ OnExit(i) \/ Written(i) \/ WriteFails(i) \/ ProcStops(i)

ConnStep(i) == Dial(i) \/ DialFails(i) \/ HangsUp(i) \/ ConnClosed(i)

Next == \/ \E m \in Msgs : CloudSends(m)
        \/ HandStep
        \/ \E i \in Ids : \/ ProcStep(i) \/ OnTimeout(i) \/ ConnStep(i)
                          \/ SessionFails(i) \/ SessionEnds(i) \/ Watch(i) \/ ReadingEnds(i)

(***************************************************************************)
(* Fairness: goroutines run, dialling ends, timers fire, and a shell whose *)
(* input has ended or that was told to exit ends.  Nothing is assumed of   *)
(* the cloud and of the session of a chain for logs: RemoteLogs of the     *)
(* kube AMI has no context and notices a closed pipe at its next line.     *)
(***************************************************************************)
Spec == /\ Init /\ [][Next]_vars
        /\ WF_vars(HandStep)
        /\ \A i \in Ids : /\ WF_vars(ProcStep(i)) /\ WF_vars(OnTimeout(i))
                          /\ WF_vars(ConnStep(i)) /\ WF_vars(Watch(i)) /\ WF_vars(ReadingEnds(i))
-----------------------------------------------------------------------------
\* Every variable has its type; channels hold Room messages.
TypeOK ==
  /\ queue \in Seq(Msgs) /\ Len(queue) <= Room
  /\ hand.pc \in {"idle", "close", "create", "store"} /\ hand.c \in 0..MaxChains
  /\ chains \in [Keys -> 0..MaxChains]
  /\ chain \in [Ids -> [key : Keys, kind : {"shell", "ws", "logs"}, sub : BOOLEAN,
                        inbox : Seq({"data", "exit"}), proc : {"run", "write", "gone"},
                        dying : BOOLEAN, timer : BOOLEAN,
                        conn : {"dial", "up", "close", "over"}, read : BOOLEAN,
                        in : BOOLEAN, out : BOOLEAN, ctx : BOOLEAN, exit : BOOLEAN]]
  /\ \A i \in Ids : Len(chain[i].inbox) <= Room
  /\ made \in 0..MaxChains /\ open \in 0..MaxMsgs /\ left \in 0..MaxMsgs /\ lost \in BOOLEAN

\* A key has one listener: whatever the order of reconnects, timeouts and
\* failing sessions, two chains never share a downside topic, so no command
\* is executed twice (connect, disconnect, chain.Close).
OneListener == \A i, j \in Ids : /\ chain[i].sub /\ chain[j].sub
                                 /\ chain[i].key = chain[j].key
                                 => i = j

\* Input reaches the youngest session of its key only: none is written to a
\* session after a reconnect has replaced it (connect, chain.Close).
InputToYoungest ==
  [][\A i \in Ids : Written(i) =>
       \A j \in (i + 1)..made : chain[j].key # chain[i].key]_vars

\* The processor is in the middle of a write that nobody will read: the
\* session is over or reads nothing, and the pipe is closed by Close only,
\* after it has waited for the processor.
Stuck(i) == /\ chain[i].proc = "write" /\ chain[i].in
            /\ chain[i].conn \in {"close", "over"} \/ chain[i].kind = "logs"

\* Closing a stuck chain stops the handler, for all chains.
Wedged == hand.pc = "close" /\ Stuck(hand.c)

\* Requests are answered although the handler closes chains in between: the
\* only thing that keeps it waiting is the close of a stuck chain.
RequestsAnswered == open > 0 ~> open = 0 \/ Wedged

\* A debugging chain is given up in the end, by its own failure, by the
\* cloud, or by its timeout, unless it is stuck or the message was dropped.
DebugChainsEnd ==
  \A i \in Ids : chain[i].sub /\ chain[i].kind # "logs"
                   ~> ~chain[i].sub \/ Stuck(i) \/ Wedged \/ lost

\* A chain that was given up leaves no goroutine behind, whoever closed it
\* and whatever its session was doing (Close, connecting, chainReading).
GivenUpVanishes ==
  \A i \in Ids : i <= made /\ ~chain[i].sub /\ chain[i].kind # "logs"
                   ~> chain[i].proc = "gone" /\ chain[i].conn = "over" /\ ~chain[i].read
=============================================================================
