---------------------------- MODULE Chain_proofs ----------------------------
(***************************************************************************)
(* Proofs about module Chain, for any keys, kinds, bounds and capacity of  *)
(* the channels.                                                           *)
(***************************************************************************)
EXTENDS Chain, FiniteSetTheorems, FunctionTheorems, TLAPS

Inboxes == {s \in Seq({"data", "exit"}) : Len(s) <= Room}

Records == [key : Keys, kind : {"shell", "ws", "logs"}, sub : BOOLEAN,
            inbox : Inboxes, proc : {"run", "write", "gone"},
            dying : BOOLEAN, timer : BOOLEAN,
            conn : {"dial", "up", "close", "over"}, read : BOOLEAN,
            in : BOOLEAN, out : BOOLEAN, ctx : BOOLEAN, exit : BOOLEAN]

Hands == [pc : {"idle", "close", "create", "store"}, msg : Msgs \cup {NoMsg}, c : 0..MaxChains]

\* The requests that wait in the channel.
Waiting(q) == {n \in 1..Len(q) : q[n].op = "request"}

\* TypeOK with the record of the handler.
ChainTypes ==
  /\ queue \in Seq(Msgs) /\ Len(queue) <= Room
  /\ hand \in Hands
  /\ chains \in [Keys -> 0..MaxChains]
  /\ chain \in [Ids -> Records]
  /\ made \in 0..MaxChains /\ left \in 0..MaxMsgs /\ lost \in BOOLEAN

\* The requests without an answer are those in the channel, so that none is
\* answered twice; together with what the cloud may still send they are
\* what it was allowed to send.
Counted == open = Cardinality(Waiting(queue)) /\ open + left <= MaxMsgs

\* What the handler knows at each of its waits.
HandKnows ==
  /\ hand.pc # "idle" => hand.msg \in Msgs
  /\ hand.pc = "close" => /\ hand.msg.op \in {"connect", "disconnect"}
                          /\ hand.c = chains[hand.msg.key] /\ hand.c # 0
  /\ hand.pc \in {"create", "store"} => /\ hand.msg.op = "connect"
                                        /\ chains[hand.msg.key] = 0
  /\ hand.pc = "store" => /\ hand.c = made /\ hand.c # 0
                          /\ chain[hand.c].key = hand.msg.key

\* Chain i is the one the handler would find under its key, or the one it
\* has made and not stored yet.
Known(i) == chains[chain[i].key] = i \/ (hand.pc = "store" /\ hand.c = i)

\* The map leads to chains of its keys; a chain that listens is known to
\* the handler and the youngest of its key, and only such a chain takes
\* input: a chain that another one replaced was released before.
Registered ==
  /\ \A k \in Keys : chains[k] # 0 => chains[k] <= made /\ chain[chains[k]].key = k
  /\ \A i \in Ids : chain[i].sub => i <= made /\ Known(i)
  /\ \A i \in Ids : chain[i].sub => \A j \in (i + 1)..made : chain[j].key # chain[i].key
  /\ \A i \in Ids : chain[i].in => chain[i].sub

ChainInv == ChainTypes /\ Counted /\ HandKnows /\ Registered

-----------------------------------------------------------------------------
(* The data.                                                               *)

\* A message has the parts that its command needs.
LEMMA MsgParts ==
  ASSUME NEW m \in Msgs
  PROVE  /\ m.op \in {"connect", "data", "disconnect", "request"}
         /\ m.op \in {"connect", "data", "disconnect"} => m.key \in Keys
         /\ m.op = "connect" => m.kind \in {"shell", "ws", "logs"}
  BY KindsAssumption DEF Msgs

\* What was never created is the record of a chain that is over.
LEMMA UnmadeType == Unmade \in Records /\ ~Unmade.sub /\ ~Unmade.in
<1>1. (CHOOSE k \in Keys : TRUE) \in Keys
  BY KeysAssumption
<1>2. <<>> \in Inboxes
  BY BoundsAssumption DEF Inboxes
<1> QED
  BY <1>1, <1>2 DEF Unmade, Records

\* A channel never holds more than Room messages.
LEMMA PutType ==
  ASSUME NEW S, NEW s \in Seq(S), Len(s) <= Room, NEW m \in S
  PROVE  put(s, m) \in Seq(S) /\ Len(put(s, m)) <= Room
<1>1. Room \in Nat /\ Len(s) \in Nat
  BY BoundsAssumption
<1>2. Append(s, m) \in Seq(S) /\ Len(Append(s, m)) = Len(s) + 1
  OBVIOUS
<1> QED
  BY <1>1, <1>2 DEF put

\* The requests that wait after a message was put into the channel.
LEMMA WaitingPut ==
  ASSUME NEW s \in Seq(Msgs), NEW m \in Msgs
  PROVE  /\ IsFiniteSet(Waiting(s))
         /\ Cardinality(Waiting(put(s, m))) =
              IF m.op = "request" /\ Len(s) < Room
              THEN Cardinality(Waiting(s)) + 1 ELSE Cardinality(Waiting(s))
<1> DEFINE n == Len(s)
<1>1. n \in Nat
  OBVIOUS
<1>2. IsFiniteSet(1..n)
  BY <1>1, FS_Interval
<1>3. IsFiniteSet(Waiting(s))
  <2>1. Waiting(s) \in SUBSET (1..n)
    BY DEF Waiting
  <2> QED
    BY <1>2, <2>1, FS_Subset
<1>4. CASE ~(n < Room)
  BY <1>3, <1>4 DEF put
<1>5. CASE n < Room
  <2>1. put(s, m) = Append(s, m)
    BY <1>5 DEF put
  <2>2. /\ Len(Append(s, m)) = n + 1
        /\ \A x \in 1..n : Append(s, m)[x] = s[x]
        /\ Append(s, m)[n + 1] = m
    OBVIOUS
  <2>3. 1..(n + 1) = (1..n) \cup {n + 1} /\ (n + 1) \notin 1..n
    BY <1>1
  <2>4. (n + 1) \notin Waiting(s)
    BY <2>3 DEF Waiting
  <2>5. CASE m.op = "request"
    <3>1. Waiting(Append(s, m)) = Waiting(s) \cup {n + 1}
      BY <2>2, <2>3, <2>5 DEF Waiting
    <3> QED
      BY <1>3, <1>5, <2>1, <2>4, <2>5, <3>1, FS_AddElement
  <2>6. CASE m.op # "request"
    <3>1. Waiting(Append(s, m)) = Waiting(s)
      BY <2>2, <2>3, <2>6 DEF Waiting
    <3> QED
      BY <1>3, <2>1, <2>6, <3>1
  <2> QED
    BY <2>5, <2>6
<1> QED
  BY <1>4, <1>5

\* The requests that wait after the first message was taken.
LEMMA WaitingTail ==
  ASSUME NEW s \in Seq(Msgs), s # <<>>
  PROVE  /\ Cardinality(Waiting(s)) \in Nat
         /\ Head(s).op = "request" => Cardinality(Waiting(s)) > 0
         /\ Cardinality(Waiting(Tail(s))) =
              IF Head(s).op = "request" THEN Cardinality(Waiting(s)) - 1
                                        ELSE Cardinality(Waiting(s))
<1> DEFINE n == Len(s)
           rest == Waiting(s) \ {1}
<1>1. n \in Nat /\ n > 0
  OBVIOUS
<1>2. IsFiniteSet(Waiting(s))
  <2>1. Waiting(s) \in SUBSET (1..n)
    BY DEF Waiting
  <2>2. IsFiniteSet(1..n)
    BY <1>1, FS_Interval
  <2> QED
    BY <2>1, <2>2, FS_Subset
<1>3. Cardinality(Waiting(s)) \in Nat
  BY <1>2, FS_CardinalityType
<1>4. /\ IsFiniteSet(rest)
      /\ Cardinality(rest) = IF 1 \in Waiting(s) THEN Cardinality(Waiting(s)) - 1
                                                 ELSE Cardinality(Waiting(s))
  BY <1>2, FS_RemoveElement
<1>5. Cardinality(rest) \in Nat
  BY <1>4, FS_CardinalityType
<1>6. 1 \in Waiting(s) <=> Head(s).op = "request"
  BY <1>1 DEF Waiting
<1>7. Cardinality(Waiting(Tail(s))) = Cardinality(rest)
  <2>1. /\ Len(Tail(s)) = n - 1
        /\ \A x \in 1..(n - 1) : Tail(s)[x] = s[x + 1]
    BY <1>1
  <2> DEFINE f == [x \in rest |-> x - 1]
  <2>2. f \in [rest -> Waiting(Tail(s))]
    <3>1. ASSUME NEW x \in rest
          PROVE  x - 1 \in Waiting(Tail(s))
      <4>1. x \in 2..n /\ s[x].op = "request"
        BY <1>1 DEF Waiting
      <4>2. x - 1 \in 1..(n - 1) /\ (x - 1) + 1 = x
        BY <1>1, <4>1
      <4> QED
        BY <2>1, <4>1, <4>2 DEF Waiting
    <3> QED
      BY <3>1
  <2>3. ASSUME NEW x \in rest, NEW y \in rest, f[x] = f[y]
        PROVE  x = y
    <3>1. x \in Int /\ y \in Int
      BY DEF Waiting
    <3> QED
      BY <2>3, <3>1
  <2>4. ASSUME NEW y \in Waiting(Tail(s))
        PROVE  \E x \in rest : f[x] = y
    <3>1. y \in 1..(n - 1) /\ Tail(s)[y].op = "request"
      BY <2>1 DEF Waiting
    <3>2. y + 1 \in 2..n /\ (y + 1) - 1 = y
      BY <1>1, <3>1
    <3>3. y + 1 \in rest
      BY <1>1, <2>1, <3>1, <3>2 DEF Waiting
    <3> QED
      BY <3>2, <3>3
  <2>5. f \in Bijection(rest, Waiting(Tail(s)))
    BY <2>2, <2>3, <2>4, Fun_IsBij
  <2>6. ExistsBijection(rest, Waiting(Tail(s)))
    BY <2>5 DEF ExistsBijection
  <2> QED
    BY <1>4, <2>6, FS_Bijection
<1> QED
  BY <1>3, <1>4, <1>5, <1>6, <1>7

-----------------------------------------------------------------------------
(* What a goroutine of a chain may do to its record.                       *)

\* Record q may follow record r: the key stays, and a chain that has stopped
\* listening, or taking input, does not begin again.
Follows(q, r) == /\ q \in Records /\ q.key = r.key
                 /\ q.sub => r.sub
                 /\ q.in => r.in /\ q.sub

\* A record that takes input only while it listens.
Sound(r) == r \in Records /\ (r.in => r.sub)

\* The first part of Close, and the second.
LEMMA CloseFollows ==
  ASSUME NEW r, Sound(r)
  PROVE  /\ Follows(Dying(r), r)
         /\ Follows(Released(r), r) /\ ~Released(r).sub
         /\ Follows([Released(r) EXCEPT !.conn = "over"], r)
         /\ Follows(Failed(r), r)
<1>1. <<>> \in Inboxes
  BY BoundsAssumption DEF Inboxes
<1>2. Follows(Dying(r), r)
  BY DEF Follows, Sound, Dying, Records
<1>3. Follows(Released(r), r) /\ ~Released(r).sub
  BY <1>1 DEF Follows, Sound, Released, Records
<1>4. Follows([Released(r) EXCEPT !.conn = "over"], r)
  BY <1>1 DEF Follows, Sound, Released, Records
<1>5. Follows(Failed(r), r)
  BY DEF Follows, Sound, Dying, Failed, Records
<1> QED
  BY <1>2, <1>3, <1>4, <1>5

\* Publish puts a message into the inbox of the chains that listen.
LEMMA PublishFollows ==
  ASSUME NEW k \in Keys, NEW d \in {"data", "exit"}, NEW i \in Ids,
         chain \in [Ids -> Records], Sound(chain[i])
  PROVE  Publish(k, d) \in [Ids -> Records] /\ Follows(Publish(k, d)[i], chain[i])
<1>1. ASSUME NEW j \in Ids
      PROVE  /\ Publish(k, d)[j] \in Records
             /\ \A f \in {"key", "sub", "in"} : Publish(k, d)[j][f] = chain[j][f]
  <2>1. chain[j] \in Records
    OBVIOUS
  <2>2. put(chain[j].inbox, d) \in Inboxes
    <3>1. chain[j].inbox \in Seq({"data", "exit"}) /\ Len(chain[j].inbox) <= Room
      BY <2>1 DEF Records, Inboxes
    <3> QED
      BY <3>1, PutType DEF Inboxes
  <2>3. Publish(k, d)[j] \in {chain[j], [chain[j] EXCEPT !.inbox = put(@, d)]}
    BY DEF Publish
  <2> QED
    BY <2>1, <2>2, <2>3 DEF Records
<1>2. Publish(k, d) = [j \in Ids |-> Publish(k, d)[j]]
  BY DEF Publish
<1>3. Publish(k, d) \in [Ids -> Records]
  BY <1>1, <1>2
<1> QED
  BY <1>1, <1>3 DEF Follows, Sound

\* The steps of the processor of chain i.
LEMMA ProcFollows ==
  ASSUME NEW i \in Ids, chain \in [Ids -> Records], Sound(chain[i]),
         ProcStep(i) \/ OnTimeout(i)
  PROVE  /\ \E q : Follows(q, chain[i]) /\ chain' = [chain EXCEPT ![i] = q]
         /\ UNCHANGED <<hand, chains, made, open, left>>
<1> DEFINE r == chain[i]
           Rec(q) == Follows(q, r) /\ Set(i, q)
<1>1. r \in Records
  OBVIOUS
<1>2. ASSUME r.inbox # <<>>
      PROVE  Read(i) \in Records /\ Follows(Read(i), r)
  <2>1. r.inbox \in Seq({"data", "exit"}) /\ Len(r.inbox) <= Room
    BY <1>1 DEF Records, Inboxes
  <2>2. Tail(r.inbox) \in Inboxes
    BY <1>2, <2>1, BoundsAssumption DEF Inboxes
  <2> QED
    BY <1>1, <2>2 DEF Read, Records, Follows, Sound
<1>3. CASE OnData(i)
  <2>1. Follows([Read(i) EXCEPT !.proc = "write"], r)
    BY <1>2, <1>3 DEF OnData, Receives, Follows, Records
  <2> QED
    BY <1>3, <2>1 DEF OnData, Set
<1>4. CASE OnBadData(i)
  BY <1>2, <1>4 DEF OnBadData, Receives, Set
<1>5. CASE OnExit(i)
  <2>1. Follows([Read(i) EXCEPT !.ctx = FALSE], r)
    BY <1>2, <1>5 DEF OnExit, Receives, Follows, Records
  <2>2. Follows([Read(i) EXCEPT !.exit = chain[i].in], r)
    BY <1>1, <1>2, <1>5 DEF OnExit, Receives, Follows, Records
  <2> QED
    BY <1>5, <2>1, <2>2 DEF OnExit, Set
<1>6. CASE Written(i) \/ WriteFails(i)
  <2>1. Follows([r EXCEPT !.proc = "run"], r)
    BY <1>1 DEF Follows, Sound, Records
  <2> QED
    BY <1>6, <2>1 DEF Written, WriteFails, Set
<1>7. CASE ProcStops(i)
  <2>1. Follows([r EXCEPT !.proc = "gone", !.timer = FALSE], r)
    BY <1>1 DEF Follows, Sound, Records
  <2> QED
    BY <1>7, <2>1 DEF ProcStops, Set
<1>8. CASE OnTimeout(i)
  <2>1. \A p \in {"run", "gone"} : Follows([r EXCEPT !.timer = FALSE, !.proc = p], r)
    BY <1>1 DEF Follows, Sound, Records
  <2> QED
    BY <1>8, <2>1 DEF OnTimeout, Set
<1> QED
  BY <1>3, <1>4, <1>5, <1>6, <1>7, <1>8 DEF ProcStep

SessionStep(i) == \/ ConnStep(i) \/ SessionFails(i) \/ SessionEnds(i) \/ Watch(i) \/ ReadingEnds(i)

\* The steps of the session of chain i and of the reader of its output.
LEMMA SessionFollows ==
  ASSUME NEW i \in Ids, chain \in [Ids -> Records], Sound(chain[i]), SessionStep(i)
  PROVE  /\ \E q : Follows(q, chain[i]) /\ chain' = [chain EXCEPT ![i] = q]
         /\ UNCHANGED <<hand, chains, made, open, left, queue, lost>>
<1> DEFINE r == chain[i]
<1>1. r \in Records
  OBVIOUS
<1>2. CASE DialFails(i) \/ SessionFails(i)
  BY <1>2, CloseFollows DEF DialFails, SessionFails, Session, Set
<1>3. CASE ConnClosed(i)
  BY <1>3, CloseFollows DEF ConnClosed, Session, Set
<1>4. CASE Dial(i)
  <2>1. Follows([r EXCEPT !.conn = "up"], r)
    BY <1>1 DEF Follows, Sound, Records
  <2> QED
    BY <1>4, <2>1 DEF Dial, Session, Set
<1>5. CASE SessionEnds(i)
  <2>1. Follows([r EXCEPT !.conn = "over"], r)
    BY <1>1 DEF Follows, Sound, Records
  <2> QED
    BY <1>5, <2>1 DEF SessionEnds, Session, Set
<1>6. CASE HangsUp(i)
  <2>1. Follows([r EXCEPT !.conn = "over", !.exit = FALSE], r)
    BY <1>1 DEF Follows, Sound, Records
  <2> QED
    BY <1>6, <2>1 DEF HangsUp, Session, Set
<1>7. CASE Watch(i)
  <2>1. Follows([r EXCEPT !.in = FALSE, !.out = FALSE], r)
    BY <1>1 DEF Follows, Sound, Records
  <2> QED
    BY <1>7, <2>1 DEF Watch, Session, Set
<1>8. CASE ReadingEnds(i)
  <2>1. Follows([r EXCEPT !.read = FALSE], r)
    BY <1>1 DEF Follows, Sound, Records
  <2> QED
    BY <1>8, <2>1 DEF ReadingEnds, Session, Set
<1> QED
  BY <1>2, <1>3, <1>4, <1>5, <1>6, <1>7, <1>8 DEF SessionStep, ConnStep

-----------------------------------------------------------------------------
(* The invariant.                                                          *)

\* A chain of the invariant has a sound record.
LEMMA AllSound ==
  ASSUME ChainInv
  PROVE  \A i \in Ids : Sound(chain[i])
  BY DEF ChainInv, ChainTypes, Registered, Sound

\* The registration survives steps in which every record is followed and
\* the handler, unless it has a chain to store, goes where it likes.
LEMMA KeepsRegistered ==
  ASSUME ChainTypes, Registered, UNCHANGED <<chains, made>>,
         hand.pc = "store" => UNCHANGED hand,
         chain' \in [Ids -> Records],
         \A i \in Ids : Follows(chain'[i], chain[i])
  PROVE  Registered'
<1> USE BoundsAssumption
<1>1. made \in Nat /\ MaxChains \in Nat /\ made <= MaxChains
  BY DEF ChainTypes
<1>2. \A j \in 1..made : j \in Ids
  BY <1>1 DEF Ids
<1>3. \A i \in Ids : /\ chain'[i].key = chain[i].key
                     /\ chain'[i].sub => chain[i].sub
                     /\ chain'[i].in => chain'[i].sub
  BY DEF Follows
<1>4. \A k \in Keys : chains[k] # 0 => chains[k] \in Ids
  BY <1>1 DEF ChainTypes, Ids
<1>5. \A k \in Keys : chains'[k] # 0 => chains'[k] <= made' /\ chain'[chains'[k]].key = k
  BY <1>3, <1>4 DEF Registered
<1>6. ASSUME NEW i \in Ids, chain'[i].sub
      PROVE  i <= made' /\ (chains'[chain'[i].key] = i \/ (hand'.pc = "store" /\ hand'.c = i))
  BY <1>3, <1>6 DEF Registered, Known
<1>7. ASSUME NEW i \in Ids, chain'[i].sub, NEW j \in (i + 1)..made'
      PROVE  chain'[j].key # chain'[i].key
  <2>1. j \in (i + 1)..made /\ j \in Ids
    BY <1>1, <1>2, <1>7 DEF Ids
  <2> QED
    BY <1>3, <1>7, <2>1 DEF Registered
<1> QED
  BY <1>3, <1>5, <1>6, <1>7 DEF Registered, Known

\* A step of one chain that leaves the handler alone keeps what it knows.
LEMMA KeepsKnowledge ==
  ASSUME ChainTypes, HandKnows, UNCHANGED <<hand, chains, made>>,
         \A i \in Ids : Follows(chain'[i], chain[i])
  PROVE  HandKnows'
<1>1. hand.c # 0 => hand.c \in Ids
  BY BoundsAssumption DEF ChainTypes, Hands, Ids
<1>2. hand.c # 0 => chain'[hand.c].key = chain[hand.c].key
  BY <1>1 DEF Follows
<1> QED
  BY <1>2 DEF HandKnows

\* One record is followed, the others stay.
LEMMA OneFollows ==
  ASSUME ChainInv, NEW i \in Ids, NEW q, Follows(q, chain[i]),
         chain' = [chain EXCEPT ![i] = q]
  PROVE  /\ chain' \in [Ids -> Records]
         /\ \A j \in Ids : Follows(chain'[j], chain[j])
<1>1. \A j \in Ids : chain'[j] = IF j = i THEN q ELSE chain[j]
  BY DEF ChainInv, ChainTypes
<1>2. \A j \in Ids : Follows(chain[j], chain[j])
  BY AllSound DEF Sound, Follows
<1>3. q \in Records
  BY DEF Follows
<1> QED
  BY <1>1, <1>2, <1>3 DEF ChainInv, ChainTypes

\* A message is put into the channel of the handler.
LEMMA EnqueueKeeps ==
  ASSUME ChainInv, NEW m \in Msgs, Enqueue(m)
  PROVE  /\ queue' \in Seq(Msgs) /\ Len(queue') <= Room /\ lost' \in BOOLEAN
         /\ Cardinality(Waiting(queue)) \in Nat
         /\ Cardinality(Waiting(queue')) =
              IF m.op = "request" /\ Len(queue) < Room
              THEN Cardinality(Waiting(queue)) + 1 ELSE Cardinality(Waiting(queue))
<1>1. queue \in Seq(Msgs) /\ Len(queue) <= Room /\ lost \in BOOLEAN
  BY DEF ChainInv, ChainTypes
<1>2. queue' = put(queue, m) /\ lost' \in BOOLEAN
  BY <1>1 DEF Enqueue
<1>3. queue' \in Seq(Msgs) /\ Len(queue') <= Room
  BY <1>1, <1>2, PutType
<1>4. IsFiniteSet(Waiting(queue))
  BY <1>1, WaitingPut
<1>5. Cardinality(Waiting(queue)) \in Nat
  BY <1>4, FS_CardinalityType
<1>6. Cardinality(Waiting(put(queue, m))) =
              IF m.op = "request" /\ Len(queue) < Room
              THEN Cardinality(Waiting(queue)) + 1 ELSE Cardinality(Waiting(queue))
  BY <1>1, WaitingPut
<1> QED
  BY <1>2, <1>3, <1>5, <1>6

\* The cloud sends a message.
LEMMA CloudKeeps ==
  ASSUME ChainInv, NEW m \in Msgs, CloudSends(m)
  PROVE  ChainInv'
<1>1. /\ Enqueue(m) /\ left > 0 /\ left' = left - 1
      /\ open' = IF m.op = "request" /\ Len(queue) < Room THEN open + 1 ELSE open
      /\ UNCHANGED <<hand, chains, chain, made>>
  BY DEF CloudSends
<1>2. /\ queue' \in Seq(Msgs) /\ Len(queue') <= Room /\ lost' \in BOOLEAN
      /\ Cardinality(Waiting(queue)) \in Nat
      /\ Cardinality(Waiting(queue')) =
           IF m.op = "request" /\ Len(queue) < Room
           THEN Cardinality(Waiting(queue)) + 1 ELSE Cardinality(Waiting(queue))
  BY <1>1, EnqueueKeeps
<1>3. left \in 0..MaxMsgs /\ MaxMsgs \in Nat
  BY BoundsAssumption DEF ChainInv, ChainTypes
<1>4. ChainTypes'
  BY <1>1, <1>2, <1>3 DEF ChainInv, ChainTypes
<1>5. Counted'
  BY <1>1, <1>2, <1>3 DEF ChainInv, Counted
<1>6. HandKnows' /\ Registered'
  BY <1>1 DEF ChainInv, HandKnows, Registered, Known
<1> QED
  BY <1>4, <1>5, <1>6 DEF ChainInv

\* A goroutine of a chain takes a step.
LEMMA GoroutineKeeps ==
  ASSUME ChainInv, NEW i \in Ids, ProcStep(i) \/ OnTimeout(i) \/ SessionStep(i)
  PROVE  ChainInv'
<1>1. Sound(chain[i]) /\ chain \in [Ids -> Records]
  BY AllSound DEF ChainInv, ChainTypes
<1>2. PICK q : Follows(q, chain[i]) /\ chain' = [chain EXCEPT ![i] = q]
  BY <1>1, ProcFollows, SessionFollows
<1>3. UNCHANGED <<hand, chains, made, open, left>>
  BY <1>1, ProcFollows, SessionFollows
<1>4. /\ chain' \in [Ids -> Records]
      /\ \A j \in Ids : Follows(chain'[j], chain[j])
  BY <1>2, OneFollows
<1>5. HandKnows' /\ Registered'
  BY <1>3, <1>4, KeepsKnowledge, KeepsRegistered DEF ChainInv
<1>6. /\ queue' \in Seq(Msgs) /\ Len(queue') <= Room /\ lost' \in BOOLEAN
      /\ Cardinality(Waiting(queue')) = Cardinality(Waiting(queue))
  <2>1. CASE OnTimeout(i)
    <3> DEFINE m == [op |-> "disconnect", key |-> chain[i].key]
    <3>1. m \in Msgs /\ m.op # "request"
      BY <1>1 DEF Sound, Records, Msgs
    <3>2. Enqueue(m)
      BY <2>1 DEF OnTimeout
    <3> QED
      BY <3>1, <3>2, EnqueueKeeps
  <2>2. CASE ProcStep(i) \/ SessionStep(i)
    <3>1. UNCHANGED <<queue, lost>>
      BY <2>2, <1>1, SessionFollows
         DEF ProcStep, OnData, OnBadData, OnExit, Written, WriteFails, ProcStops
    <3> QED
      BY <3>1 DEF ChainInv, ChainTypes
  <2> QED
    BY <2>1, <2>2
<1>7. ChainTypes'
  BY <1>3, <1>4, <1>6 DEF ChainInv, ChainTypes
<1>8. Counted'
  BY <1>3, <1>6 DEF ChainInv, Counted
<1> QED
  BY <1>5, <1>7, <1>8 DEF ChainInv

\* The handler takes a message.
LEMMA TakeGives ==
  ASSUME ChainInv, NEW op, Take(op)
  PROVE  /\ hand.pc = "idle" /\ Head(queue) \in Msgs /\ Head(queue).op = op
         /\ queue' \in Seq(Msgs) /\ Len(queue') <= Room
         /\ Cardinality(Waiting(queue)) \in Nat
         /\ op = "request" => Cardinality(Waiting(queue)) > 0
         /\ Cardinality(Waiting(queue')) = IF op = "request" THEN Cardinality(Waiting(queue)) - 1
                                                             ELSE Cardinality(Waiting(queue))
<1>1. queue \in Seq(Msgs) /\ Len(queue) <= Room /\ Room \in Nat
  BY BoundsAssumption DEF ChainInv, ChainTypes
<1>2. queue # <<>> /\ queue' = Tail(queue) /\ hand.pc = "idle" /\ Head(queue).op = op
  BY DEF Take
<1>3. Head(queue) \in Msgs /\ Tail(queue) \in Seq(Msgs) /\ Len(Tail(queue)) <= Room
  BY <1>1, <1>2
<1> QED
  BY <1>1, <1>2, <1>3, WaitingTail

\* The count of requests is kept by a step that takes another message.
LEMMA TakeCounted ==
  ASSUME ChainInv, NEW op, Take(op), op # "request", UNCHANGED <<open, left>>
  PROVE  Counted'
  BY TakeGives DEF ChainInv, Counted

\* Connect and disconnect: the chain of the key is given up, or there is none.
LEMMA ConnectKeeps ==
  ASSUME ChainInv, Connect \/ Disconnect
  PROVE  ChainInv'
<1> DEFINE m == Head(queue)
           old == chains[m.key]
<1>1. PICK op \in {"connect", "disconnect"} : Take(op)
  BY DEF Connect, Disconnect
<1>2. /\ hand.pc = "idle" /\ m \in Msgs /\ m.op = op
      /\ queue' \in Seq(Msgs) /\ Len(queue') <= Room
  BY <1>1, TakeGives
<1>3. m.key \in Keys
  BY <1>2, MsgParts
<1>4. UNCHANGED <<chains, made, open, lost, left>>
  BY DEF Connect, Disconnect
<1>5. Counted'
  BY <1>1, <1>4, TakeCounted
<1>6. old \in 0..MaxChains /\ chain \in [Ids -> Records]
  BY <1>3 DEF ChainInv, ChainTypes
<1>7. \A j \in Ids : Sound(chain[j]) /\ Follows(chain[j], chain[j])
  BY AllSound DEF Sound, Follows
<1>8. /\ chain' \in [Ids -> Records]
      /\ \A j \in Ids : Follows(chain'[j], chain[j])
  <2>1. CASE chain' = chain
    BY <2>1, <1>6, <1>7
  <2>2. CASE Connect /\ old # 0
    <3>1. old \in Ids /\ chain' = [chain EXCEPT ![old] = Dying(chain[old])]
      BY <2>2, <1>6, BoundsAssumption DEF Connect, Ids
    <3>2. Follows(Dying(chain[old]), chain[old])
      BY <3>1, <1>7, CloseFollows
    <3>3. PICK o \in Ids : o = old
      BY <3>1
    <3> QED
      BY <3>1, <3>2, <3>3, OneFollows
  <2>3. CASE Disconnect /\ old # 0
    <3> DEFINE p == Publish(m.key, "exit")
    <3>1. old \in Ids /\ chain' = [p EXCEPT ![old] = Dying(p[old])]
      BY <2>3, <1>6, BoundsAssumption DEF Disconnect, Ids
    <3>2. /\ p \in [Ids -> Records]
          /\ \A j \in Ids : Follows(p[j], chain[j])
      BY <1>3, <1>6, <1>7, <3>1, PublishFollows
    <3>3. \A j \in Ids : Sound(p[j])
      BY <3>2 DEF Follows, Sound
    <3>4. \A j \in Ids : Follows(Dying(p[j]), p[j])
      BY <3>3, CloseFollows
    <3>5. \A j \in Ids : Follows(Dying(p[j]), chain[j])
      BY <3>2, <3>4 DEF Follows
    <3>6. \A j \in Ids : chain'[j] = IF j = old THEN Dying(p[j]) ELSE p[j]
      BY <3>1, <3>2
    <3>7. \A j \in Ids : Follows(chain'[j], chain[j])
      BY <3>2, <3>5, <3>6
    <3>8. \A j \in Ids : chain'[j] \in Records
      BY <3>7 DEF Follows
    <3>9. chain' = [j \in Ids |-> chain'[j]]
      BY <3>1, <3>2
    <3> QED
      BY <3>7, <3>8, <3>9
  <2>4. \/ chain' = chain \/ (Connect /\ old # 0) \/ (Disconnect /\ old # 0)
    BY DEF Connect, Disconnect
  <2> QED
    BY <2>1, <2>2, <2>3, <2>4
<1>9. Registered'
  BY <1>2, <1>4, <1>8, KeepsRegistered DEF ChainInv
<1>10. \/ hand' = [pc |-> "create", msg |-> m, c |-> 0] /\ m.op = "connect" /\ old = 0
       \/ hand' = [pc |-> "close", msg |-> m, c |-> old] /\ old # 0
       \/ hand' = hand
  BY <1>1, <1>2 DEF Connect, Disconnect, Take
<1>11. 0 \in 0..MaxChains
  BY BoundsAssumption
<1>12. hand' \in Hands
  BY <1>2, <1>6, <1>10, <1>11 DEF Hands, ChainInv, ChainTypes
<1>13. HandKnows'
  BY <1>1, <1>2, <1>4, <1>10 DEF HandKnows
<1>14. ChainTypes'
  BY <1>2, <1>4, <1>8, <1>12 DEF ChainInv, ChainTypes
<1> QED
  BY <1>5, <1>9, <1>13, <1>14 DEF ChainInv

\* Close has returned to the handler: nobody listens to the key any more.
LEMMA HandClosedKeeps ==
  ASSUME ChainInv, HandClosed
  PROVE  ChainInv'
<1> DEFINE k == hand.msg.key
           o == hand.c
<1>1. /\ hand.pc = "close" /\ hand \in Hands /\ hand.msg \in Msgs
      /\ hand.msg.op \in {"connect", "disconnect"}
      /\ o = chains[k] /\ o # 0
  BY DEF HandClosed, ChainInv, ChainTypes, HandKnows
<1>2. k \in Keys /\ o \in Ids
  BY <1>1, MsgParts, BoundsAssumption DEF Hands, Ids
<1>3. /\ chain' = [chain EXCEPT ![o] = Released(chain[o])]
      /\ chains' = [chains EXCEPT ![k] = 0]
      /\ hand' = IF hand.msg.op = "connect" THEN [hand EXCEPT !.pc = "create", !.c = 0] ELSE Idle
      /\ UNCHANGED <<queue, made, open, lost, left>>
  BY DEF HandClosed
<1>4. Follows(Released(chain[o]), chain[o]) /\ ~Released(chain[o]).sub
  BY <1>2, AllSound, CloseFollows
<1>5. /\ chain' \in [Ids -> Records]
      /\ \A j \in Ids : Follows(chain'[j], chain[j])
  BY <1>2, <1>3, <1>4, OneFollows
<1>6. ~chain'[o].sub
  BY <1>2, <1>3, <1>4 DEF ChainInv, ChainTypes
<1>7. chains \in [Keys -> 0..MaxChains] /\ 0 \in 0..MaxChains
  BY BoundsAssumption DEF ChainInv, ChainTypes
<1>8. \A l \in Keys : chains'[l] = IF l = k THEN 0 ELSE chains[l]
  BY <1>2, <1>3, <1>7
<1>9. hand' \in Hands
  BY <1>1, <1>3, <1>7 DEF Hands, Idle
<1>10. ChainTypes'
  BY <1>3, <1>5, <1>7, <1>9 DEF ChainInv, ChainTypes
<1>11. HandKnows'
  <2>1. \/ hand'.pc = "idle"
        \/ hand'.pc = "create" /\ hand'.msg = hand.msg /\ hand.msg.op = "connect"
    BY <1>1, <1>3 DEF Idle, Hands
  <2> QED
    BY <1>1, <1>2, <1>8, <2>1 DEF HandKnows
<1>12. Registered'
  <2>1. \A l \in Keys : chains[l] # 0 => chains[l] \in Ids
    BY <1>7, BoundsAssumption DEF Ids
  <2>2. \A j \in Ids : /\ chain'[j].key = chain[j].key
                       /\ chain'[j].sub => chain[j].sub
                       /\ chain'[j].in => chain'[j].sub
    BY <1>5 DEF Follows
  <2>3. \A l \in Keys : chains'[l] # 0 => chains'[l] <= made' /\ chain'[chains'[l]].key = l
    BY <1>3, <1>8, <2>1, <2>2 DEF ChainInv, Registered
  <2>4. \A j \in Ids : chain[j].key \in Keys
    BY DEF ChainInv, ChainTypes, Records
  <2>5. ASSUME NEW j \in Ids, chain'[j].sub
        PROVE  j <= made' /\ chains'[chain'[j].key] = j
    <3>1. j <= made /\ chains[chain[j].key] = j /\ j # o
      BY <1>1, <1>6, <2>2, <2>5 DEF ChainInv, Registered, Known
    <3>2. chain[j].key # k
      BY <1>1, <3>1
    <3> QED
      BY <1>3, <1>8, <2>2, <2>4, <3>1, <3>2
  <2>6. ASSUME NEW j \in Ids, chain'[j].sub, NEW h \in (j + 1)..made'
        PROVE  chain'[h].key # chain'[j].key
    <3>1. h \in (j + 1)..made /\ h \in Ids
      BY <1>3, <2>6, BoundsAssumption DEF ChainInv, ChainTypes, Ids
    <3> QED
      BY <2>2, <2>6, <3>1 DEF ChainInv, Registered
  <2> QED
    BY <2>2, <2>3, <2>5, <2>6 DEF Registered, Known
<1>13. Counted'
  BY <1>3 DEF ChainInv, Counted
<1> QED
  BY <1>10, <1>11, <1>12, <1>13 DEF ChainInv

\* A new chain listens to a key that nobody else listens to.
LEMMA CreateKeeps ==
  ASSUME ChainInv, Create
  PROVE  ChainInv'
<1> DEFINE n == made + 1
           k == hand.msg.key
<1>1. PICK q : q = [key |-> hand.msg.key, kind |-> hand.msg.kind, sub |-> TRUE, inbox |-> <<>>,
                    proc |-> "run", dying |-> FALSE, timer |-> hand.msg.kind # "logs",
                    conn |-> "dial", read |-> TRUE,
                    in |-> TRUE, out |-> TRUE, ctx |-> TRUE, exit |-> FALSE]
  OBVIOUS
<1>2. /\ hand.pc = "create" /\ made < MaxChains /\ made' = n
      /\ chain' = [chain EXCEPT ![n] = q]
      /\ hand' = [hand EXCEPT !.pc = "store", !.c = n]
      /\ UNCHANGED <<queue, chains, open, lost, left>>
  BY <1>1 DEF Create
<1>3. /\ hand \in Hands /\ hand.msg \in Msgs /\ hand.msg.op = "connect" /\ chains[k] = 0
  BY <1>2 DEF ChainInv, ChainTypes, HandKnows
<1>4. k \in Keys /\ hand.msg.kind \in {"shell", "ws", "logs"}
  BY <1>3, MsgParts
<1>5. <<>> \in Inboxes
  BY BoundsAssumption DEF Inboxes
<1>6. q \in Records /\ q.key = k /\ q.sub
  BY <1>1, <1>4, <1>5 DEF Records
<1>7. made \in Nat /\ MaxChains \in Nat /\ n \in Ids /\ n \in 0..MaxChains /\ n # 0
  BY <1>2, BoundsAssumption DEF ChainInv, ChainTypes, Ids
<1>8. chain \in [Ids -> Records]
  BY DEF ChainInv, ChainTypes
<1>9. \A j \in Ids : chain'[j] = IF j = n THEN q ELSE chain[j]
  BY <1>2, <1>7, <1>8
<1>10. chain' \in [Ids -> Records]
  BY <1>2, <1>6, <1>8
<1>11. hand' \in Hands /\ hand'.pc = "store" /\ hand'.c = n /\ hand'.msg = hand.msg
  BY <1>2, <1>3, <1>7 DEF Hands
<1>12. ChainTypes'
  BY <1>2, <1>7, <1>10, <1>11 DEF ChainInv, ChainTypes
<1>13. HandKnows'
  BY <1>2, <1>3, <1>6, <1>7, <1>9, <1>11 DEF HandKnows
<1>14. Counted'
  BY <1>2 DEF ChainInv, Counted
<1>15. Registered'
  <2>1. \A l \in Keys : chains[l] # 0 => chains[l] \in 1..made
    BY <1>7 DEF ChainInv, ChainTypes, Registered
  <2>2. \A l \in Keys : chains'[l] # 0 => chains'[l] <= made' /\ chain'[chains'[l]].key = l
    <3>1. \A j \in 1..made : j \in Ids /\ j # n /\ j <= n
      BY <1>2, <1>7 DEF Ids
    <3> QED
      BY <1>2, <1>9, <2>1, <3>1 DEF ChainInv, Registered
  <2>3. ASSUME NEW j \in Ids, j # n, chain[j].sub
        PROVE  j <= made /\ chains[chain[j].key] = j /\ chain[j].key # k
    <3>1. j <= made /\ chains[chain[j].key] = j
      BY <1>2, <2>3 DEF ChainInv, Registered, Known
    <3>2. j # 0
      BY DEF Ids
    <3> QED
      BY <1>3, <3>1, <3>2
  <2>4. ASSUME NEW j \in Ids, chain'[j].sub
        PROVE  j <= made' /\ (chains'[chain'[j].key] = j \/ (hand'.pc = "store" /\ hand'.c = j))
    <3>1. CASE j = n
      BY <1>2, <1>7, <1>11, <3>1
    <3>2. CASE j # n
      BY <1>2, <1>7, <1>9, <2>3, <2>4, <3>2 DEF Ids
    <3> QED
      BY <3>1, <3>2
  <2>5. ASSUME NEW j \in Ids, chain'[j].sub, NEW h \in (j + 1)..made'
        PROVE  chain'[h].key # chain'[j].key
    <3>1. j \in Nat /\ h \in Ids /\ j # n
      BY <1>2, <1>7 DEF Ids
    <3>2. chain[j].sub /\ chain'[j] = chain[j]
      BY <1>9, <2>5, <3>1
    <3>3. CASE h = n
      BY <1>6, <1>9, <2>3, <3>1, <3>2, <3>3
    <3>4. CASE h # n
      <4>1. h \in (j + 1)..made
        BY <1>2, <1>7, <3>1, <3>4
      <4> QED
        BY <1>9, <3>1, <3>2, <3>4, <4>1 DEF ChainInv, Registered
    <3> QED
      BY <3>3, <3>4
  <2>6. \A j \in Ids : chain'[j].in => chain'[j].sub
    BY <1>6, <1>9 DEF ChainInv, Registered
  <2> QED
    BY <2>2, <2>4, <2>5, <2>6 DEF Registered, Known
<1> QED
  BY <1>12, <1>13, <1>14, <1>15 DEF ChainInv

\* The new chain is stored, or could not be created.
LEMMA StoreKeeps ==
  ASSUME ChainInv, Store \/ CreateFails
  PROVE  ChainInv'
<1>1. /\ hand' = Idle
      /\ UNCHANGED <<queue, chain, made, open, lost, left>>
  BY DEF Store, CreateFails
<1>2. Idle \in Hands /\ Idle.pc = "idle"
  BY BoundsAssumption DEF Idle, Hands
<1>3. HandKnows' /\ Counted'
  BY <1>1, <1>2 DEF ChainInv, HandKnows, Counted
<1>4. CASE CreateFails
  <2>1. UNCHANGED chains /\ hand.pc # "store"
    BY <1>4 DEF CreateFails
  <2>2. ChainTypes'
    BY <1>1, <1>2, <2>1 DEF ChainInv, ChainTypes
  <2>3. Registered'
    BY <1>1, <2>1 DEF ChainInv, Registered, Known
  <2> QED
    BY <1>3, <2>2, <2>3 DEF ChainInv
<1>5. CASE Store
  <2> DEFINE k == hand.msg.key
  <2>1. /\ hand \in Hands /\ hand.msg \in Msgs /\ hand.msg.op = "connect" /\ chains[k] = 0
        /\ hand.c = made /\ hand.c # 0 /\ chain[hand.c].key = k
    BY <1>5 DEF Store, ChainInv, ChainTypes, HandKnows
  <2>2. k \in Keys /\ hand.c \in 0..MaxChains
    BY <2>1, MsgParts DEF Hands
  <2>3. chains' = [chains EXCEPT ![k] = hand.c]
    BY <1>5 DEF Store
  <2>4. \A l \in Keys : chains'[l] = IF l = k THEN hand.c ELSE chains[l]
    BY <2>2, <2>3 DEF ChainInv, ChainTypes
  <2>5. ChainTypes'
    BY <1>1, <1>2, <2>2, <2>3 DEF ChainInv, ChainTypes
  <2>6. \A l \in Keys : chains'[l] # 0 => chains'[l] <= made' /\ chain'[chains'[l]].key = l
    BY <1>1, <2>1, <2>4, BoundsAssumption DEF ChainInv, ChainTypes, Registered
  <2>7. ASSUME NEW i \in Ids, chain[i].sub
        PROVE  i <= made /\ chains'[chain[i].key] = i
    <3>1. i <= made /\ chain[i].key \in Keys /\ i # 0
      BY <2>7 DEF ChainInv, ChainTypes, Registered, Records, Ids
    <3>2. CASE i = hand.c
      BY <2>1, <2>2, <2>4, <3>1, <3>2
    <3>3. CASE i # hand.c
      <4>1. chains[chain[i].key] = i
        BY <2>7, <3>3 DEF ChainInv, Registered, Known
      <4>2. chain[i].key # k
        BY <2>1, <3>1, <4>1
      <4> QED
        BY <2>4, <3>1, <4>1, <4>2
    <3> QED
      BY <3>2, <3>3
  <2>8. Registered'
    BY <1>1, <2>6, <2>7 DEF ChainInv, Registered, Known
  <2> QED
    BY <1>3, <2>5, <2>8 DEF ChainInv
<1> QED
  BY <1>4, <1>5

\* Data is published on the topic of its key; a request is answered.
LEMMA OtherMessagesKeep ==
  ASSUME ChainInv, Data \/ Request
  PROVE  ChainInv'
<1>1. CASE Data
  <2> DEFINE k == Head(queue).key
  <2>1. Take("data") /\ UNCHANGED <<hand, chains, made, open, lost, left>>
    BY <1>1 DEF Data
  <2>2. Head(queue) \in Msgs /\ Head(queue).op = "data" /\ queue' \in Seq(Msgs) /\ Len(queue') <= Room
    BY <2>1, TakeGives
  <2>3. k \in Keys
    BY <2>2, MsgParts
  <2>4. \A j \in Ids : Sound(chain[j]) /\ Follows(chain[j], chain[j])
    BY AllSound DEF Sound, Follows
  <2>5. chain \in [Ids -> Records]
    BY DEF ChainInv, ChainTypes
  <2>6. /\ chain' \in [Ids -> Records]
        /\ \A j \in Ids : Follows(chain'[j], chain[j])
    <3>1. chain' = chain \/ \E d \in {"data", "exit"} : chain' = Publish(k, d)
      BY <1>1 DEF Data
    <3>2. CASE chain' = chain
      BY <2>4, <2>5, <3>2
    <3>3. CASE \E d \in {"data", "exit"} : chain' = Publish(k, d)
      <4>1. PICK d \in {"data", "exit"} : chain' = Publish(k, d)
        BY <3>3
      <4>2. \A j \in Ids : Publish(k, d) \in [Ids -> Records] /\ Follows(Publish(k, d)[j], chain[j])
        BY <2>3, <2>4, <2>5, PublishFollows
      <4>3. Publish(k, d) \in [Ids -> Records]
        <5>1. CASE Ids = {}
          BY <5>1, <2>5 DEF Publish
        <5>2. CASE Ids # {}
          BY <4>2, <5>2
        <5> QED
          BY <5>1, <5>2
      <4> QED
        BY <4>1, <4>2, <4>3
    <3> QED
      BY <3>1, <3>2, <3>3
  <2>7. HandKnows' /\ Registered'
    BY <2>1, <2>6, KeepsKnowledge, KeepsRegistered DEF ChainInv
  <2>8. Counted'
    BY <2>1, TakeCounted
  <2>9. ChainTypes'
    BY <2>1, <2>2, <2>6 DEF ChainInv, ChainTypes
  <2> QED
    BY <2>7, <2>8, <2>9 DEF ChainInv
<1>2. CASE Request
  <2>1. Take("request") /\ open' = open - 1 /\ UNCHANGED <<hand, chains, chain, made, lost, left>>
    BY <1>2 DEF Request
  <2>2. /\ queue' \in Seq(Msgs) /\ Len(queue') <= Room
        /\ Cardinality(Waiting(queue)) \in Nat
        /\ Cardinality(Waiting(queue')) = Cardinality(Waiting(queue)) - 1
    BY <2>1, TakeGives
  <2>3. Counted'
    BY <2>1, <2>2, BoundsAssumption DEF ChainInv, ChainTypes, Counted
  <2>4. ChainTypes' /\ HandKnows' /\ Registered'
    BY <2>1, <2>2 DEF ChainInv, ChainTypes, HandKnows, Registered, Known
  <2> QED
    BY <2>3, <2>4 DEF ChainInv
<1> QED
  BY <1>1, <1>2

\* No step of the handler, the goroutines of a chain or the cloud breaks
\* the invariant.
LEMMA ChainStep == ChainInv /\ [Next]_vars => ChainInv'
<1> SUFFICES ASSUME ChainInv, [Next]_vars
             PROVE  ChainInv'
  OBVIOUS
<1>1. CASE \E m \in Msgs : CloudSends(m)
  BY <1>1, CloudKeeps
<1>2. CASE HandStep
  BY <1>2, ConnectKeeps, HandClosedKeeps, CreateKeeps, StoreKeeps, OtherMessagesKeep DEF HandStep
<1>3. ASSUME NEW i \in Ids, \/ ProcStep(i) \/ OnTimeout(i) \/ ConnStep(i)
                            \/ SessionFails(i) \/ SessionEnds(i) \/ Watch(i) \/ ReadingEnds(i)
      PROVE  ChainInv'
  BY <1>3, GoroutineKeeps DEF SessionStep
<1>4. CASE UNCHANGED vars
  BY <1>4 DEF vars, ChainInv, ChainTypes, Counted, HandKnows, Registered, Known
<1> QED
  BY <1>1, <1>2, <1>3, <1>4 DEF Next

\* At first there are no chains and no messages.
LEMMA ChainInit == Init => ChainInv
<1> SUFFICES ASSUME Init
             PROVE  ChainInv
  OBVIOUS
<1>1. Room \in Nat /\ MaxChains \in Nat /\ MaxMsgs \in Nat
  BY BoundsAssumption
<1>2. Idle \in Hands /\ Idle.pc = "idle"
  BY <1>1 DEF Idle, Hands
<1>3. ChainTypes
  <2>1. queue \in Seq(Msgs) /\ Len(queue) <= Room
    BY <1>1 DEF Init
  <2>2. hand \in Hands /\ lost \in BOOLEAN
    BY <1>2 DEF Init
  <2>3. chains \in [Keys -> 0..MaxChains] /\ made \in 0..MaxChains /\ left \in 0..MaxMsgs
    BY <1>1 DEF Init
  <2>4. chain \in [Ids -> Records]
    BY UnmadeType DEF Init
  <2> QED
    BY <2>1, <2>2, <2>3, <2>4 DEF ChainTypes
<1>4. Counted
  <2>1. Waiting(queue) = {} /\ open = 0 /\ left = MaxMsgs
    BY DEF Waiting, Init
  <2>2. Cardinality(Waiting(queue)) = 0
    BY <2>1, FS_EmptySet
  <2> QED
    BY <1>1, <2>1, <2>2 DEF Counted
<1>5. HandKnows /\ Registered
  BY <1>2, UnmadeType DEF HandKnows, Registered, Init
<1> QED
  BY <1>3, <1>4, <1>5 DEF ChainInv

-----------------------------------------------------------------------------
\* The map of the handler, the chain it works on and the subscriptions of
\* the chains agree at every step, and every request in the channel, and no
\* other, still waits for its answer.
THEOREM ChainCorrect == Spec => []ChainInv
<1>1. Init => ChainInv
  BY ChainInit
<1>2. ChainInv /\ [Next]_vars => ChainInv'
  BY ChainStep
<1> QED
  BY <1>1, <1>2, PTL DEF Spec

\* Every variable keeps its type, and no channel holds more than Room
\* messages.
THEOREM ChainTypesCorrect == Spec => []TypeOK
<1>1. ChainInv => TypeOK
  <2> SUFFICES ASSUME ChainInv
               PROVE  TypeOK
    OBVIOUS
  <2>1. open \in 0..MaxMsgs
    <3>1. queue \in Seq(Msgs) /\ left \in 0..MaxMsgs /\ MaxMsgs \in Nat
      BY BoundsAssumption DEF ChainInv, ChainTypes
    <3>2. Cardinality(Waiting(queue)) \in Nat
      <4>1. Waiting(queue) \in SUBSET (1..Len(queue)) /\ Len(queue) \in Nat
        BY <3>1 DEF Waiting
      <4>2. IsFiniteSet(1..Len(queue))
        BY <4>1, FS_Interval
      <4> QED
        BY <4>1, <4>2, FS_Subset, FS_CardinalityType
    <3> QED
      BY <3>1, <3>2 DEF ChainInv, Counted
  <2>2. hand.pc \in {"idle", "close", "create", "store"} /\ hand.c \in 0..MaxChains
    BY DEF ChainInv, ChainTypes, Hands
  <2>3. \A i \in Ids : chain[i].inbox \in Seq({"data", "exit"}) /\ Len(chain[i].inbox) <= Room
    BY DEF ChainInv, ChainTypes, Records, Inboxes
  <2>4. chain \in [Ids -> [key : Keys, kind : {"shell", "ws", "logs"}, sub : BOOLEAN,
                        inbox : Seq({"data", "exit"}), proc : {"run", "write", "gone"},
                        dying : BOOLEAN, timer : BOOLEAN,
                        conn : {"dial", "up", "close", "over"}, read : BOOLEAN,
                        in : BOOLEAN, out : BOOLEAN, ctx : BOOLEAN, exit : BOOLEAN]]
    BY DEF ChainInv, ChainTypes, Records, Inboxes
  <2> QED
    BY <2>1, <2>2, <2>3, <2>4 DEF TypeOK, ChainInv, ChainTypes
<1> QED
  BY <1>1, ChainCorrect, PTL

\* Two chains never listen to the same key, whatever the order of
\* reconnects, timeouts, failing sessions and dropped messages.
THEOREM OneListenerCorrect == Spec => []OneListener
<1>1. ChainInv => OneListener
  <2> SUFFICES ASSUME ChainInv, NEW i \in Ids, NEW j \in Ids,
                      chain[i].sub, chain[j].sub, chain[i].key = chain[j].key
               PROVE  i = j
    BY DEF OneListener
  <2>1. Known(i) /\ Known(j) /\ i # 0 /\ j # 0
    BY DEF ChainInv, Registered, Ids
  <2>2. hand.pc = "store" => chains[chain[hand.c].key] = 0
    BY DEF ChainInv, HandKnows
  <2> QED
    BY <2>1, <2>2 DEF Known
<1> QED
  BY <1>1, ChainCorrect, PTL

\* Input is written to the youngest session of its key only.
THEOREM InputToYoungestCorrect == Spec => InputToYoungest
<1>1. ChainInv => \A i \in Ids : Written(i) =>
                    \A j \in (i + 1)..made : chain[j].key # chain[i].key
  BY DEF ChainInv, Registered, Written
<1>2. ChainInv /\ [Next]_vars =>
        [\A i \in Ids : Written(i) => \A j \in (i + 1)..made : chain[j].key # chain[i].key]_vars
  BY <1>1
<1> QED
  BY <1>2, ChainCorrect, PTL DEF Spec, InputToYoungest
=============================================================================
