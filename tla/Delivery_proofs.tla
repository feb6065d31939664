-------------------------- MODULE Delivery_proofs ---------------------------
(***************************************************************************)
(* Proofs about what brings an event to a client: CMsgQueueThread, which   *)
(* carries it from one thread of tvserver to the next, and the table of    *)
(* callbacks, from which TvService sends it to every client that lives.    *)
(* And about what clients are told by the parts that tell them something.  *)
(***************************************************************************)
EXTENDS MsgQueue, ClientRegistry, Parts,
        FiniteSetTheorems, SequenceTheorems, WellFoundedInduction, TLAPS

(***************************************************************************)
(* MsgQueue, for any number of messages, delays and clock values.  LoopInv *)
(* is the heart: what the loop thread knows, without the lock, at each of  *)
(* its program points.                                                     *)
(***************************************************************************)

-----------------------------------------------------------------------------
(* The queue operators. *)

\* What InsertAt returns: one entry more, everything else in its old order.
LEMMA InsertAtIs ==
    ASSUME NEW q \in Seq(Entry), NEW e \in Entry, NEW p \in 1..(Len(q) + 1)
    PROVE  /\ InsertAt(q, p, e) \in Seq(Entry)
           /\ Len(InsertAt(q, p, e)) = Len(q) + 1
           /\ \A i \in 1..(Len(q) + 1) :
                 InsertAt(q, p, e)[i] = IF i < p THEN q[i]
                                        ELSE IF i = p THEN e ELSE q[i - 1]
  <1> DEFINE a == SubSeq(q, 1, p - 1)
             b == SubSeq(q, p, Len(q))
  <1>1. a \in Seq(Entry) /\ Len(a) = p - 1 /\ \A i \in 1..(p - 1) : a[i] = q[i]
    OBVIOUS
  <1>2. b \in Seq(Entry) /\ Len(b) = Len(q) - p + 1 /\ \A i \in 1..Len(b) : b[i] = q[p + i - 1]
    OBVIOUS
  <1>3. InsertAt(q, p, e) = a \o <<e>> \o b
    BY DEF InsertAt
  <1>4. a \o <<e>> \in Seq(Entry) /\ Len(a \o <<e>>) = p
        /\ \A i \in 1..p : (a \o <<e>>)[i] = IF i < p THEN q[i] ELSE e
    BY <1>1
  <1>5. /\ (a \o <<e>>) \o b \in Seq(Entry)
        /\ Len((a \o <<e>>) \o b) = Len(q) + 1
        /\ \A i \in 1..(Len(q) + 1) : ((a \o <<e>>) \o b)[i] =
              IF i <= p THEN (a \o <<e>>)[i] ELSE b[i - p]
    <2> DEFINE c == a \o <<e>>
    <2>1. c \in Seq(Entry) /\ Len(c) = p /\ b \in Seq(Entry) /\ Len(b) = Len(q) - p + 1
      BY <1>2, <1>4
    <2> HIDE DEF a, b, c
    <2>2. c \o b \in Seq(Entry) /\ Len(c \o b) = Len(q) + 1
      BY <2>1
    <2>3. \A i \in 1..(Len(q) + 1) : (c \o b)[i] = IF i <= p THEN c[i] ELSE b[i - p]
      BY <2>1
    <2> QED BY <2>2, <2>3 DEF c
  <1> QED
    <2> HIDE DEF a, b
    <2> QED BY <1>2, <1>3, <1>4, <1>5

\* The head of a queue after an insertion is due no later than it was before.
LEMMA InsertAtHead ==
    ASSUME NEW q \in Seq(Entry), NEW e \in Entry, NEW p \in 1..(Len(q) + 1),
           IsInsertPoint(q, e.when, p)
    PROVE  /\ InsertAt(q, p, e) # <<>>
           /\ q # <<>> => InsertAt(q, p, e)[1].when <= q[1].when
  <1>1. Len(InsertAt(q, p, e)) = Len(q) + 1 /\ InsertAt(q, p, e) \in Seq(Entry)
    BY InsertAtIs
  <1>2. InsertAt(q, p, e)[1] = IF p = 1 THEN e ELSE q[1]
    BY InsertAtIs
  <1>3. q # <<>> /\ p = 1 => q[1].when > e.when
    BY DEF IsInsertPoint
  <1>4. q # <<>> => q[1] \in Entry
    OBVIOUS
  <1> QED BY <1>1, <1>2, <1>3, <1>4 DEF Entry

\* The head of a nonempty queue.
LEMMA HeadIs ==
    ASSUME NEW q \in Seq(Entry), q # <<>>
    PROVE  q[1] \in Entry /\ Head(q) = q[1] /\ q[1].when \in Nat
  <1>1. q[1] \in Entry /\ Head(q) = q[1]
    OBVIOUS
  <1> QED BY <1>1 DEF Entry

-----------------------------------------------------------------------------
(* Types. *)

\* The default message is a well-formed one.
LEMMA BlankType == Blank \in Entry
  <1>1. (CHOOSE t \in Types : TRUE) \in Types
    BY MsgQueueAssumption
  <1> QED BY <1>1 DEF Blank, Entry

\* Every variable keeps its type; in particular waitRelative is never given a
\* negative delay.
THEOREM QueueTypeCorrect == QueueSpec => []QueueTypeOK
  <1>1. QueueInit => QueueTypeOK
    <2> SUFFICES ASSUME QueueInit PROVE QueueTypeOK
      OBVIOUS
    <2>1. queue \in Seq(Entry) /\ taken \in Seq(Entry) /\ now \in Nat /\ nsent \in Nat
      BY DEF QueueInit
    <2>2. pc \in PCs /\ cur \in Entry /\ delay \in Nat /\ deadline \in Nat
      BY BlankType DEF QueueInit, PCs
    <2>3. signalled \in BOOLEAN /\ exiting \in BOOLEAN
      BY DEF QueueInit
    <2> QED BY <2>1, <2>2, <2>3 DEF QueueTypeOK
  <1>2. QueueTypeOK /\ [QueueNext]_queueVars => QueueTypeOK'
    <2> SUFFICES ASSUME QueueTypeOK, [QueueNext]_queueVars PROVE QueueTypeOK'
      OBVIOUS
    <2> USE DEF QueueTypeOK, PCs
    <2>1. ASSUME NEW t \in Types, NEW d \in Delays, sendMsg(t, d) PROVE QueueTypeOK'
      <3>1. d \in Nat
        BY MsgQueueAssumption
      <3> DEFINE msg == [seq |-> nsent + 1, type |-> t, when |-> now + d]
      <3>2. msg \in Entry
        BY <3>1 DEF Entry
      <3>3. PICK p \in 1..(Len(queue) + 1) : queue' = InsertAt(queue, p, msg)
        BY <2>1 DEF sendMsg
      <3>4. queue' \in Seq(Entry)
        BY <3>2, <3>3, InsertAtIs
      <3> QED BY <2>1, <3>4 DEF sendMsg, Signal, Sleeping, loopVars
    <2>2. CASE startMsgQueue
      BY <2>2 DEF startMsgQueue
    <2>3. CASE requestExit
      BY <2>3 DEF requestExit, loopVars
    <2>4. CASE LoopTest
      BY <2>4 DEF LoopTest, Goto, Outside
    <2>5. CASE LoopAcquire
      BY <2>5 DEF LoopAcquire, Goto, Outside
    <2>6. CASE LoopWake
      BY <2>6 DEF LoopWake, Goto, Outside
    <2>7. CASE LoopPeek
      BY <2>7 DEF LoopPeek, Goto, Outside
    <2>8. CASE LoopRead
      BY <2>8 DEF LoopRead, Goto, Outside
    <2>9. CASE LoopTimed
      BY <2>9 DEF LoopTimed, Goto, Outside, Entry
    <2>10. CASE LoopSleep
      <3>1. deadline' \in Nat
        BY <2>10, MsgQueueAssumption DEF LoopSleep
      <3> QED BY <2>10, <3>1 DEF LoopSleep, Goto, Outside
    <2>11. CASE LoopTimeout
      BY <2>11, BlankType DEF LoopTimeout, Goto, Outside
    <2>12. CASE LoopCheck
      BY <2>12 DEF LoopCheck, Goto, Outside
    <2>13. CASE LoopTake
      <3>1. CASE queue = <<>>
        BY <2>13, <3>1 DEF LoopTake, Goto, Outside
      <3>2. CASE queue # <<>>
        <4>1. Head(queue) \in Entry /\ Tail(queue) \in Seq(Entry)
          BY <3>2
        <4>2. cur' = Head(queue) /\ queue' = Tail(queue) /\ taken' = Append(taken, Head(queue))
          BY <2>13, <3>2, Zenon DEF LoopTake
        <4>3. taken' \in Seq(Entry)
          BY <4>1, <4>2
        <4> QED BY <2>13, <3>2, <4>1, <4>2, <4>3 DEF LoopTake, Goto, Outside
      <3> QED BY <3>1, <3>2
    <2>14. CASE LoopHandle
      BY <2>14, BlankType DEF LoopHandle, Goto, Outside
    <2>15. CASE Tick
      BY <2>15 DEF Tick, loopVars
    <2>16. CASE UNCHANGED queueVars
      BY <2>16 DEF queueVars, loopVars
    <2> QED
      BY <2>1, <2>2, <2>3, <2>4, <2>5, <2>6, <2>7, <2>8, <2>9, <2>10, <2>11,
         <2>12, <2>13, <2>14, <2>15, <2>16 DEF QueueNext, LoopRun
  <1> QED BY <1>1, <1>2, PTL DEF QueueSpec

-----------------------------------------------------------------------------
(* Order.  sendMsg's linear search keeps the queue ordered; nothing else    *)
(* inserts.                                                                 *)

\* m_v_msg is ordered by due time and, within it, by the order of sending.
\* The second conjunct is what makes ties come out right: every seq in the
\* queue is older than the one the next sendMsg will use.
OrderInv ==
    /\ QueueOrdered
    /\ \A i \in DOMAIN queue : queue[i].seq <= nsent

\* What sendMsg does to the queue: the new message goes in at p, the entries
\* from p on move up by one.
LEMMA SendIs ==
    ASSUME queue \in Seq(Entry), NEW msg \in Entry, NEW p \in 1..(Len(queue) + 1),
           queue' = InsertAt(queue, p, msg)
    PROVE  /\ queue' \in Seq(Entry) /\ Len(queue') = Len(queue) + 1
           /\ \A i \in 1..(Len(queue) + 1) :
                 queue'[i] = IF i < p THEN queue[i] ELSE IF i = p THEN msg ELSE queue[i - 1]
  <1>1. queue' \in Seq(Entry) /\ Len(queue') = Len(queue) + 1
    BY InsertAtIs
  <1>2. \A i \in 1..(Len(queue) + 1) :
           InsertAt(queue, p, msg)[i] =
              IF i < p THEN queue[i] ELSE IF i = p THEN msg ELSE queue[i - 1]
    BY InsertAtIs, ZenonT(30)
  <1> QED BY <1>1, <1>2

\* An insertion at sendMsg's insert point keeps the queue sorted.
LEMMA SendKeepsOrder ==
    ASSUME QueueTypeOK, OrderInv, NEW t \in Types, NEW d \in Delays, sendMsg(t, d)
    PROVE  OrderInv'
  <1> DEFINE msg == [seq |-> nsent + 1, type |-> t, when |-> now + d]
  <1>1. msg \in Entry /\ nsent \in Nat /\ now + d \in Nat /\ queue \in Seq(Entry)
    BY MsgQueueAssumption DEF QueueTypeOK, Entry
  <1>2. PICK p \in 1..(Len(queue) + 1) :
           IsInsertPoint(queue, msg.when, p) /\ queue' = InsertAt(queue, p, msg)
    BY DEF sendMsg
  <1>3. /\ queue' \in Seq(Entry) /\ Len(queue') = Len(queue) + 1
        /\ \A i \in 1..(Len(queue) + 1) :
              queue'[i] = IF i < p THEN queue[i] ELSE IF i = p THEN msg ELSE queue[i - 1]
    <2> HIDE DEF msg
    <2> QED BY ONLY <1>1, <1>2, SendIs
  <1>4. nsent' = nsent + 1
    BY DEF sendMsg
  <1>5. \A i \in 1..Len(queue) : queue[i] \in Entry /\ queue[i].seq <= nsent
    BY <1>1 DEF OrderInv
  <1>6. ASSUME NEW i \in DOMAIN queue' PROVE queue'[i].seq <= nsent'
    <2>1. i \in 1..(Len(queue) + 1)
      BY <1>3
    <2>2. CASE i = p
      BY <2>1, <2>2, <1>1, <1>3, <1>4
    <2>3. CASE i # p
      <3>1. PICK a \in 1..Len(queue) : queue'[i] = queue[a]
        BY <2>1, <2>3, <1>1, <1>3
      <3> QED BY <3>1, <1>1, <1>4, <1>5 DEF Entry
    <2> QED BY <2>2, <2>3
  <1>7. ASSUME NEW i \in DOMAIN queue', NEW j \in DOMAIN queue', i < j
        PROVE  Abstract!Before(queue'[i], queue'[j])
    <2>1. i \in 1..(Len(queue) + 1) /\ j \in 1..(Len(queue) + 1)
      BY <1>3
    <2>2. CASE i # p /\ j # p
      <3>1. PICK a \in 1..Len(queue), b \in 1..Len(queue) :
               a < b /\ queue'[i] = queue[a] /\ queue'[j] = queue[b]
        <4> DEFINE a == IF i < p THEN i ELSE i - 1
                   b == IF j < p THEN j ELSE j - 1
        <4>1. a \in 1..Len(queue) /\ b \in 1..Len(queue) /\ a < b
          BY <2>1, <2>2, <1>1, <1>7
        <4>2. queue'[i] = queue[a] /\ queue'[j] = queue[b]
          BY <2>1, <2>2, <1>3
        <4> QED BY <4>1, <4>2
      <3> QED BY <3>1 DEF OrderInv, QueueOrdered
    <2>3. CASE i = p
      <3>1. queue'[i] = msg /\ queue'[j] = queue[j - 1] /\ p <= j - 1 /\ j - 1 \in 1..Len(queue)
        BY <2>1, <2>3, <1>1, <1>3, <1>7
      <3>2. queue[p].when > msg.when /\ p \in 1..Len(queue)
        BY <3>1, <1>2, <2>1 DEF IsInsertPoint
      <3>3. queue[j - 1].when >= queue[p].when
        <4>1. CASE p = j - 1
          BY <4>1, <3>2, <1>5 DEF Entry
        <4>2. CASE p < j - 1
          <5>1. Abstract!Before(queue[p], queue[j - 1])
            BY <4>2, <3>1, <3>2 DEF OrderInv, QueueOrdered
          <5> QED BY <5>1, <3>1, <3>2, <1>5 DEF Abstract!Before, Entry
        <4> QED BY <3>1, <4>1, <4>2, <2>1
      <3>4. queue[j - 1].when > msg.when
        BY <3>1, <3>2, <3>3, <1>1, <1>5 DEF Entry
      <3> QED BY <3>1, <3>4 DEF Abstract!Before
    <2>4. CASE j = p
      <3>1. queue'[j] = msg /\ queue'[i] = queue[i] /\ i \in 1..(p - 1) /\ i \in 1..Len(queue)
        BY <2>1, <2>4, <1>1, <1>3, <1>7
      <3>2. queue[i].when <= msg.when
        BY <3>1, <1>2 DEF IsInsertPoint
      <3>3. queue[i].seq < msg.seq
        BY <3>1, <1>1, <1>5 DEF Entry
      <3> QED BY <3>1, <3>2, <3>3, <1>1, <1>5 DEF Abstract!Before, Entry
    <2> QED BY <2>2, <2>3, <2>4
  <1> QED BY <1>6, <1>7 DEF OrderInv, QueueOrdered

\* The steps that leave the queue and the count of messages alone.
LEMMA QuietSteps ==
    ASSUME [QueueNext]_queueVars
    PROVE  \/ \E t \in Types, d \in Delays : sendMsg(t, d)
           \/ LoopTake
           \/ UNCHANGED <<queue, nsent, taken>>
  BY DEF QueueNext, LoopRun, startMsgQueue, requestExit, LoopTest, LoopAcquire, LoopWake,
         LoopPeek, LoopRead, LoopTimed, LoopSleep, LoopTimeout, LoopCheck, LoopHandle,
         Tick, queueVars, loopVars, Outside

\* Taking the head of a nonempty queue, as LoopTake does it.
LEMMA TakeIs ==
    ASSUME QueueTypeOK, LoopTake, queue # <<>>
    PROVE  /\ cur' = queue[1] /\ queue[1] \in Entry
           /\ queue' \in Seq(Entry) /\ Len(queue') = Len(queue) - 1
           /\ \A i \in 1..(Len(queue) - 1) : queue'[i] = queue[i + 1]
           /\ taken' \in Seq(Entry) /\ Len(taken') = Len(taken) + 1
           /\ \A i \in 1..Len(taken) : taken'[i] = taken[i]
           /\ taken'[Len(taken) + 1] = queue[1]
           /\ nsent' = nsent /\ now' = now /\ pc' = "handle"
  <1>1. queue \in Seq(Entry) /\ taken \in Seq(Entry)
    BY DEF QueueTypeOK
  <1>2. cur' = Head(queue) /\ queue' = Tail(queue) /\ taken' = Append(taken, Head(queue))
    BY Zenon DEF LoopTake
  <1>3. Head(queue) = queue[1] /\ queue[1] \in Entry
    BY <1>1
  <1>4. queue' \in Seq(Entry) /\ Len(queue') = Len(queue) - 1
        /\ \A i \in 1..(Len(queue) - 1) : queue'[i] = queue[i + 1]
    BY <1>1, <1>2
  <1>5. taken' \in Seq(Entry) /\ Len(taken') = Len(taken) + 1
        /\ (\A i \in 1..Len(taken) : taken'[i] = taken[i])
        /\ taken'[Len(taken) + 1] = queue[1]
    BY <1>1, <1>2, <1>3
  <1>6. nsent' = nsent /\ now' = now /\ pc' = "handle"
    BY DEF LoopTake, Outside, Goto
  <1> QED BY <1>2, <1>3, <1>4, <1>5, <1>6

\* Removing the head keeps the queue sorted.
LEMMA TakeKeepsOrder ==
    ASSUME QueueTypeOK, OrderInv, LoopTake
    PROVE  OrderInv'
  <1>1. CASE queue = <<>>
    BY <1>1 DEF LoopTake, Outside, OrderInv, QueueOrdered
  <1>2. CASE queue # <<>>
    <2>1. \A i \in DOMAIN queue' : /\ i \in 1..(Len(queue) - 1)
                                   /\ i + 1 \in DOMAIN queue
                                   /\ queue'[i] = queue[i + 1]
      BY <1>2, TakeIs DEF QueueTypeOK
    <2>2. nsent' = nsent
      BY <1>2, TakeIs
    <2> QED BY <2>1, <2>2 DEF OrderInv, QueueOrdered
  <1> QED BY <1>1, <1>2

\* Every step keeps the order of the queue.
LEMMA OrderStep == QueueTypeOK /\ OrderInv /\ [QueueNext]_queueVars => OrderInv'
  <1> SUFFICES ASSUME QueueTypeOK, OrderInv, [QueueNext]_queueVars PROVE OrderInv'
    OBVIOUS
  <1>1. CASE UNCHANGED <<queue, nsent, taken>>
    BY <1>1 DEF OrderInv, QueueOrdered
  <1> QED BY <1>1, QuietSteps, SendKeepsOrder, TakeKeepsOrder

\* The queue is ordered by due time and, within it, by the order of sending.
THEOREM AlwaysOrdered == QueueSpec => []QueueOrdered
  <1>1. QueueInit => OrderInv
    BY DEF QueueInit, OrderInv, QueueOrdered
  <1>2. OrderInv => QueueOrdered
    BY DEF OrderInv
  <1> QED BY <1>1, <1>2, OrderStep, QueueTypeCorrect, PTL DEF QueueSpec

-----------------------------------------------------------------------------
(* What the loop knows at each of its points. *)

\* Only the loop takes messages out, so once it has seen the queue nonempty it
\* stays so; a message that overtakes the one whose delay was computed is due
\* earlier, never later.
LoopInv ==
    /\ pc # "undefined"
    /\ pc \in {"peek", "read", "timed", "lockWait", "timedWait", "check", "take"}
          => queue # <<>>
    /\ pc \in {"timed", "lockWait", "timedWait"} => queue[1].when <= cur.when
    /\ pc \in {"check", "take"} => queue[1].when <= now
    /\ pc = "handle" => cur.when <= now

\* Every step keeps what the loop thread knows at its program points.
LEMMA LoopStep == QueueTypeOK /\ LoopInv /\ [QueueNext]_queueVars => LoopInv'
  <1> SUFFICES ASSUME QueueTypeOK, LoopInv, [QueueNext]_queueVars PROVE LoopInv'
    OBVIOUS
  <1>0. queue \in Seq(Entry) /\ now \in Nat /\ cur \in Entry
    BY DEF QueueTypeOK
  <1>1. ASSUME NEW t \in Types, NEW d \in Delays, sendMsg(t, d) PROVE LoopInv'
    <2> DEFINE msg == [seq |-> nsent + 1, type |-> t, when |-> now + d]
    <2>1. msg \in Entry
      BY MsgQueueAssumption DEF QueueTypeOK, Entry
    <2>2. PICK p \in 1..(Len(queue) + 1) :
             IsInsertPoint(queue, msg.when, p) /\ queue' = InsertAt(queue, p, msg)
      BY <1>1 DEF sendMsg
    <2>3. queue' # <<>> /\ queue' \in Seq(Entry)
          /\ (queue # <<>> => queue'[1].when <= queue[1].when)
      <3> HIDE DEF msg
      <3> QED BY <2>1, <2>2, <1>0, InsertAtHead, InsertAtIs
    <2>4. pc' = pc /\ cur' = cur /\ now' = now
      BY <1>1 DEF sendMsg, loopVars
    <2>5. queue # <<>> => queue[1].when \in Nat
      BY <1>0, HeadIs
    <2>6. queue'[1].when \in Nat
      BY <2>3, HeadIs
    <2>7. cur.when \in Nat
      BY <1>0 DEF Entry
    <2> HIDE DEF msg
    <2>8. \A w \in Nat : queue # <<>> /\ queue[1].when <= w => queue'[1].when <= w
      BY <2>3, <2>5, <2>6
    <2> QED BY <2>3, <2>4, <2>7, <2>8, <1>0 DEF LoopInv
  <1>2. CASE startMsgQueue
    BY <1>2 DEF startMsgQueue, LoopInv
  <1>3. CASE requestExit
    BY <1>3 DEF requestExit, loopVars, LoopInv
  <1>4. CASE LoopTest
    BY <1>4 DEF LoopTest, Goto, Outside, LoopInv
  <1>5. CASE LoopAcquire
    BY <1>5 DEF LoopAcquire, Goto, Outside, LoopInv
  <1>6. CASE LoopWake
    BY <1>6 DEF LoopWake, Goto, Outside, LoopInv
  <1>7. CASE LoopPeek
    BY <1>7 DEF LoopPeek, Goto, Outside, LoopInv
  <1>8. CASE LoopRead
    <2>1. queue # <<>>
      BY <1>8 DEF LoopRead, LoopInv
    <2>2. cur' = queue[1] /\ queue[1].when \in Nat
      BY <1>8, <2>1, <1>0, HeadIs DEF LoopRead
    <2>3. pc' = "timed" /\ queue' = queue
      BY <1>8, <2>1 DEF LoopRead, Goto
    <2> QED BY <2>1, <2>2, <2>3 DEF LoopInv
  <1>9. CASE LoopTimed
    <2>1. queue # <<>> /\ queue[1] \in Entry /\ queue[1].when <= cur.when
      BY <1>9, <1>0 DEF LoopTimed, LoopInv
    <2> QED BY <1>9, <2>1, <1>0 DEF LoopTimed, Goto, Outside, LoopInv, Entry
  <1>10. CASE LoopSleep
    BY <1>10 DEF LoopSleep, Goto, Outside, LoopInv
  <1>11. CASE LoopTimeout
    BY <1>11 DEF LoopTimeout, Goto, Outside, LoopInv
  <1>12. CASE LoopCheck
    BY <1>12 DEF LoopCheck, Goto, Outside, LoopInv
  <1>13. CASE LoopTake
    <2>1. queue # <<>> /\ queue[1].when <= now
      BY <1>13 DEF LoopTake, LoopInv
    <2> QED BY <1>13, <2>1, TakeIs DEF LoopInv
  <1>14. CASE LoopHandle
    BY <1>14 DEF LoopHandle, Goto, Outside, LoopInv
  <1>15. CASE Tick
    <2>1. queue # <<>> => queue[1].when \in Nat
      BY <1>0, HeadIs
    <2> QED BY <1>15, <2>1, <1>0 DEF Tick, loopVars, LoopInv, Entry
  <1>16. CASE UNCHANGED queueVars
    BY <1>16 DEF queueVars, loopVars, LoopInv
  <1> QED
    BY <1>1, <1>2, <1>3, <1>4, <1>5, <1>6, <1>7, <1>8, <1>9, <1>10, <1>11,
       <1>12, <1>13, <1>14, <1>15, <1>16 DEF QueueNext, LoopRun

\* What the loop thread knows holds at every moment.
LEMMA LoopAlways == QueueSpec => []LoopInv
  <1>1. QueueInit => LoopInv
    BY DEF QueueInit, LoopInv
  <1> QED BY <1>1, LoopStep, QueueTypeCorrect, PTL DEF QueueSpec

\* The loop never reads the head of an empty queue, and never hands a message
\* over before its due time.
THEOREM NeverUndefined == QueueSpec => []HeadExists
  <1>1. LoopInv => HeadExists
    BY DEF LoopInv, HeadExists
  <1> QED BY <1>1, LoopAlways, PTL

\* A message reaches handleMessage only once it is due.
THEOREM NeverEarly == QueueSpec => []HandledWhenDue
  <1>1. LoopInv => HandledWhenDue
    BY DEF LoopInv, HandledWhenDue
  <1> QED BY <1>1, LoopAlways, PTL

-----------------------------------------------------------------------------
(* Nothing is lost and nothing is handled twice. *)

\* sendMsg adds its message and loses none.
LEMMA SendKeepsAll ==
    ASSUME QueueTypeOK, NothingLost, NEW t \in Types, NEW d \in Delays, sendMsg(t, d)
    PROVE  NothingLost'
  <1> DEFINE msg == [seq |-> nsent + 1, type |-> t, when |-> now + d]
  <1>1. msg \in Entry /\ msg.seq = nsent + 1 /\ nsent \in Nat /\ queue \in Seq(Entry)
    BY MsgQueueAssumption DEF QueueTypeOK, Entry
  <1>2. PICK p \in 1..(Len(queue) + 1) : queue' = InsertAt(queue, p, msg)
    BY DEF sendMsg
  <1>3. /\ queue' \in Seq(Entry) /\ Len(queue') = Len(queue) + 1
        /\ \A i \in 1..(Len(queue) + 1) :
              queue'[i] = IF i < p THEN queue[i] ELSE IF i = p THEN msg ELSE queue[i - 1]
    <2> HIDE DEF msg
    <2> QED BY ONLY <1>1, <1>2, SendIs
  <1>4. nsent' = nsent + 1 /\ taken' = taken
    BY DEF sendMsg
  <1> DEFINE Old(i) == IF i < p THEN i ELSE i - 1
  <1>5. queue'[p].seq = nsent + 1 /\ p \in DOMAIN queue'
    BY <1>1, <1>3
  <1>6. ASSUME NEW i \in DOMAIN queue', i # p
        PROVE  Old(i) \in DOMAIN queue /\ queue'[i] = queue[Old(i)]
    BY <1>1, <1>3, <1>6
  <1>7. \A i \in DOMAIN queue : \E k \in DOMAIN queue' : queue'[k] = queue[i]
    <2> TAKE i \in DOMAIN queue
    <2>1. i \in 1..Len(queue)
      BY <1>1
    <2>2. CASE i < p
      BY <2>1, <2>2, <1>1, <1>3
    <2>3. CASE i >= p
      <3>1. i + 1 \in DOMAIN queue' /\ queue'[i + 1] = queue[i]
        BY <2>1, <2>3, <1>1, <1>3
      <3> QED BY <3>1
    <2> QED BY <2>1, <2>2, <2>3
  <1> HIDE DEF msg
  <1>8. \A s \in 1..nsent' : \/ \E i \in DOMAIN queue' : queue'[i].seq = s
                             \/ \E i \in DOMAIN taken' : taken'[i].seq = s
    BY <1>1, <1>4, <1>5, <1>7 DEF NothingLost
  <1>9. \A i \in DOMAIN queue' : queue'[i].seq \in 1..nsent'
    BY <1>1, <1>4, <1>5, <1>6 DEF NothingLost
  <1>10. \A i \in DOMAIN taken' : taken'[i].seq \in 1..nsent'
    BY <1>1, <1>4 DEF NothingLost
  <1>11. \A i \in DOMAIN queue', j \in DOMAIN taken' : queue'[i].seq # taken'[j].seq
    <2> TAKE i \in DOMAIN queue', j \in DOMAIN taken'
    <2>1. taken'[j].seq \in 1..nsent
      BY <1>4 DEF NothingLost
    <2>2. CASE i = p
      BY <2>1, <2>2, <1>1, <1>5
    <2>3. CASE i # p
      BY <2>3, <1>4, <1>6 DEF NothingLost
    <2> QED BY <2>2, <2>3
  <1>12. \A i, j \in DOMAIN queue' : queue'[i].seq = queue'[j].seq => i = j
    <2> SUFFICES ASSUME NEW i \in DOMAIN queue', NEW j \in DOMAIN queue',
                        queue'[i].seq = queue'[j].seq
                 PROVE  i = j
      OBVIOUS
    <2>1. ASSUME NEW k \in DOMAIN queue', k # p PROVE queue'[k].seq # queue'[p].seq
      <3>1. queue'[k].seq \in 1..nsent
        BY <2>1, <1>6 DEF NothingLost
      <3> QED BY <3>1, <1>1, <1>5
    <2>2. CASE i = p \/ j = p
      BY <2>1, <2>2
    <2>3. CASE i # p /\ j # p
      <3>1. Old(i) = Old(j)
        BY <2>3, <1>6 DEF NothingLost
      <3>2. i \in Int /\ j \in Int /\ p \in Int
        BY <1>1, <1>3
      <3> QED BY <2>3, <3>1, <3>2
    <2> QED BY <2>2, <2>3
  <1>13. \A i, j \in DOMAIN taken' : taken'[i].seq = taken'[j].seq => i = j
    BY <1>4 DEF NothingLost
  <1> QED BY <1>8, <1>9, <1>10, <1>11, <1>12, <1>13 DEF NothingLost

\* LoopTake moves the head to the handled messages and loses none.
LEMMA TakeKeepsAll ==
    ASSUME QueueTypeOK, NothingLost, LoopTake
    PROVE  NothingLost'
  <1>1. CASE queue = <<>>
    BY <1>1 DEF LoopTake, Outside, NothingLost
  <1>2. CASE queue # <<>>
    <2>1. queue \in Seq(Entry) /\ taken \in Seq(Entry) /\ nsent' = nsent
      BY <1>2, TakeIs DEF QueueTypeOK
    <2>2. \A i \in DOMAIN queue' : i + 1 \in DOMAIN queue /\ i # 0 /\ i \in Int
                                   /\ queue'[i] = queue[i + 1]
      BY <1>2, <2>1, TakeIs
    <2>3. \A i \in DOMAIN taken' :
             \/ i \in DOMAIN taken /\ taken'[i] = taken[i]
             \/ i = Len(taken) + 1 /\ taken'[i] = queue[1]
      BY <1>2, <2>1, TakeIs
    <2>4. 1 \in DOMAIN queue
      BY <1>2, <2>1
    <2>5. (\A i \in DOMAIN taken : i \in DOMAIN taken' /\ taken'[i] = taken[i])
          /\ Len(taken) + 1 \in DOMAIN taken' /\ taken'[Len(taken) + 1] = queue[1]
      BY <1>2, <2>1, TakeIs
    <2>6. \A i \in DOMAIN queue : i # 1 => i - 1 \in DOMAIN queue' /\ queue'[i - 1] = queue[i]
      BY <1>2, <2>1, TakeIs
    <2>7. \A s \in 1..nsent' : \/ \E i \in DOMAIN queue' : queue'[i].seq = s
                               \/ \E i \in DOMAIN taken' : taken'[i].seq = s
      <3> TAKE s \in 1..nsent'
      <3>1. CASE \E i \in DOMAIN taken : taken[i].seq = s
        BY <3>1, <2>5
      <3>2. CASE \E i \in DOMAIN queue : queue[i].seq = s
        BY <3>2, <2>5, <2>6
      <3> QED BY <3>1, <3>2, <2>1 DEF NothingLost
    <2>8. \A i \in DOMAIN queue' : queue'[i].seq \in 1..nsent'
      BY <2>1, <2>2 DEF NothingLost
    <2>9. \A i \in DOMAIN taken' : taken'[i].seq \in 1..nsent'
      BY <2>1, <2>3, <2>4 DEF NothingLost
    <2>10. \A i \in DOMAIN queue', j \in DOMAIN taken' : queue'[i].seq # taken'[j].seq
      <3> TAKE i \in DOMAIN queue', j \in DOMAIN taken'
      <3>1. i + 1 # 1 /\ i + 1 \in DOMAIN queue /\ queue'[i] = queue[i + 1]
        BY <2>2
      <3> QED BY <3>1, <2>3, <2>4 DEF NothingLost
    <2>11. \A i, j \in DOMAIN queue' : queue'[i].seq = queue'[j].seq => i = j
      <3> TAKE i, j \in DOMAIN queue'
      <3>1. queue'[i].seq = queue'[j].seq => i + 1 = j + 1
        BY <2>2 DEF NothingLost
      <3> QED BY <3>1, <2>2
    <2>12. \A i, j \in DOMAIN taken' : taken'[i].seq = taken'[j].seq => i = j
      BY <2>3, <2>4 DEF NothingLost
    <2> QED BY <2>7, <2>8, <2>9, <2>10, <2>11, <2>12 DEF NothingLost
  <1> QED BY <1>1, <1>2

\* Every message sent is queued or was handled, once.
THEOREM NeverLost == QueueSpec => []NothingLost
  <1>1. QueueInit => NothingLost
    BY DEF QueueInit, NothingLost
  <1>2. QueueTypeOK /\ NothingLost /\ [QueueNext]_queueVars => NothingLost'
    <2> SUFFICES ASSUME QueueTypeOK, NothingLost, [QueueNext]_queueVars PROVE NothingLost'
      OBVIOUS
    <2>1. CASE UNCHANGED <<queue, nsent, taken>>
      BY <2>1 DEF NothingLost
    <2> QED BY <2>1, QuietSteps, SendKeepsAll, TakeKeepsAll
  <1> QED BY <1>1, <1>2, QueueTypeCorrect, PTL DEF QueueSpec

-----------------------------------------------------------------------------
(* MsgQueue implements DelayedDelivery. *)

\* sendMsg posts, LoopTake delivers the earliest message, which is due; every
\* other step leaves what is pending alone.
THEOREM Refinement == QueueSpec => ImplementsDelayedDelivery
  <1>1. QueueInit => Abstract!Init
    BY DEF QueueInit, Abstract!Init, ToSet
  <1>2. QueueTypeOK /\ OrderInv /\ LoopInv /\ NothingLost /\ [QueueNext]_queueVars
           => [Abstract!Next]_(Abstract!vars)
    <2> SUFFICES ASSUME QueueTypeOK, OrderInv, LoopInv, NothingLost, [QueueNext]_queueVars
                 PROVE  Abstract!Next \/ UNCHANGED Abstract!vars
      OBVIOUS
    <2>0. queue \in Seq(Entry)
      BY DEF QueueTypeOK
    <2>1. ASSUME NEW t \in Types, NEW d \in Delays, sendMsg(t, d) PROVE Abstract!Next
      <3> DEFINE msg == [seq |-> nsent + 1, type |-> t, when |-> now + d]
      <3>1. msg \in Entry
        BY MsgQueueAssumption DEF QueueTypeOK, Entry
      <3>2. PICK p \in 1..(Len(queue) + 1) : queue' = InsertAt(queue, p, msg)
        BY <2>1 DEF sendMsg
      <3>3. nsent' = nsent + 1 /\ now' = now /\ taken' = taken
        BY <2>1 DEF sendMsg
      <3>4. /\ queue' \in Seq(Entry) /\ Len(queue') = Len(queue) + 1
            /\ \A i \in 1..(Len(queue) + 1) : queue'[i] =
                  IF i < p THEN queue[i] ELSE IF i = p THEN msg ELSE queue[i - 1]
        <4>1. msg \in Entry /\ queue \in Seq(Entry)
          BY <2>0, <3>1
        <4> HIDE DEF msg
        <4> QED BY ONLY <4>1, <3>2, SendIs
      <3>5. ToSet(queue') = ToSet(queue) \cup {msg}
        <4> HIDE DEF msg
        <4>1. /\ queue' \in Seq(Entry) /\ Len(queue') = Len(queue) + 1
              /\ \A i \in 1..(Len(queue) + 1) : queue'[i] =
                    IF i < p THEN queue[i] ELSE IF i = p THEN msg ELSE queue[i - 1]
          BY <3>4
        <4>2. ASSUME NEW i \in DOMAIN queue' PROVE queue'[i] \in ToSet(queue) \cup {msg}
          BY <4>1, <2>0 DEF ToSet
        <4>3. ASSUME NEW i \in DOMAIN queue PROVE \E k \in DOMAIN queue' : queue'[k] = queue[i]
          <5>1. CASE i < p
            BY <5>1, <4>1, <2>0
          <5>2. CASE i >= p
            <6>1. i + 1 \in DOMAIN queue' /\ queue'[i + 1] = queue[i]
              BY <5>2, <4>1, <2>0
            <6> QED BY <6>1
          <5> QED BY <5>1, <5>2, <2>0
        <4>4. p \in DOMAIN queue' /\ queue'[p] = msg
          BY <4>1, <2>0
        <4> QED BY <4>2, <4>3, <4>4 DEF ToSet
      <3> QED BY <3>3, <3>5 DEF Abstract!Next, Abstract!Post
    <2>2. CASE LoopTake
      <3>1. queue # <<>> /\ queue[1].when <= now
        BY <2>2 DEF LoopTake, LoopInv
      <3>2. queue[1] \in ToSet(queue) /\ 1 \in DOMAIN queue
        BY <3>1, <2>0 DEF ToSet
      <3>3. \A f \in ToSet(queue) \ {queue[1]} : Abstract!Before(queue[1], f)
        <4> TAKE f \in ToSet(queue) \ {queue[1]}
        <4>1. PICK i \in DOMAIN queue : f = queue[i] /\ i # 1
          BY DEF ToSet
        <4>2. 1 < i
          BY <4>1, <2>0
        <4> QED BY <4>1, <4>2, <3>2 DEF OrderInv, QueueOrdered
      <3>4. ToSet(queue') = ToSet(queue) \ {queue[1]}
        <4>1. \A i \in DOMAIN queue' : i + 1 \in DOMAIN queue /\ i + 1 # 1
                                       /\ queue'[i] = queue[i + 1]
          BY <2>2, <3>1, <2>0, TakeIs
        <4>2. \A i \in DOMAIN queue : i # 1 => i - 1 \in DOMAIN queue' /\ queue'[i - 1] = queue[i]
          BY <2>2, <3>1, <2>0, TakeIs
        <4>3. \A i \in DOMAIN queue : queue[i] = queue[1] => i = 1
          BY <3>2 DEF NothingLost
        <4>4. ASSUME NEW f \in ToSet(queue') PROVE f \in ToSet(queue) /\ f # queue[1]
          <5>1. PICK i \in DOMAIN queue' : f = queue'[i]
            BY DEF ToSet
          <5> QED BY <5>1, <4>1, <4>3 DEF ToSet
        <4>5. ASSUME NEW f \in ToSet(queue), f # queue[1] PROVE f \in ToSet(queue')
          <5>1. PICK i \in DOMAIN queue : f = queue[i]
            BY DEF ToSet
          <5>2. i # 1
            BY <5>1, <4>5
          <5> QED BY <5>1, <5>2, <4>2 DEF ToSet
        <4> QED BY <4>4, <4>5
      <3>5. now' = now /\ nsent' = nsent /\ taken' = Append(taken, queue[1])
        <4>1. taken' = Append(taken, Head(queue)) /\ now' = now /\ nsent' = nsent
          BY <2>2, <3>1, Zenon DEF LoopTake, Outside
        <4> QED BY <4>1, <3>1, <2>0, HeadIs
      <3>6. Abstract!Deliver(queue[1])
        BY <3>1, <3>3, <3>4, <3>5 DEF Abstract!Deliver
      <3> QED BY <3>2, <3>6 DEF Abstract!Next
    <2>3. CASE UNCHANGED <<queue, nsent, taken>>
      <3>1. now' = now \/ now' = now + 1
        BY <2>3 DEF QueueNext, LoopRun, sendMsg, startMsgQueue, requestExit, LoopTest, LoopAcquire,
           LoopWake, LoopPeek, LoopRead, LoopTimed, LoopSleep, LoopTimeout, LoopCheck,
           LoopTake, LoopHandle, Tick, queueVars, loopVars, Outside
      <3>2. ToSet(queue') = ToSet(queue)
        BY <2>3
      <3> QED BY <2>3, <3>1, <3>2 DEF Abstract!Next, Abstract!Tick, Abstract!vars
    <2> QED BY <2>1, <2>2, <2>3, QuietSteps
  <1>3. QueueInit => OrderInv /\ LoopInv
    BY DEF QueueInit, OrderInv, QueueOrdered, LoopInv
  <1> QED
    BY <1>1, <1>2, <1>3, OrderStep, LoopStep, QueueTypeCorrect, NeverLost, PTL
       DEF QueueSpec, ImplementsDelayedDelivery, Abstract!Spec

-----------------------------------------------------------------------------
(***************************************************************************)
(* ClientRegistry, for any number of clients.                              *)
(***************************************************************************)

\* A client registers once and is in the table once, so unlinking whoever has
\* the cookie of a death takes the link of no other slot.
Once == \A i, k \in Taken(slots) : slots[i] = slots[k] => i = k
Waiting ==
    /\ calls \cap fresh = {}
    /\ \A k \in Taken(slots) : slots[k] \notin calls \cup fresh

RegistryInv == RegistryTypeOK /\ Once /\ Waiting /\ DeathNoticed

-----------------------------------------------------------------------------
(* The cookie. *)

\* Of the sets 0..x with x in S one contains no other.
LEMMA LeastIsMember ==
  ASSUME NEW S \in SUBSET Nat, S # {}
  PROVE  Min(S) \in S
  <1> DEFINE T == {0..x : x \in S}
  <1>1. ASSUME NEW x \in S PROVE 0..x \in FiniteSubsetsOf(Nat)
    <2>1. IsFiniteSet(0..x) BY FS_Interval
    <2> QED BY <2>1 DEF FiniteSubsetsOf
  <1>2. T \subseteq FiniteSubsetsOf(Nat) /\ T # {} BY <1>1
  <1> HIDE DEF T
  <1>3. PICK t \in T : \A u \in T : <<u, t>> \notin StrictSubsetOrdering(Nat)
    BY <1>2, FS_StrictSubsetOrderingWellFounded, WFMin
  <1>4. PICK x \in S : t = 0..x BY DEF T
  <1>5. ASSUME NEW y \in S, y < x PROVE FALSE
    <2>1. 0..y \subseteq 0..x /\ 0..x \subseteq Nat /\ x \in 0..x /\ x \notin 0..y
      BY <1>5
    <2>2. 0..y \in T BY DEF T
    <2>3. <<0..y, t>> \in StrictSubsetOrdering(Nat)
      BY <1>4, <2>1 DEF StrictSubsetOrdering
    <2> QED BY <1>3, <2>2, <2>3
  <1>6. \A y \in S : x <= y BY <1>5
  <1> QED BY <1>6 DEF Min

\* setCallback's loop finds a key that nobody has, although the map has holes:
\* when all keys below the map's size are taken, they are all its keys.
LEMMA CookieIsFree ==
  ASSUME RegistryTypeOK
  PROVE  CookieFor(slots) \in Nat /\ CookieFor(slots) \notin Taken(slots)
  <1> DEFINE n == Cardinality(DOMAIN slots)
  <1>1. n \in Nat BY FS_CardinalityType DEF RegistryTypeOK
  <1>2. CASE Vacant(slots) = {}
    <2>1. 0..(n - 1) \subseteq DOMAIN slots BY <1>1, <1>2 DEF Vacant
    <2>2. Cardinality(0..(n - 1)) = n BY <1>1, FS_Interval
    <2>3. 0..(n - 1) = DOMAIN slots BY <2>1, <2>2, FS_Subset DEF RegistryTypeOK
    <2>4. n \notin DOMAIN slots BY <1>1, <2>3
    <2> QED BY <1>1, <1>2, <2>4 DEF CookieFor, Taken
  <1>3. CASE Vacant(slots) # {}
    <2>1. Vacant(slots) \in SUBSET Nat BY <1>1 DEF Vacant
    <2>2. Min(Vacant(slots)) \in Vacant(slots) BY <1>3, <2>1, LeastIsMember
    <2> QED BY <1>3, <2>1, <2>2 DEF CookieFor, Vacant, Taken
  <1> QED BY <1>2, <1>3

-----------------------------------------------------------------------------
(* The steps. *)

LEMMA InitRegistry == RegistryInit => RegistryInv
  <1>1. IsFiniteSet({}) BY FS_EmptySet
  <1> QED BY <1>1 DEF RegistryInit, RegistryInv, RegistryTypeOK, Once, Waiting, DeathNoticed, Taken

LEMMA StepCall == ASSUME NEW c \in Clients PROVE RegistryInv /\ Call(c) => RegistryInv'
  BY DEF RegistryInv, RegistryTypeOK, Once, Waiting, DeathNoticed, Taken, Call

LEMMA StepDie == ASSUME NEW c \in Clients PROVE RegistryInv /\ Die(c) => RegistryInv'
  <1> SUFFICES ASSUME RegistryInv, Die(c) PROVE RegistryInv' OBVIOUS
  <1>1. RegistryTypeOK' BY DEF RegistryInv, RegistryTypeOK, Die
  <1>2. Once' /\ Waiting' BY DEF RegistryInv, Once, Waiting, Taken, Die
  <1>3. DeathNoticed'
    <2> SUFFICES ASSUME NEW k \in Taken(slots), slots[k] \notin missed
                 PROVE  \/ slots[k] \in alive' /\ <<slots[k], k>> \in links'
                        \/ slots[k] \notin alive' /\ <<slots[k], k>> \in deaths'
      BY DEF DeathNoticed, Taken, Die
    <2>1. CASE slots[k] = c BY <2>1 DEF RegistryInv, DeathNoticed, Die
    <2>2. CASE slots[k] # c BY <2>2 DEF RegistryInv, DeathNoticed, Die
    <2> QED BY <2>1, <2>2
  <1> QED BY <1>1, <1>2, <1>3 DEF RegistryInv

LEMMA StepSetCallback == ASSUME NEW c \in Clients PROVE RegistryInv /\ setCallback(c) => RegistryInv'
  <1> SUFFICES ASSUME RegistryInv, setCallback(c) PROVE RegistryInv' OBVIOUS
  <1> DEFINE cookie == CookieFor(slots)
  <1>1. cookie \in Nat /\ cookie \notin Taken(slots) BY CookieIsFree DEF RegistryInv
  <1>2. c # Null /\ c \in calls BY RegistryAssumption DEF RegistryAssumption, setCallback
  <1>3. slots' = [j \in DOMAIN slots \cup {cookie} |-> IF j = cookie THEN c ELSE slots[j]]
    BY DEF setCallback, Put
  <1> HIDE DEF cookie
  <1>4. Taken(slots') = Taken(slots) \cup {cookie} BY <1>1, <1>2, <1>3 DEF Taken
  <1>5. RegistryTypeOK'
    <2>1. IsFiniteSet(DOMAIN slots') BY <1>3, FS_AddElement DEF RegistryInv, RegistryTypeOK
    <2> QED BY <1>1, <1>3, <2>1 DEF RegistryInv, RegistryTypeOK, setCallback, cookie
  <1>6. Once' /\ Waiting'
    BY <1>1, <1>2, <1>3, <1>4 DEF RegistryInv, Once, Waiting, Taken, setCallback
  <1>7. DeathNoticed'
    <2> SUFFICES ASSUME NEW k \in Taken(slots')
                 PROVE  \/ slots'[k] \in alive' /\ <<slots'[k], k>> \in links'
                        \/ slots'[k] \notin alive' /\ <<slots'[k], k>> \in deaths'
                        \/ slots'[k] \in missed'
      BY DEF DeathNoticed
    <2>1. CASE k = cookie BY <1>3, <2>1 DEF setCallback, cookie
    <2>2. CASE k # cookie
      BY <1>3, <1>4, <2>2 DEF RegistryInv, DeathNoticed, Taken, setCallback
    <2> QED BY <2>1, <2>2
  <1> QED BY <1>5, <1>6, <1>7 DEF RegistryInv

LEMMA StepOnEvent == RegistryInv /\ onEvent => RegistryInv'
  <1> SUFFICES ASSUME RegistryInv, onEvent PROVE RegistryInv' OBVIOUS
  <1> DEFINE dead == {i \in Taken(slots) : slots[i] \notin alive}
  <1>1. slots' = [k \in Taken(slots) \ dead |-> slots[k]] BY DEF onEvent
  <1>2. /\ deaths' \subseteq deaths /\ UNCHANGED <<alive, calls, fresh, links, missed>>
        /\ Taken(slots) \subseteq DOMAIN slots
    BY DEF onEvent, Taken
  <1>3. Taken(slots') = Taken(slots) \ dead BY <1>1 DEF Taken
  <1>4. IsFiniteSet(DOMAIN slots')
    BY <1>1, <1>2, FS_Subset DEF RegistryInv, RegistryTypeOK
  <1>5. RegistryTypeOK' BY <1>1, <1>2, <1>4 DEF RegistryInv, RegistryTypeOK
  <1>6. Once' /\ Waiting' BY <1>1, <1>2, <1>3 DEF RegistryInv, Once, Waiting
  <1>7. DeathNoticed' BY <1>1, <1>2, <1>3 DEF RegistryInv, DeathNoticed
  <1> QED BY <1>5, <1>6, <1>7 DEF RegistryInv

LEMMA StepServiceDeath ==
  ASSUME NEW d \in deaths
  PROVE  RegistryInv /\ handleServiceDeath(d[1], d[2]) => RegistryInv'
  <1> SUFFICES ASSUME RegistryInv, handleServiceDeath(d[1], d[2]) PROVE RegistryInv' OBVIOUS
  <1> DEFINE cookie == d[2]
  <1>1. cookie \in Nat BY DEF RegistryInv, RegistryTypeOK
  <1>2. slots' = [j \in DOMAIN slots \cup {cookie} |-> IF j = cookie THEN Null ELSE slots[j]]
    BY DEF handleServiceDeath, Put
  <1>3. /\ deaths' = deaths \ {<<d[1], cookie>>}
        /\ UNCHANGED <<alive, calls, fresh, missed>>
        /\ links' = IF cookie \in Taken(slots)
                    THEN {l \in links : l[1] # slots[cookie]} ELSE links
    BY DEF handleServiceDeath
  <1> HIDE DEF cookie
  <1>4. Taken(slots') = Taken(slots) \ {cookie} BY <1>2 DEF Taken
  <1>5. RegistryTypeOK'
    <2>1. IsFiniteSet(DOMAIN slots') BY <1>2, FS_AddElement DEF RegistryInv, RegistryTypeOK
    <2> QED BY <1>1, <1>2, <1>3, <2>1 DEF RegistryInv, RegistryTypeOK
  <1>6. Once' /\ Waiting' BY <1>2, <1>3, <1>4 DEF RegistryInv, Once, Waiting, Taken
  <1>7. DeathNoticed'
    <2> SUFFICES ASSUME NEW k \in Taken(slots), k # cookie, slots[k] \notin missed
                 PROVE  \/ slots[k] \in alive /\ <<slots[k], k>> \in links'
                        \/ slots[k] \notin alive /\ <<slots[k], k>> \in deaths'
      BY <1>2, <1>3, <1>4 DEF DeathNoticed, Taken
    <2>1. cookie \in Taken(slots) => slots[cookie] # slots[k] BY DEF RegistryInv, Once
    <2> QED BY <1>3, <2>1 DEF RegistryInv, DeathNoticed
  <1> QED BY <1>5, <1>6, <1>7 DEF RegistryInv

LEMMA StepRegistry == RegistryInv /\ [RegistryNext]_registryVars => RegistryInv'
  <1>1. RegistryInv /\ RegistryNext => RegistryInv'
    BY StepCall, StepDie, StepSetCallback, StepOnEvent, StepServiceDeath DEF RegistryNext, Deaths
  <1>2. RegistryInv /\ UNCHANGED registryVars => RegistryInv'
    BY DEF registryVars, RegistryInv, RegistryTypeOK, Once, Waiting, DeathNoticed, Taken
  <1> QED BY <1>1, <1>2

-----------------------------------------------------------------------------
(* The theorems. *)

\* The table stays a finite map from cookies to clients.
THEOREM RegistryTypeCorrect == RegistrySpec => []RegistryTypeOK
  <1>1. RegistryInv => RegistryTypeOK BY DEF RegistryInv
  <1> QED BY InitRegistry, StepRegistry, <1>1, PTL DEF RegistrySpec

\* The death of every client in the table will be noticed under its cookie,
\* which handleServiceDeath knows it by.
THEOREM DeathIsNoticed == RegistrySpec => []DeathNoticed
  <1>1. RegistryInv => DeathNoticed BY DEF RegistryInv
  <1> QED BY InitRegistry, StepRegistry, <1>1, PTL DEF RegistrySpec

\* setCallback takes no other client's slot, however many there are and whatever
\* onEvent and handleServiceDeath have erased and cleared.
THEOREM NobodyIsDisplaced == RegistrySpec => NobodyDisplaced
  <1> DEFINE Kept == \A c \in Clients : setCallback(c) =>
                        \A k \in Taken(slots) : k \in Taken(slots') /\ slots'[k] = slots[k]
  <1>1. RegistryInv => [Kept]_registryVars
    <2> SUFFICES ASSUME RegistryInv, NEW c \in Clients, setCallback(c), NEW k \in Taken(slots)
                 PROVE  k \in Taken(slots') /\ slots'[k] = slots[k]
      OBVIOUS
    <2>1. CookieFor(slots) \notin Taken(slots) BY CookieIsFree DEF RegistryInv
    <2>2. slots' = [j \in DOMAIN slots \cup {CookieFor(slots)} |->
                      IF j = CookieFor(slots) THEN c ELSE slots[j]]
      BY DEF setCallback, Put
    <2> QED BY <2>1, <2>2 DEF Taken
  <1> QED BY InitRegistry, StepRegistry, <1>1, PTL DEF RegistrySpec, NobodyDisplaced

-----------------------------------------------------------------------------
(***************************************************************************)
(* What a client is told by the parts of the service, for every            *)
(* configuration, program, signal and request that the assumptions of      *)
(* Parts allow: one inductive invariant for each part that tells.          *)
(***************************************************************************)

(* Ports. *)

AllSources == {"TV", "AV1", "AV2", "YPBPR1", "YPBPR2", "HDMI1", "HDMI2", "HDMI3", "HDMI4", "VGA",
               "MPEG", "DTV", "SVIDEO", "IPTV", "DUMMY", "SPDIF"}

NoPort == "TVIN_PORT_NULL"

\* The map is one that the assumption allows.
MapMade ==
    /\ DOMAIN map = AllSources
    /\ \A s \in {"TV", "AV1", "AV2", "YPBPR1", "YPBPR2", "VGA"} : map[s] # NoPort
    /\ \A s, t \in AllSources \ {"SPDIF"} : map[s] = map[t] /\ map[s] # NoPort => s = t
    /\ map["MPEG"] # NoPort /\ map["DTV"] # NoPort /\ map["IPTV"] # NoPort
    /\ map["SVIDEO"] = NoPort
    /\ \A s \in {"AV1", "AV2"}, n \in 1..4 : map[s] # Port!HdmiPorts[n]

LEMMA MapsAreMade == ASSUME Port!Init PROVE MapMade
<1>1. PICK config \in Configs : map = Port!SourceInputToPortMap(config)
  BY DEF Port!Init
<1>2. DOMAIN map = AllSources
  BY <1>1 DEF Port!SourceInputToPortMap, Port!Fixed, Port!Defaults, AllSources
<1>3. /\ \A s \in {"TV", "AV1", "AV2", "YPBPR1", "YPBPR2", "VGA"} : map[s] # NoPort
      /\ \A s, t \in AllSources \ {"SPDIF"} : map[s] = map[t] /\ map[s] # NoPort => s = t
      /\ \A s \in {"AV1", "AV2"}, n \in 1..4 : map[s] # Port!HdmiPorts[n]
  BY <1>1, <1>2, PortsAssumption DEF NoPort, Port!AvSources
<1>4. \A s \in DOMAIN Port!Fixed : map[s] = Port!Fixed[s]
  BY <1>1 DEF Port!SourceInputToPortMap, Port!Fixed, Port!Defaults
<1>5. map["MPEG"] # NoPort /\ map["DTV"] # NoPort /\ map["IPTV"] # NoPort /\ map["SVIDEO"] = NoPort
  BY <1>4 DEF Port!Fixed, NoPort
<1> QED BY <1>2, <1>3, <1>5 DEF MapMade

\* The first source of a port is found.
LEMMA FirstOfPort ==
    ASSUME NEW port, NEW n \in 1..16, map[Port!Sources[n]] = port,
           \A o \in 1..16 : map[Port!Sources[o]] = port => n <= o
    PROVE  Port!PortToSourceInput(port) = Port!Sources[n]
<1> DEFINE on == {o \in DOMAIN Port!Sources : map[Port!Sources[o]] = port}
<1>1. DOMAIN Port!Sources = 1..16
  BY DEF Port!Sources
<1>2. n \in on /\ \A o \in on : n <= o
  BY <1>1
<1>3. (CHOOSE m \in on : \A o \in on : m <= o) = n
  <2>1. \A m \in on : m \in Int
    BY <1>1
  <2>2. \A m \in on : (\A o \in on : m <= o) => m = n
    BY <1>2, <2>1
  <2> QED BY <1>2, <2>2
<1> QED BY <1>2, <1>3 DEF Port!PortToSourceInput

\* A port that belongs to one source leads to it.
LEMMA PortLeadsBack ==
    ASSUME MapMade, NEW s \in AllSources \ {"SPDIF"}, map[s] # NoPort
    PROVE  Port!PortToSourceInput(map[s]) = s
<1>1. PICK n \in 1..15 : Port!Sources[n] = s
  BY DEF Port!Sources, AllSources
<1>2. \A o \in 1..16 : Port!Sources[o] \in AllSources
  BY DEF Port!Sources, AllSources
<1>3. \A o \in 1..15 : Port!Sources[o] # "SPDIF" /\ (Port!Sources[o] = s => o = n)
  BY <1>1 DEF Port!Sources
<1>4. \A o \in 1..16 : map[Port!Sources[o]] = map[s] => n <= o
  BY <1>2, <1>3 DEF MapMade
<1> QED BY <1>1, <1>4, FirstOfPort

\* A source that a port leads to is on it.
LEMMA HasPort ==
    ASSUME MapMade, NEW port, port # NoPort, Port!PortToSourceInput(port) # Port!NoSource
    PROVE  map[Port!PortToSourceInput(port)] = port
<1> DEFINE on == {m \in DOMAIN Port!Sources : map[Port!Sources[m]] = port}
<1>1. on # {} /\ Port!PortToSourceInput(port) = Port!Sources[CHOOSE m \in on : \A o \in on : m <= o]
  BY DEF Port!PortToSourceInput
<1>2. on \subseteq 1..16
  BY DEF Port!Sources
<1>3. CASE \E o \in on : Port!Sources[o] # "SPDIF"
  <2>1. PICK o \in on : Port!Sources[o] # "SPDIF"
    BY <1>3
  <2>2. Port!Sources[o] \in AllSources \ {"SPDIF"} /\ map[Port!Sources[o]] = port
    BY <1>2, <2>1 DEF Port!Sources, AllSources
  <2> QED BY <2>2, PortLeadsBack
<1>4. CASE \A o \in on : Port!Sources[o] = "SPDIF"
  <2>1. on = {16}
    BY <1>1, <1>2, <1>4 DEF Port!Sources
  <2>2. (CHOOSE m \in {16} : \A o \in {16} : m <= o) = 16
    OBVIOUS
  <2> QED BY <1>1, <2>1, <2>2
<1> QED BY <1>3, <1>4

LEMMA RoundTripHolds == ASSUME MapMade PROVE Port!RoundTrip
<1> SUFFICES ASSUME NEW n \in DOMAIN Port!Sources, NEW s, s = Port!Sources[n],
                    map[s] # NoPort, s # "SPDIF"
             PROVE  /\ Port!PortToSourceInput(map[s]) = s
                    /\ Port!PortToSourceInput(Port!PortOfType(Port!Type(s))) # Port!NoSource =>
                         Port!Type(Port!PortToSourceInput(Port!PortOfType(Port!Type(s)))) = Port!Type(s)
                    /\ Port!Type(s) = "HDMI" /\ Port!ChipHdmiPort(s) = Port!HdmiPortID(s) =>
                         Port!ChipHdmiPortMaptoSourceInput(Port!ChipHdmiPort(s)) = s
  BY DEF Port!RoundTrip, NoPort
<1>1. s \in AllSources
  BY DEF Port!Sources, AllSources
<1>2. Port!PortToSourceInput(map[s]) = s
  BY <1>1, PortLeadsBack
<1>3. Port!Type(Port!PortToSourceInput(Port!PortOfType(Port!Type(s)))) = Port!Type(s)
  <2>1. CASE Port!Type(s) # "HDMI"
    <3>1. PICK first \in AllSources \ {"SPDIF"} :
             /\ Port!PortOfType(Port!Type(s)) = map[first] /\ map[first] # NoPort
             /\ Port!Type(first) = Port!Type(s)
      BY <1>1, <2>1 DEF Port!Type, Port!PortOfType, Port!AvSources, AllSources, MapMade
    <3> QED BY <3>1, PortLeadsBack
  <2>2. CASE Port!Type(s) = "HDMI"
    <3>1. Port!PortOfType("HDMI") = map["HDMI1"] /\ Port!Type("HDMI1") = "HDMI"
      BY DEF Port!PortOfType, Port!Type, Port!AvSources
    <3>2. CASE map["HDMI1"] # NoPort
      BY <2>2, <3>1, <3>2, PortLeadsBack DEF AllSources
    <3>3. CASE map["HDMI1"] = NoPort
      <4>1. \A o \in 1..16 : map[Port!Sources[o]] = NoPort => 6 <= o
        BY DEF MapMade, Port!Sources
      <4>2. Port!PortToSourceInput(NoPort) = "HDMI1"
        BY <3>3, <4>1, FirstOfPort DEF Port!Sources
      <4> QED BY <2>2, <3>1, <3>3, <4>2
    <3> QED BY <3>2, <3>3
  <2> QED BY <2>1, <2>2
<1>4. ASSUME Port!Type(s) = "HDMI", Port!ChipHdmiPort(s) = Port!HdmiPortID(s)
      PROVE  Port!ChipHdmiPortMaptoSourceInput(Port!ChipHdmiPort(s)) = s
  <2>1. PICK b \in 1..4 : map[s] = Port!HdmiPorts[b] /\ Port!ChipHdmiPort(s) = b
    BY <1>4 DEF Port!ChipHdmiPort, Port!HdmiPortID
  <2> QED BY <1>2, <2>1 DEF Port!ChipHdmiPortMaptoSourceInput
<1> QED BY <1>2, <1>3, <1>4

-----------------------------------------------------------------------------
Statuses == {"IN", "OUT", "UNKNOWN"}

\* What the thread remembers of a device is what it says, or what it has read is,
\* unless epoll has to report it; and clients know what the thread remembers, of
\* each port whose change was not taken away from it.
PortsIInv ==
    /\ MapMade
    /\ hdmi \subseteq 1..4 /\ avin \in [1..2 -> Statuses]
    /\ started \in BOOLEAN
    /\ hdmiKnown \subseteq 1..4 /\ avinKnown \in [1..2 -> Statuses]
    /\ handling.device \in {"none", "hdmi", "avin"}
    /\ handling.device = "hdmi" => handling.read \subseteq 1..4
    /\ handling.device = "avin" => handling.read \in [1..2 -> Statuses]
    /\ ~started => handling.device = "none"
    /\ started /\ "hdmi" \notin edges =>
         /\ handling.device = "hdmi" => handling.read = hdmi
         /\ handling.device # "hdmi" => hdmiKnown = hdmi
    /\ started /\ "avin" \notin edges =>
         /\ handling.device = "avin" => handling.read = avin
         /\ handling.device # "avin" => avinKnown = avin
    /\ untold = [hdmi |-> untold.hdmi, avin |-> untold.avin]
    /\ \A n, b \in 1..4 :
         LET s == Port!HdmiSources[n] IN
         s \in DOMAIN connected /\ map[s] = Port!HdmiPorts[b] /\ b \notin untold.hdmi
           => connected[s] = Port!Plug(b \in hdmiKnown)
    /\ \A n \in (1..2) \ untold.avin :
         Port!AvSource(n) \in DOMAIN connected => connected[Port!AvSource(n)] = Port!Plug(avinKnown[n] = "IN")

LEMMA PortsInitIInv == Port!Init => PortsIInv
<1> SUFFICES ASSUME Port!Init PROVE PortsIInv
  OBVIOUS
<1>1. MapMade
  BY MapsAreMade
<1>2. DOMAIN connected = {}
  BY DEF Port!Init
<1>3. hdmi \subseteq 1..4 /\ avin \in [1..2 -> Statuses] /\ avinKnown \in [1..2 -> Statuses]
  BY DEF Port!Init, Statuses
<1>4. /\ ~started /\ started \in BOOLEAN /\ hdmiKnown \subseteq 1..4
      /\ handling.device = "none"
  BY DEF Port!Init, Port!Nobody
<1>5. untold = [hdmi |-> untold.hdmi, avin |-> untold.avin]
  BY DEF Port!Init
<1> QED BY <1>1, <1>2, <1>3, <1>4, <1>5 DEF PortsIInv

\* An HDMI source on a port is the one that its bit leads to, and no other's.
LEMMA BitOfSource ==
    ASSUME MapMade, NEW n \in 1..4, NEW b \in 1..4, map[Port!HdmiSources[n]] = Port!HdmiPorts[b]
    PROVE  /\ \A c \in 1..4 : Port!ChipHdmiPortMaptoSourceInput(c) = Port!HdmiSources[n] <=> c = b
           /\ Port!ChipHdmiPort(Port!HdmiSources[n]) = b
           /\ Port!HdmiPortID(Port!HdmiSources[n]) = b
<1> DEFINE s == Port!HdmiSources[n]
<1>1. s \in AllSources \ {"SPDIF"} /\ map[s] # NoPort
  BY DEF Port!HdmiSources, Port!HdmiPorts, AllSources, NoPort
<1>2. \A c \in 1..4 : Port!HdmiPorts[c] = Port!HdmiPorts[b] => c = b
  BY DEF Port!HdmiPorts
<1>3. Port!ChipHdmiPortMaptoSourceInput(b) = s
  BY <1>1, PortLeadsBack DEF Port!ChipHdmiPortMaptoSourceInput
<1>4. ASSUME NEW c \in 1..4, Port!ChipHdmiPortMaptoSourceInput(c) = s PROVE c = b
  <2>1. map[s] = Port!HdmiPorts[c]
    BY <1>4, HasPort DEF Port!ChipHdmiPortMaptoSourceInput, Port!NoSource, Port!HdmiSources,
                         Port!HdmiPorts, NoPort
  <2> QED BY <1>2, <2>1
<1>5. Port!ChipHdmiPort(s) = b /\ Port!HdmiPortID(s) = b
  BY <1>2 DEF Port!ChipHdmiPort, Port!HdmiPortID
<1> QED BY <1>3, <1>4, <1>5

LEMMA PortsStepIInv == PortsIInv /\ [Port!Next]_ports => PortsIInv'
<1> SUFFICES ASSUME PortsIInv, [Port!Next]_ports PROVE PortsIInv'
  OBVIOUS
<1> USE DEF Port!Handled, Statuses
<1>1. ASSUME NEW bit \in Cables, Port!PlugHdmi(bit) PROVE PortsIInv'
  BY <1>1, PortsAssumption DEF PortsIInv, Port!PlugHdmi, MapMade
<1>2. ASSUME NEW n \in 1..2, NEW status \in {"IN", "OUT", "UNKNOWN"}, Port!PlugAv(n, status) PROVE PortsIInv'
  BY <1>2 DEF PortsIInv, Port!PlugAv, MapMade
<1>3. ASSUME Port!StartDetect PROVE PortsIInv'
  <2>1. \A b \in 1..4 : b \notin untold'.hdmi => b \notin untold.hdmi /\ (b \in hdmi <=> b \in hdmiKnown)
    BY <1>3 DEF Port!StartDetect, Port!Differing
  <2>2. \A n \in 1..2 : n \notin untold'.avin => n \notin untold.avin /\ (avin[n] = "IN" <=> avinKnown[n] = "IN")
    BY <1>3 DEF Port!StartDetect, Port!Opposed
  <2>3. ASSUME NEW n \in 1..4, NEW b \in 1..4, Port!HdmiSources[n] \in DOMAIN connected,
               map[Port!HdmiSources[n]] = Port!HdmiPorts[b], b \notin untold'.hdmi
        PROVE  connected[Port!HdmiSources[n]] = Port!Plug(b \in hdmi)
    BY <2>1, <2>3 DEF PortsIInv, Port!Plug
  <2>4. ASSUME NEW n \in 1..2, n \notin untold'.avin, Port!AvSource(n) \in DOMAIN connected
        PROVE  connected[Port!AvSource(n)] = Port!Plug(avin[n] = "IN")
    BY <2>2, <2>4 DEF PortsIInv, Port!Plug
  <2> QED BY <1>3, <2>3, <2>4 DEF PortsIInv, Port!StartDetect, MapMade
<1>4. ASSUME NEW d \in {"hdmi", "avin"}, Port!PollRead(d) PROVE PortsIInv'
  BY <1>4 DEF PortsIInv, Port!PollRead, MapMade
<1>5. ASSUME Port!TellHdmi PROVE PortsIInv'
  <2> DEFINE changed == {b \in 1..4 : (b \in handling.read) # (b \in hdmiKnown)}
             sources == {Port!ChipHdmiPortMaptoSourceInput(b) : b \in changed}
  <2>1. connected' = Port!ToldHdmi(changed)
    BY <1>5 DEF Port!TellHdmi
  <2>2. DOMAIN connected' = sources \cup DOMAIN connected
    BY <2>1 DEF Port!ToldHdmi
  <2>3. \A t \in DOMAIN connected' :
           connected'[t] = IF t \in sources
                           THEN Port!Plug(\E c \in handling.read : Port!ChipHdmiPortMaptoSourceInput(c) = t)
                           ELSE connected[t]
    BY <2>1, <2>2 DEF Port!ToldHdmi
  <2>4. ASSUME NEW n \in 1..4, NEW b \in 1..4, Port!HdmiSources[n] \in DOMAIN connected',
               map[Port!HdmiSources[n]] = Port!HdmiPorts[b], b \notin untold'.hdmi
        PROVE  connected'[Port!HdmiSources[n]] = Port!Plug(b \in handling.read)
    <3> DEFINE s == Port!HdmiSources[n]
    <3>1. \A c \in 1..4 : Port!ChipHdmiPortMaptoSourceInput(c) = s <=> c = b
      BY <2>4, BitOfSource DEF PortsIInv
    <3>2. handling.read \subseteq 1..4
      BY <1>5 DEF PortsIInv, Port!TellHdmi
    <3>3. CASE s \in sources
      <4>1. (\E c \in handling.read : Port!ChipHdmiPortMaptoSourceInput(c) = s) <=> b \in handling.read
        <5> HIDE DEF s
        <5>1. Port!ChipHdmiPortMaptoSourceInput(b) = s
          BY <3>1
        <5>2. (\E c \in handling.read : Port!ChipHdmiPortMaptoSourceInput(c) = s) => b \in handling.read
          BY <3>1, <3>2
        <5> QED BY <5>1, <5>2
      <4> HIDE DEF sources, s
      <4> QED BY <2>3, <2>4, <3>3, <4>1 DEF s, Port!Plug
    <3>4. CASE s \notin sources
      <4>1. (b \in handling.read) = (b \in hdmiKnown)
        BY <3>1, <3>4
      <4>2. s \in DOMAIN connected /\ connected'[s] = connected[s]
        BY <2>2, <2>3, <2>4, <3>4
      <4>3. b \notin untold.hdmi
        BY <1>5, <2>4, <4>1 DEF Port!TellHdmi, PortsIInv
      <4> QED BY <2>4, <4>1, <4>2, <4>3 DEF PortsIInv, Port!Plug
    <3> QED BY <3>3, <3>4
  <2>5. \A n \in 1..2 : Port!AvSource(n) \notin sources
    <3> SUFFICES ASSUME NEW c \in 1..4, NEW n \in 1..2,
                        Port!ChipHdmiPortMaptoSourceInput(c) = Port!AvSource(n)
                 PROVE  FALSE
      OBVIOUS
    <3>1. Port!AvSource(n) \in {"AV1", "AV2"}
      BY DEF Port!AvSource
    <3>2. map[Port!AvSource(n)] = Port!HdmiPorts[c]
      BY <3>1, HasPort DEF PortsIInv, Port!ChipHdmiPortMaptoSourceInput, Port!NoSource, Port!HdmiPorts, NoPort
    <3> QED BY <3>1, <3>2 DEF PortsIInv, MapMade
  <2>6. \A n \in (1..2) \ untold.avin : Port!AvSource(n) \in DOMAIN connected' =>
           connected'[Port!AvSource(n)] = Port!Plug(avinKnown[n] = "IN")
    <3> HIDE DEF sources
    <3> QED BY <2>2, <2>3, <2>5 DEF PortsIInv
  <2>7. /\ started /\ handling.read \subseteq 1..4
        /\ untold' = [hdmi |-> untold'.hdmi, avin |-> untold.avin]
    BY <1>5 DEF PortsIInv, Port!TellHdmi
  <2> HIDE DEF sources, changed
  <2> QED BY <1>5, <2>4, <2>6, <2>7 DEF PortsIInv, Port!TellHdmi, Port!Nobody, MapMade
<1>6. ASSUME Port!TellAvin PROVE PortsIInv'
  <2> DEFINE changed == {n \in 1..2 : handling.read[n] # avinKnown[n]}
  <2>1. connected' = Port!ToldAvin(changed)
    BY <1>6 DEF Port!TellAvin
  <2>2. started /\ handling.read \in [1..2 -> Statuses]
    BY <1>6 DEF PortsIInv, Port!TellAvin
  <2>3. \A n \in 1..2 : Port!AvSource(n) \in {Port!AvSource(m) : m \in changed} => n \in changed
    BY DEF Port!AvSource
  <2>4. ASSUME NEW n \in 1..2, n \notin untold'.avin, Port!AvSource(n) \in DOMAIN connected'
        PROVE  connected'[Port!AvSource(n)] = Port!Plug(handling.read[n] = "IN")
    <3>1. CASE n \in changed
      BY <2>1, <3>1 DEF Port!ToldAvin, Port!AvSource
    <3>2. CASE n \notin changed
      <4>1. /\ Port!AvSource(n) \in DOMAIN connected
            /\ connected'[Port!AvSource(n)] = connected[Port!AvSource(n)]
        BY <2>1, <2>3, <2>4, <3>2 DEF Port!ToldAvin
      <4>2. n \notin untold.avin
        BY <1>6, <2>4, <3>2 DEF Port!TellAvin, PortsIInv
      <4> QED BY <3>2, <4>1, <4>2 DEF PortsIInv
    <3> QED BY <3>1, <3>2
  <2>5. \A n \in 1..4 : Port!HdmiSources[n] \notin {Port!AvSource(m) : m \in changed}
    BY DEF Port!AvSource, Port!HdmiSources
  <2>6. \A n \in 1..4 : Port!HdmiSources[n] \in DOMAIN connected' =>
           /\ Port!HdmiSources[n] \in DOMAIN connected
           /\ connected'[Port!HdmiSources[n]] = connected[Port!HdmiSources[n]]
    BY <2>1, <2>5 DEF Port!ToldAvin
  <2>7. untold' = [hdmi |-> untold.hdmi, avin |-> untold'.avin]
    BY <1>6 DEF PortsIInv, Port!TellAvin
  <2>8. /\ "hdmi" \notin edges => hdmiKnown = hdmi
        /\ "avin" \notin edges => handling.read = avin
        /\ handling' = Port!Nobody /\ avinKnown' = handling.read
        /\ UNCHANGED <<map, hdmi, avin, edges, started, hdmiKnown>>
    BY <1>6, <2>2 DEF PortsIInv, Port!TellAvin
  <2>9. \A n, b \in 1..4 :
           LET s == Port!HdmiSources[n] IN
           s \in DOMAIN connected' /\ map[s] = Port!HdmiPorts[b] /\ b \notin untold'.hdmi
             => connected'[s] = Port!Plug(b \in hdmiKnown)
    <3> HIDE DEF changed
    <3> QED BY <2>6, <2>7 DEF PortsIInv
  <2> HIDE DEF changed
  <2> QED BY <2>2, <2>4, <2>7, <2>8, <2>9 DEF PortsIInv, Port!Nobody, MapMade
<1>7. ASSUME NEW n \in 1..4, Port!AskHdmi(Port!HdmiSources[n]) PROVE PortsIInv'
  <2> DEFINE s == Port!HdmiSources[n]
  <2>1. hdmiKnown' = hdmi /\ connected' = Port!Answered(s, Port!ChipHdmiPort(s) \in hdmi)
    BY <1>7 DEF Port!AskHdmi
  <2>2. /\ untold' = [hdmi |-> untold'.hdmi, avin |-> untold.avin]
        /\ \A b \in 1..4 : b \notin untold'.hdmi =>
             b = Port!HdmiPortID(s) \/ (b \notin untold.hdmi /\ (b \in hdmi <=> b \in hdmiKnown))
    BY <1>7 DEF PortsIInv, Port!AskHdmi, Port!Differing
  <2>3. \A m \in 1..2 : Port!AvSource(m) # s
    BY DEF Port!AvSource, Port!HdmiSources
  <2>4. ASSUME NEW m \in 1..4, NEW b \in 1..4, Port!HdmiSources[m] \in DOMAIN connected',
               map[Port!HdmiSources[m]] = Port!HdmiPorts[b], b \notin untold'.hdmi
        PROVE  connected'[Port!HdmiSources[m]] = Port!Plug(b \in hdmi)
    <3>1. CASE Port!HdmiSources[m] = s
      BY <2>1, <2>4, <3>1, BitOfSource DEF PortsIInv, Port!Answered
    <3>2. CASE Port!HdmiSources[m] # s
      <4>1. /\ Port!HdmiSources[m] \in DOMAIN connected
            /\ connected'[Port!HdmiSources[m]] = connected[Port!HdmiSources[m]]
        BY <2>1, <2>4, <3>2 DEF Port!Answered
      <4>2. b # Port!HdmiPortID(s)
        <5> SUFFICES ASSUME b = Port!HdmiPortID(s) PROVE FALSE
          OBVIOUS
        <5>1. map[s] = Port!HdmiPorts[b]
          BY DEF Port!HdmiPortID
        <5>2. Port!ChipHdmiPortMaptoSourceInput(b) = s /\ Port!ChipHdmiPortMaptoSourceInput(b) = Port!HdmiSources[m]
          BY <2>4, <5>1, BitOfSource DEF PortsIInv
        <5> QED BY <3>2, <5>2
      <4>3. b \notin untold.hdmi /\ (b \in hdmi <=> b \in hdmiKnown)
        BY <2>2, <2>4, <4>2
      <4> QED BY <2>4, <4>1, <4>3 DEF PortsIInv, Port!Plug
    <3> QED BY <3>1, <3>2
  <2>5. \A m \in 1..2 : Port!AvSource(m) \in DOMAIN connected' =>
           /\ Port!AvSource(m) \in DOMAIN connected
           /\ connected'[Port!AvSource(m)] = connected[Port!AvSource(m)]
    BY <2>1, <2>3 DEF Port!Answered
  <2> HIDE DEF s
  <2> QED BY <1>7, <2>1, <2>2, <2>4, <2>5 DEF PortsIInv, Port!AskHdmi, MapMade
<1>8. ASSUME NEW n \in 1..2, Port!AskAv(n) PROVE PortsIInv'
  <2>1. connected' = Port!Answered(Port!AvSource(n), avin[n] = "IN")
    BY <1>8 DEF Port!AskAv
  <2>2. /\ avinKnown' \in [1..2 -> Statuses] /\ avinKnown'[2] = avinKnown[2]
        /\ avinKnown'[1] = (IF n = 2 THEN avin[1] ELSE avinKnown[1])
        /\ avinKnown = avin => avinKnown' = avin
    BY <1>8 DEF PortsIInv, Port!AskAv
  <2>3. /\ untold' = [hdmi |-> untold.hdmi, avin |-> untold'.avin]
        /\ \A m \in 1..2 : m \notin untold'.avin =>
             /\ m <= n => (avin[m] = "IN" <=> avinKnown[m] = "IN")
             /\ m # n => m \notin untold.avin
    BY <1>8 DEF PortsIInv, Port!AskAv, Port!Opposed
  <2>4. \A m \in 1..2 : Port!AvSource(m) = Port!AvSource(n) => m = n
    BY DEF Port!AvSource
  <2>5. ASSUME NEW m \in 1..2, m \notin untold'.avin, Port!AvSource(m) \in DOMAIN connected'
        PROVE  connected'[Port!AvSource(m)] = Port!Plug(avinKnown'[m] = "IN")
    <3>1. CASE m = n
      <4>1. avinKnown'[m] = "IN" <=> avin[m] = "IN"
        BY <2>2, <2>3, <2>5, <3>1
      <4> QED BY <2>1, <2>5, <3>1, <4>1 DEF Port!Answered, Port!Plug
    <3>2. CASE m # n
      <4>1. /\ Port!AvSource(m) \in DOMAIN connected
            /\ connected'[Port!AvSource(m)] = connected[Port!AvSource(m)]
        BY <2>1, <2>4, <2>5, <3>2 DEF Port!Answered
      <4>2. m \notin untold.avin /\ (avinKnown'[m] = "IN" <=> avinKnown[m] = "IN")
        BY <2>2, <2>3, <2>5, <3>2
      <4> QED BY <2>5, <4>1, <4>2 DEF PortsIInv, Port!Plug
    <3> QED BY <3>1, <3>2
  <2>6. \A m \in 1..4 : Port!HdmiSources[m] # Port!AvSource(n)
    BY DEF Port!AvSource, Port!HdmiSources
  <2>7. \A m \in 1..4 : Port!HdmiSources[m] \in DOMAIN connected' =>
           /\ Port!HdmiSources[m] \in DOMAIN connected
           /\ connected'[Port!HdmiSources[m]] = connected[Port!HdmiSources[m]]
    BY <2>1, <2>6 DEF Port!Answered
  <2> QED BY <1>8, <2>2, <2>3, <2>5, <2>7 DEF PortsIInv, Port!AskAv, MapMade
<1>9. CASE UNCHANGED ports
  BY <1>9 DEF PortsIInv, MapMade, ports
<1> QED
  BY <1>1, <1>2, <1>3, <1>4, <1>5, <1>6, <1>7, <1>8, <1>9 DEF Port!Next

LEMMA PortsIInvKnown == PortsIInv => Port!ConnectKnown
<1> SUFFICES ASSUME PortsIInv PROVE Port!ConnectKnown
  OBVIOUS
<1>1. Port!RoundTrip
  BY RoundTripHolds DEF PortsIInv
<1>2. ASSUME Port!Handled("hdmi"), NEW n \in 1..4, NEW k \in 1..4, Port!HdmiSources[n] \in DOMAIN connected,
             map[Port!HdmiSources[n]] = Port!HdmiPorts[k], Port!HdmiPortID(Port!HdmiSources[n]) \notin untold.hdmi
      PROVE  connected[Port!HdmiSources[n]] = Port!Plug(Port!HdmiPortID(Port!HdmiSources[n]) \in hdmi)
  BY <1>2, BitOfSource DEF PortsIInv, Port!Handled
<1>3. Port!Handled("avin") => \A n \in (1..2) \ untold.avin :
         Port!AvSource(n) \in DOMAIN connected => connected[Port!AvSource(n)] = Port!Plug(avin[n] = "IN")
  BY DEF PortsIInv, Port!Handled
<1> QED BY <1>1, <1>2, <1>3 DEF Port!ConnectKnown

-----------------------------------------------------------------------------
(* Alerts and rating regions. *)

AlertsShape ==
    /\ DOMAIN alert = {"count", "id", "codes", "code", "locations", "location", "exceptions", "exception",
                       "texts", "text", "descriptors", "descriptor"}
    /\ \A array \in {alert.code, alert.location, alert.exception} : DOMAIN array = 1..Bounds.slots
    /\ DOMAIN alert.text = 1..2 /\ DOMAIN alert.descriptor = 1..2

\* What was told is what the last alert and the last ratings say.
ToldInv ==
    /\ (sent # Nothing /\ Len(Head(sent).texts) <= 1 /\ Len(Head(sent).descriptors) <= 1)
         => words = Alert!WordsOf(sent)
    /\ listed # Nothing =>
         listed \in Regions
           /\ rated = UNION {UNION {Alert!Ratings(listed, n, d) : d \in DOMAIN listed[n].dimensions} : n \in DOMAIN listed}

\* A service that has a handle, and no other, has opened demux 2.
DemuxInv ==
    /\ closed = 0
    /\ DOMAIN refs = Alert!Services /\ DOMAIN dmx = Alert!Services /\ DOMAIN handle = Alert!Services
    /\ \A s \in Alert!Services :
          /\ dmx[s] \in BOOLEAN /\ refs[s] = (IF dmx[s] THEN 1 ELSE 0)
          /\ handle[s] # "none" <=> dmx[s]

AlertsIInv == AlertsShape /\ ToldInv /\ DemuxInv

LEMMA AlertsInitIInv == Alert!Init => AlertsIInv
<1> SUFFICES ASSUME Alert!Init PROVE AlertsIInv
  OBVIOUS
<1>1. AlertsShape
  BY DEF Alert!Init, Alert!Empty, AlertsShape
<1>2. ToldInv
  BY DEF Alert!Init, ToldInv
<1>3. DemuxInv
  BY DEF Alert!Init, DemuxInv, Alert!Services
<1> QED BY <1>1, <1>2, <1>3 DEF AlertsIInv

\* What a service knows when it has stopped.
LEMMA DestroyedIs ==
    ASSUME DemuxInv, NEW s \in Alert!Services
    PROVE  LET d == Alert!Destroyed(s) IN d.refs = 0 /\ d.dmx = FALSE /\ d.closed = 0
<1>1. dmx[s] \in BOOLEAN /\ refs[s] = (IF dmx[s] THEN 1 ELSE 0)
  BY DEF DemuxInv
<1> QED BY <1>1 DEF Alert!Destroyed

LEMMA DemuxStarted ==
    ASSUME DemuxInv, NEW s \in Alert!Services, NEW after, Alert!Started(s, after), after.refs = 0, after.closed = 0
    PROVE  DemuxInv'
<1>1. Alert!Fails("open") = {FALSE} /\ Alert!Fails("create") = {FALSE}
  BY AlertsAssumption DEF Alert!Fails
<1>2. /\ dmx' = [dmx EXCEPT ![s] = TRUE] /\ refs' = [refs EXCEPT ![s] = 0 + 1] /\ closed' = closed + 0
      /\ handle' = [handle EXCEPT ![s] = "made"] \/ handle' = [handle EXCEPT ![s] = "scanning"]
  <2>1. PICK noUser \in Alert!Fails("user"), noMode \in Alert!Fails("mode") :
           /\ dmx' = [dmx EXCEPT ![s] = TRUE] /\ refs' = [refs EXCEPT ![s] = after.refs + 1]
           /\ closed' = closed + after.closed
           /\ handle' = [handle EXCEPT ![s] = CASE FALSE \/ FALSE -> IF after.stop THEN "none" ELSE handle[s]
                                                [] ~FALSE /\ ~FALSE /\ (noUser \/ noMode) -> "made"
                                                [] OTHER -> "scanning"]
    BY <1>1 DEF Alert!Started
  <2>2. noUser \in BOOLEAN /\ noMode \in BOOLEAN
    BY DEF Alert!Fails
  <2>3. handle' = [handle EXCEPT ![s] = "made"] \/ handle' = [handle EXCEPT ![s] = "scanning"]
    BY <2>1, <2>2
  <2> QED BY <2>1, <2>3
<1>3. handle'[s] # "none" /\ dmx'[s] = TRUE /\ refs'[s] = 1 /\ closed' = 0
  BY <1>2 DEF DemuxInv
<1>4. \A t \in Alert!Services \ {s} : handle'[t] = handle[t] /\ dmx'[t] = dmx[t] /\ refs'[t] = refs[t]
  BY <1>2 DEF DemuxInv
<1>5. DOMAIN refs' = Alert!Services /\ DOMAIN dmx' = Alert!Services /\ DOMAIN handle' = Alert!Services
  BY <1>2 DEF DemuxInv
<1>6. ASSUME NEW t \in Alert!Services
      PROVE  /\ dmx'[t] \in BOOLEAN /\ refs'[t] = (IF dmx'[t] THEN 1 ELSE 0)
             /\ handle'[t] # "none" <=> dmx'[t]
  <2>1. CASE t = s
    BY <1>3, <2>1
  <2>2. CASE t # s
    BY <1>4, <2>2 DEF DemuxInv
  <2> QED BY <2>1, <2>2
<1> QED BY <1>3, <1>5, <1>6 DEF DemuxInv, Alert!Services

\* The arrays of the event, and what is counted of them, after a section.
LEMMA ArrayOver ==
    ASSUME NEW array, DOMAIN array = 1..Bounds.slots, NEW entries, IsList(entries), Len(entries) <= Bounds.slots
    PROVE  /\ DOMAIN Alert!Over(array, entries) = 1..Bounds.slots
           /\ Alert!Upto(Alert!Over(array, entries), Len(entries)) = entries
<1>1. Bounds.slots \in Nat /\ Len(entries) \in Nat /\ entries = [i \in 1..Len(entries) |-> entries[i]]
  BY AlertsAssumption DEF IsList
<1>2. \A i \in 1..Len(entries) : Alert!Over(array, entries)[i] = entries[i]
  BY <1>1 DEF Alert!Over
<1>3. DOMAIN Alert!Over(array, entries) = 1..Bounds.slots
  BY DEF Alert!Over
<1>4. Alert!Upto(Alert!Over(array, entries), Len(entries)) = [i \in 1..Len(entries) |-> entries[i]]
  <2> DEFINE over == Alert!Over(array, entries)
  <2>1. \A i \in 1..Len(entries) : over[i] = entries[i]
    BY <1>2
  <2>2. Alert!Upto(over, Len(entries)) = [i \in 1..Len(entries) |-> over[i]]
    BY DEF Alert!Upto
  <2> HIDE DEF over
  <2>3. [i \in 1..Len(entries) |-> over[i]] = [i \in 1..Len(entries) |-> entries[i]]
    BY <2>1
  <2> QED BY <2>2, <2>3 DEF over
<1> QED BY <1>1, <1>3, <1>4

\* The one text of a section is the first of the event.
LEMMA OneOver ==
    ASSUME NEW array, DOMAIN array = 1..2, NEW entries, IsList(entries)
    PROVE  /\ DOMAIN Alert!FirstOver(array, entries) = 1..2
           /\ Len(entries) <= 1 => \A i \in 1..Len(entries) : Alert!FirstOver(array, entries)[i] = entries[i]
<1> DEFINE over == Alert!FirstOver(array, entries)
<1>1. DOMAIN over = 1..2
  BY DEF Alert!FirstOver
<1>2. ASSUME Len(entries) <= 1, NEW i \in 1..Len(entries) PROVE over[i] = entries[i]
  <2>1. Len(entries) = 1 /\ i = 1 /\ entries # <<>>
    BY <1>2 DEF IsList
  <2>2. Alert!Last(entries) = entries[1]
    BY <2>1 DEF Alert!Last
  <2> QED BY <2>1, <2>2 DEF Alert!FirstOver
<1> HIDE DEF over
<1> QED BY <1>1, <1>2 DEF over

LEMMA CeaTold == ASSUME AlertsIInv, NEW list \in Sections, Alert!NewCea(list) PROVE AlertsShape' /\ ToldInv'
<1> DEFINE e == Head(list)
           of(x) == IF e.texts = <<>> THEN <<>> ELSE e.descriptors
<1>1. /\ alert' = Alert!Parsed(list) /\ words' = Alert!Words(alert') /\ sent' = list
      /\ UNCHANGED <<rated, listed>>
  BY DEF Alert!NewCea
<1>2. \A entries \in {e.codes, e.locations, e.exceptions} : IsList(entries) /\ Len(entries) <= Bounds.slots
  BY AlertsAssumption
<1>3. IsList(e.texts) /\ IsList(e.descriptors)
  BY AlertsAssumption
<1>4. /\ alert'.code = Alert!Over(alert.code, e.codes) /\ alert'.codes = Len(e.codes)
      /\ alert'.location = Alert!Over(alert.location, e.locations) /\ alert'.locations = Len(e.locations)
      /\ alert'.exception = Alert!Over(alert.exception, e.exceptions) /\ alert'.exceptions = Len(e.exceptions)
      /\ alert'.text = Alert!FirstOver(alert.text, e.texts) /\ alert'.texts = Len(e.texts)
      /\ alert'.descriptors = Alert!DescriptorCount(e)
      /\ alert'.descriptor = IF Alert!DescriptorCount(e) = 0 THEN alert.descriptor
                             ELSE Alert!FirstOver(alert.descriptor, e.descriptors)
      /\ alert'.count = Len(list) /\ alert'.id = e.id
      /\ DOMAIN alert' = {"count", "id", "codes", "code", "locations", "location", "exceptions", "exception",
                          "texts", "text", "descriptors", "descriptor"}
  BY <1>1 DEF Alert!Parsed
<1> HIDE DEF e
<1>5. /\ DOMAIN alert'.code = 1..Bounds.slots /\ Alert!Upto(alert'.code, alert'.codes) = e.codes
      /\ DOMAIN alert'.location = 1..Bounds.slots /\ Alert!Upto(alert'.location, alert'.locations) = e.locations
      /\ DOMAIN alert'.exception = 1..Bounds.slots /\ Alert!Upto(alert'.exception, alert'.exceptions) = e.exceptions
  <2>1. ASSUME NEW array \in {alert.code, alert.location, alert.exception},
               NEW entries \in {e.codes, e.locations, e.exceptions}
        PROVE  /\ DOMAIN Alert!Over(array, entries) = 1..Bounds.slots
               /\ Alert!Upto(Alert!Over(array, entries), Len(entries)) = entries
    <3>1. DOMAIN array = 1..Bounds.slots
      BY DEF AlertsIInv, AlertsShape
    <3> QED BY <1>2, <3>1, ArrayOver
  <2> QED BY <1>4, <2>1
<1>a. DOMAIN alert.text = 1..2 /\ DOMAIN alert.descriptor = 1..2
  BY DEF AlertsIInv, AlertsShape
<1>b. ASSUME NEW array \in {alert.text, alert.descriptor}, NEW entries \in {e.texts, e.descriptors}
      PROVE  /\ DOMAIN Alert!FirstOver(array, entries) = 1..2
             /\ Len(entries) <= 1 => \A i \in 1..Len(entries) : Alert!FirstOver(array, entries)[i] = entries[i]
  <2>1. DOMAIN array = 1..2 /\ IsList(entries)
    BY <1>3, <1>a
  <2> QED BY <2>1, OneOver
<1>6. DOMAIN alert'.text = 1..2 /\ DOMAIN alert'.descriptor = 1..2
  BY <1>4, <1>a, <1>b
<1>7. AlertsShape'
  BY <1>4, <1>5, <1>6, SMTT(30) DEF AlertsShape
<1>8. ASSUME Len(e.texts) <= 1, Len(e.descriptors) <= 1 PROVE words' = Alert!WordsOf(list)
  <2> DEFINE few == IF e.texts = <<>> THEN <<>> ELSE e.descriptors
  <2>1. [i \in 1..alert'.texts |-> Alert!Counted(alert'.text[i])] = [i \in 1..Len(e.texts) |-> Alert!Counted(e.texts[i])]
    BY <1>4, <1>8, <1>b
  <2>2. /\ alert'.descriptors = Len(few)
        /\ [i \in 1..alert'.descriptors |-> Alert!Counted(alert'.descriptor[i])]
             = [i \in 1..Len(few) |-> Alert!Counted(few[i])]
    <3>1. CASE Alert!DescriptorCount(e) = 0
      <4>1. Len(few) = 0
        BY <3>1 DEF Alert!DescriptorCount
      <4> HIDE DEF few
      <4> QED BY <1>4, <3>1, <4>1
    <3>2. CASE Alert!DescriptorCount(e) # 0
      <4>1. few = e.descriptors /\ Alert!DescriptorCount(e) = Len(e.descriptors)
        BY <3>2 DEF Alert!DescriptorCount
      <4>2. alert'.descriptor = Alert!FirstOver(alert.descriptor, e.descriptors)
        BY <1>4, <3>2
      <4> HIDE DEF few
      <4> QED BY <1>4, <1>8, <1>b, <4>1, <4>2
    <3> QED BY <3>1, <3>2
  <2>3. Alert!WordsOf(list) =
          <<Len(list), e.id>> \o Alert!Counted(e.codes) \o Alert!Counted(e.locations) \o Alert!Counted(e.exceptions)
            \o <<Len(e.texts)>> \o Alert!FlattenSeq([i \in 1..Len(e.texts) |-> Alert!Counted(e.texts[i])])
            \o <<Len(few)>> \o Alert!FlattenSeq([i \in 1..Len(few) |-> Alert!Counted(few[i])])
    BY DEF Alert!WordsOf, e
  <2> HIDE DEF few
  <2> QED BY <1>1, <1>4, <1>5, <2>1, <2>2, <2>3 DEF Alert!Words
<1>9. ToldInv'
  BY <1>1, <1>8 DEF ToldInv, AlertsIInv, e
<1> QED BY <1>7, <1>9

LEMMA AlertsStepIInv == AlertsIInv /\ [Alert!Next]_alerts => AlertsIInv'
<1> SUFFICES ASSUME AlertsIInv, [Alert!Next]_alerts PROVE AlertsIInv'
  OBVIOUS
<1>a. AlertsShape /\ ToldInv /\ DemuxInv
  BY DEF AlertsIInv
<1>b. ASSUME UNCHANGED <<alert, words, sent, rated, listed>> PROVE AlertsShape' /\ ToldInv'
  BY <1>a, <1>b DEF AlertsShape, ToldInv
<1>c. ASSUME UNCHANGED <<refs, closed, dmx, handle>> PROVE DemuxInv'
  BY <1>a, <1>c DEF DemuxInv, Alert!Services
<1>1. ASSUME NEW s \in Alert!Services, Alert!Update(s) PROVE AlertsIInv'
  <2>1. DemuxInv'
    <3>1. CASE handle[s] # "none"
      <4> DEFINE after == [refs |-> Alert!Destroyed(s).refs, closed |-> Alert!Destroyed(s).closed, stop |-> TRUE]
      <4>1. Alert!Started(s, after)
        BY <1>1, <3>1 DEF Alert!Update
      <4>2. after.refs = 0 /\ after.closed = 0
        BY <1>a, DestroyedIs
      <4> HIDE DEF after
      <4> QED BY <1>a, <4>1, <4>2, DemuxStarted
    <3>2. CASE handle[s] = "none"
      <4> DEFINE after == [refs |-> refs[s], closed |-> 0, stop |-> FALSE]
      <4>1. Alert!Started(s, after)
        BY <1>1, <3>2 DEF Alert!Update
      <4>2. after.refs = 0 /\ after.closed = 0
        BY <1>a, <3>2 DEF DemuxInv
      <4> HIDE DEF after
      <4> QED BY <1>a, <4>1, <4>2, DemuxStarted
    <3> QED BY <3>1, <3>2
  <2>2. AlertsShape' /\ ToldInv'
    BY <1>1, <1>b DEF Alert!Update
  <2> QED BY <2>1, <2>2 DEF AlertsIInv
<1>2. CASE Alert!StopBoth
  <2>1. /\ refs' = [s \in Alert!Services |-> Alert!Destroyed(s).refs]
        /\ dmx' = [s \in Alert!Services |-> Alert!Destroyed(s).dmx]
        /\ closed' = closed + Alert!Destroyed("eas").closed + Alert!Destroyed("rrt").closed
        /\ handle' = [s \in Alert!Services |-> "none"]
        /\ UNCHANGED <<alert, words, sent, rated, listed>>
    BY <1>2 DEF Alert!StopBoth
  <2>2. \A s \in Alert!Services : refs'[s] = 0 /\ dmx'[s] = FALSE /\ handle'[s] = "none"
    BY <1>a, <2>1, DestroyedIs
  <2>3. Alert!Destroyed("eas").closed = 0 /\ Alert!Destroyed("rrt").closed = 0
    BY <1>a, DestroyedIs DEF Alert!Services
  <2>4. closed' = 0
    BY <1>a, <2>1, <2>3 DEF DemuxInv
  <2>5. DemuxInv'
    BY <2>1, <2>2, <2>4 DEF DemuxInv, Alert!Services
  <2> QED BY <1>b, <2>1, <2>5 DEF AlertsIInv
<1>3. ASSUME NEW list \in Sections, Alert!NewCea(list) PROVE AlertsIInv'
  <2>1. AlertsShape' /\ ToldInv'
    BY <1>3, CeaTold
  <2>2. DemuxInv'
    BY <1>3, <1>c DEF Alert!NewCea
  <2> QED BY <2>1, <2>2 DEF AlertsIInv
<1>4. ASSUME NEW list \in Regions, Alert!NewRrt(list) PROVE AlertsIInv'
  <2>1. /\ rated' = UNION {UNION {Alert!Ratings(list, n, d) : d \in DOMAIN list[n].dimensions} : n \in DOMAIN list}
        /\ listed' = list /\ UNCHANGED <<refs, closed, dmx, handle, alert, words, sent>>
    BY <1>4 DEF Alert!NewRrt
  <2>2. ToldInv'
    BY <1>a, <2>1 DEF ToldInv
  <2>3. AlertsShape'
    BY <1>a, <2>1 DEF AlertsShape
  <2> QED BY <1>c, <2>1, <2>2, <2>3 DEF AlertsIInv
<1>5. CASE UNCHANGED alerts
  BY <1>5, <1>b, <1>c DEF alerts, AlertsIInv
<1> QED BY <1>1, <1>2, <1>3, <1>4, <1>5 DEF Alert!Next

\* The ratings of a region's dimension are those of its one place in the list.
LEMMA RatingsOf ==
    ASSUME NEW list \in Regions, NEW n \in DOMAIN list, NEW d \in DOMAIN list[n].dimensions, NEW all,
           all = UNION {UNION {Alert!Ratings(list, m, c) : c \in DOMAIN list[m].dimensions} : m \in DOMAIN list}
    PROVE  LET dimension == list[n].dimensions[d] IN
           {r.value : r \in {t \in all : t.region = list[n].region /\ t.dimension = dimension.name}}
             = {dimension.values[v] : v \in 2..Len(dimension.values)}
<1> DEFINE dimension == list[n].dimensions[d]
           Chosen == {t \in all : t.region = list[n].region /\ t.dimension = dimension.name}
<1>1. \A m, c : \A r \in Alert!Ratings(list, m, c) :
         r.region = list[m].region /\ r.dimension = list[m].dimensions[c].name
  BY DEF Alert!Ratings
<1>2. Chosen = Alert!Ratings(list, n, d)
  <2>1. ASSUME NEW r \in Chosen PROVE r \in Alert!Ratings(list, n, d)
    <3>1. PICK m \in DOMAIN list : \E c \in DOMAIN list[m].dimensions : r \in Alert!Ratings(list, m, c)
      OBVIOUS
    <3>2. PICK c \in DOMAIN list[m].dimensions : r \in Alert!Ratings(list, m, c)
      BY <3>1
    <3>3. list[m].region = list[n].region /\ list[m].dimensions[c].name = list[n].dimensions[d].name
      BY <1>1, <3>2
    <3>4. m = n /\ c = d
      BY <3>3, AlertsAssumption
    <3> QED BY <3>2, <3>4
  <2>2. ASSUME NEW r \in Alert!Ratings(list, n, d) PROVE r \in Chosen
    <3>1. r \in all
      OBVIOUS
    <3> QED BY <1>1, <3>1
  <2> HIDE DEF Chosen
  <2> QED BY <2>1, <2>2
<1>3. {r.value : r \in Alert!Ratings(list, n, d)} = {dimension.values[v] : v \in 2..Len(dimension.values)}
  <2>1. ASSUME NEW v \in 2..Len(dimension.values)
        PROVE  \E r \in Alert!Ratings(list, n, d) : r.value = dimension.values[v]
    <3> DEFINE r == [sections |-> Len(list), region |-> list[n].region, dimension |-> dimension.name,
                     values |-> Len(dimension.values) - 1, value |-> dimension.values[v]]
    <3>1. r \in Alert!Ratings(list, n, d)
      BY DEF Alert!Ratings
    <3>2. r.value = dimension.values[v]
      OBVIOUS
    <3> HIDE DEF r
    <3> QED BY <3>1, <3>2
  <2>2. ASSUME NEW r \in Alert!Ratings(list, n, d)
        PROVE  \E v \in 2..Len(dimension.values) : r.value = dimension.values[v]
    <3>1. PICK v \in 2..Len(dimension.values) :
             r = [sections |-> Len(list), region |-> list[n].region, dimension |-> dimension.name,
                  values |-> Len(dimension.values) - 1, value |-> dimension.values[v]]
      BY DEF Alert!Ratings
    <3> HIDE DEF dimension
    <3>2. r.value = dimension.values[v]
      BY <3>1
    <3> QED BY <3>2
  <2> HIDE DEF dimension
  <2> QED BY <2>1, <2>2
<1> HIDE DEF Chosen
<1> QED BY <1>2, <1>3 DEF Chosen

LEMMA AlertsIInvTold == AlertsIInv => Alert!AlertsTold
<1> SUFFICES ASSUME AlertsIInv PROVE Alert!AlertsTold
  OBVIOUS
<1>1. Alert!Largest <= 1024
  BY DEF Alert!Largest
<1>2. ASSUME listed # Nothing, NEW n \in DOMAIN listed, NEW d \in DOMAIN listed[n].dimensions
      PROVE  LET dimension == listed[n].dimensions[d] IN
             {r.value : r \in {t \in rated : t.region = listed[n].region /\ t.dimension = dimension.name}}
               = {dimension.values[v] : v \in 2..Len(dimension.values)}
  <2>1. listed \in Regions
        /\ rated = UNION {UNION {Alert!Ratings(listed, m, c) : c \in DOMAIN listed[m].dimensions} : m \in DOMAIN listed}
    BY <1>2 DEF AlertsIInv, ToldInv
  <2> QED BY <2>1, RatingsOf
<1>3. (sent # Nothing /\ Len(Head(sent).texts) <= 1 /\ Len(Head(sent).descriptors) <= 1)
        => words = Alert!WordsOf(sent)
  BY DEF AlertsIInv, ToldInv
<1>4. closed = 0 /\ \A s \in Alert!Services : refs[s] = (IF dmx[s] THEN 1 ELSE 0) /\ (handle[s] # "none" => dmx[s])
  BY DEF AlertsIInv, DemuxInv
<1> QED BY <1>1, <1>2, <1>3, <1>4 DEF Alert!AlertsTold

-----------------------------------------------------------------------------
(* The player's reports. *)

EventTypes == {"VIDEO_AVAILABLE", "RESUME", "UNSUPPORT", "SCAMBLED", "STOP", "STARTTIME_CHANGE", "CURTIME_CHANGE"}
AVEvents == [type : EventTypes, status : 0..3, time : Nat, of : Seq(Nat)]

\* An event of these types comes after the n-th.
Later(q, n, types) == \E m \in 1..Len(q) : n < m /\ q[m].type \in types
NoneOf(q, types) == \A m \in 1..Len(q) : q[m].type \notin types

\* The last event of these types is e.
LastWord(q, types, e) == \E n \in 1..Len(q) : q[n] = e /\ e.type \in types /\ ~Later(q, n, types)

LEMMA Appended ==
    ASSUME NEW q \in Seq(AVEvents), NEW e \in AVEvents, NEW types
    PROVE  /\ e.type \in types => \A x : LastWord(Append(q, e), types, x) => x = e
           /\ e.type \notin types => \A x : LastWord(Append(q, e), types, x) => LastWord(q, types, x)
           /\ NoneOf(Append(q, e), types) <=> NoneOf(q, types) /\ e.type \notin types
<1> DEFINE a == Append(q, e)
           L == Len(q) + 1
<1>1. /\ Len(a) = L /\ a[L] = e /\ Len(q) \in Nat
      /\ \A n \in 1..Len(q) : a[n] = q[n]
  BY AppendProperties, LenProperties
<1> HIDE DEF a
<1>2. ASSUME e.type \in types, NEW x, LastWord(a, types, x) PROVE x = e
  <2>1. PICK n \in 1..Len(a) : a[n] = x /\ ~Later(a, n, types)
    BY <1>2 DEF LastWord
  <2>2. ~(n < L)
    BY <1>1, <1>2, <2>1 DEF Later
  <2> QED BY <1>1, <2>1, <2>2
<1>3. ASSUME e.type \notin types, NEW x, LastWord(a, types, x) PROVE LastWord(q, types, x)
  <2>1. PICK n \in 1..Len(a) : a[n] = x /\ x.type \in types /\ ~Later(a, n, types)
    BY <1>3 DEF LastWord
  <2>2. n # L
    BY <1>1, <1>3, <2>1
  <2>3. n \in 1..Len(q) /\ q[n] = x
    BY <1>1, <2>1, <2>2
  <2>4. ~Later(q, n, types)
    BY <1>1, <2>1 DEF Later
  <2> QED BY <2>1, <2>3, <2>4 DEF LastWord
<1>4. NoneOf(a, types) <=> NoneOf(q, types) /\ e.type \notin types
  <2>1. 1..Len(a) = 1..Len(q) \cup {L}
    BY <1>1
  <2> QED BY <1>1, <2>1 DEF NoneOf
<1> QED BY <1>2, <1>3, <1>4 DEF a

LEMMA FirstGone ==
    ASSUME NEW q \in Seq(AVEvents), q # <<>>, NEW types
    PROVE  /\ \A x : LastWord(Tail(q), types, x) => LastWord(q, types, x)
           /\ NoneOf(Tail(q), types) /\ Head(q).type \in types => LastWord(q, types, Head(q))
           /\ NoneOf(q, types) <=> NoneOf(Tail(q), types) /\ Head(q).type \notin types
<1> DEFINE t == Tail(q)
<1>1. /\ Len(q) \in Nat \ {0} /\ Len(t) = Len(q) - 1 /\ Head(q) = q[1]
      /\ \A n \in 1..Len(t) : t[n] = q[n + 1]
  BY HeadTailProperties, EmptySeq
<1> HIDE DEF t
<1>2. \A n \in 1..Len(q) : n = 1 \/ (n - 1 \in 1..Len(t) /\ t[n - 1] = q[n])
  BY <1>1
<1>3. ASSUME NEW x, LastWord(t, types, x) PROVE LastWord(q, types, x)
  <2>1. PICK n \in 1..Len(t) : t[n] = x /\ x.type \in types /\ ~Later(t, n, types)
    BY <1>3 DEF LastWord
  <2>2. n + 1 \in 1..Len(q) /\ q[n + 1] = x
    BY <1>1, <2>1
  <2>3. ASSUME NEW m \in 1..Len(q), n + 1 < m PROVE q[m].type \notin types
    <3>1. m - 1 \in 1..Len(t) /\ t[m - 1] = q[m] /\ n < m - 1
      BY <1>1, <1>2, <2>3
    <3> QED BY <2>1, <3>1 DEF Later
  <2> QED BY <2>1, <2>2, <2>3 DEF LastWord, Later
<1>4. NoneOf(q, types) <=> NoneOf(t, types) /\ Head(q).type \notin types
  <2>1. ASSUME NoneOf(q, types) PROVE NoneOf(t, types) /\ Head(q).type \notin types
    <3>1. \A n \in 1..Len(t) : n + 1 \in 1..Len(q)
      BY <1>1
    <3>2. 1 \in 1..Len(q)
      BY <1>1
    <3> QED BY <1>1, <2>1, <3>1, <3>2 DEF NoneOf
  <2>2. ASSUME NoneOf(t, types), Head(q).type \notin types PROVE NoneOf(q, types)
    BY <1>1, <1>2, <2>2 DEF NoneOf
  <2> QED BY <2>1, <2>2
<1>5. ASSUME NoneOf(t, types), Head(q).type \in types PROVE LastWord(q, types, Head(q))
  <2>1. 1 \in 1..Len(q)
    BY <1>1
  <2>2. ASSUME NEW m \in 1..Len(q), 1 < m PROVE q[m].type \notin types
    BY <1>2, <1>5, <2>2 DEF NoneOf
  <2> QED BY <1>1, <1>5, <2>1, <2>2 DEF LastWord, Later
<1> QED BY <1>3, <1>4, <1>5 DEF t

-----------------------------------------------------------------------------
OfPicture == {"VIDEO_AVAILABLE", "RESUME", "UNSUPPORT"}
OfTime == {"STARTTIME_CHANGE", "CURTIME_CHANGE"}
Gives(e) == IF e.type = "UNSUPPORT" THEN "refused" ELSE "shown"

PlayerShape ==
    /\ DOMAIN fields = {"shift", "starting", "mute", "supported", "lost", "start", "status"}
    /\ DOMAIN decoder = {"kind", "video", "sound", "muted", "output"}
    /\ DOMAIN playback = {"record", "playback", "number"}
    /\ DOMAIN playback.playback = {"open", "video", "audio", "state", "obsolete"}
    /\ DOMAIN viewer = {"track", "mute", "output", "picture", "start", "now"}
    /\ DOMAIN decoded = {"picture", "refused", "losses"}
    /\ posted \in Seq(AVEvents)
    /\ fields.lost \in Nat /\ decoded.losses \in Nat /\ playback.number \in Nat
    /\ viewer.now[1] \in Nat

\* The last word on the picture that waits is what the decoders made of it, and
\* if there is none, clients know; losses of this program are not fewer than
\* those counted.
PictureInv ==
    /\ decoded.refused <=> ~fields.supported
    /\ decoder.kind # "none" => fields.lost <= decoded.losses
    /\ watched # Nothing =>
          /\ \A e : LastWord(posted, OfPicture, e) => Gives(e) = decoded.picture
          /\ NoneOf(posted, OfPicture) => viewer.picture = decoded.picture
    /\ \A n \in 1..Len(posted) :
          posted[n].type = "SCAMBLED" /\ posted[n].of # <<>> => posted[n].of[1] >= 3

\* Times that wait are of the record that plays, the last of them says where it
\* starts now, and a start that does not wait is known.
TimeInv ==
    /\ playback.playback.open => watched # Nothing
    /\ viewer.now[1] <= playback.number
    /\ \A n \in 1..Len(posted) :
          posted[n].type \in OfTime => posted[n].status \in 1..3 /\ posted[n].of[1] = playback.number
    /\ ~NoneOf(posted, OfTime) => playback.playback.open /\ fields.start # -1
    /\ \A e : LastWord(posted, OfTime, e) =>
          e.type = "CURTIME_CHANGE" /\ e.of = <<playback.number, fields.start>>
    /\ \A e : LastWord(posted, {"STARTTIME_CHANGE"}, e) =>
          <<e.of[1], e.time>> = <<playback.number, fields.start>>
    /\ NoneOf(posted, {"STARTTIME_CHANGE"}) /\ playback.playback.open /\ fields.start # -1 =>
          viewer.start = <<playback.number, fields.start>>
    /\ NoneOf(posted, OfTime) /\ viewer.now[1] = playback.number => viewer.now = viewer.start

PlayerIInv == PlayerShape /\ PictureInv /\ TimeInv

LEMMA EmptyWords == \A types : NoneOf(<<>>, types) /\ \A e : ~LastWord(<<>>, types, e)
  BY DEF NoneOf, LastWord

\* The invariant where nothing waits.
NothingWaiting ==
    /\ PlayerShape /\ posted = <<>>
    /\ decoded.refused <=> ~fields.supported
    /\ decoder.kind # "none" => fields.lost <= decoded.losses
    /\ watched # Nothing => viewer.picture = decoded.picture
    /\ playback.playback.open => watched # Nothing
    /\ viewer.now[1] <= playback.number
    /\ playback.playback.open /\ fields.start # -1 => viewer.start = <<playback.number, fields.start>>
    /\ viewer.now[1] = playback.number => viewer.now = viewer.start

LEMMA NothingWaits == posted = <<>> => (PlayerIInv <=> NothingWaiting)
<1> SUFFICES ASSUME posted = <<>> PROVE PlayerIInv <=> NothingWaiting
  OBVIOUS
<1>1. \A types : NoneOf(posted, types) /\ \A e : ~LastWord(posted, types, e)
  BY EmptyWords
<1>2. 1..Len(posted) = {}
  OBVIOUS
<1> HIDE DEF PlayerShape
<1>3. NothingWaiting => PictureInv
  BY <1>1, <1>2 DEF PictureInv, NothingWaiting
<1>4. NothingWaiting => TimeInv
  BY <1>1, <1>2 DEF TimeInv, NothingWaiting
<1>5. PictureInv /\ TimeInv /\ PlayerShape => NothingWaiting
  BY <1>1 DEF PictureInv, TimeInv, NothingWaiting
<1> QED BY <1>3, <1>4, <1>5 DEF PlayerIInv, NothingWaiting

\* So it is after a step.
LEMMA NothingWaitsNow == NothingWaiting' => PlayerIInv'
<1>1. NothingWaiting => PlayerIInv
  BY NothingWaits DEF NothingWaiting
<1> QED BY <1>1, PTL

LEMMA PlayerInitIInv == Player!Init => PlayerIInv
<1> SUFFICES ASSUME Player!Init PROVE PlayerIInv
  OBVIOUS
<1> USE DEF Player!Init, Player!Nobody, Player!NoPlayback
<1>1. /\ DOMAIN fields = {"shift", "starting", "mute", "supported", "lost", "start", "status"}
      /\ fields.lost = 0 /\ fields.supported = TRUE
  OBVIOUS
<1>2. DOMAIN decoder = {"kind", "video", "sound", "muted", "output"} /\ decoder.kind = "none"
  OBVIOUS
<1>3. /\ DOMAIN playback = {"record", "playback", "number"} /\ playback.number = 0
      /\ DOMAIN playback.playback = {"open", "video", "audio", "state", "obsolete"} /\ playback.playback.open = FALSE
  OBVIOUS
<1>4. /\ DOMAIN viewer = {"track", "mute", "output", "picture", "start", "now"}
      /\ viewer.now = <<0, 0>> /\ viewer.start = <<0, 0>>
  OBVIOUS
<1>5. /\ DOMAIN decoded = {"picture", "refused", "losses"} /\ decoded.refused = FALSE /\ decoded.losses = 0
      /\ posted = <<>> /\ posted \in Seq(AVEvents) /\ watched = Nothing
  OBVIOUS
<1>6. PlayerShape
  BY <1>1, <1>2, <1>3, <1>4, <1>5 DEF PlayerShape
<1> QED BY <1>1, <1>2, <1>3, <1>4, <1>5, <1>6, NothingWaits DEF NothingWaiting

LEMMA PlayerIInvTold == PlayerIInv => Player!PictureTold /\ Player!TimesTold
<1> SUFFICES ASSUME PlayerIInv PROVE Player!PictureTold /\ Player!TimesTold
  OBVIOUS
<1>1. posted = <<>> => \A types : NoneOf(posted, types)
  BY EmptyWords
<1>2. DOMAIN posted = 1..Len(posted)
  BY DEF PlayerIInv, PlayerShape
<1>3. Player!PictureTold
  BY <1>1, <1>2 DEF PlayerIInv, PictureInv, Player!PictureTold, Player!Losses, Player!Range
<1>4. Player!TimesTold
  BY <1>1 DEF PlayerIInv, TimeInv, Player!TimesTold
<1> QED BY <1>3, <1>4

-----------------------------------------------------------------------------
\* Commands, which come when nothing waits.
LEMMA CommandsStep ==
    ASSUME PlayerIInv,
           Player!PlayStart \/ Player!BackToLive \/ Player!PlayStop \/ Player!switchAudioTrack
             \/ Player!AudioSetMute \/ Player!setAudioChannel \/ Player!Speed
    PROVE  PlayerIInv'
<1>1. Player!Called
  BY DEF Player!PlayStart, Player!BackToLive, Player!Start, Player!PlayStop, Player!switchAudioTrack,
         Player!AudioSetMute, Player!setAudioChannel, Player!Speed
<1>2. posted = <<>> /\ posted' = <<>>
  BY <1>1 DEF Player!Called
<1>3. NothingWaiting
  BY <1>2, NothingWaits
<1> USE DEF NothingWaiting, PlayerShape
<1>4. ASSUME NEW p, p # Nothing, NEW ask, NEW way \in {"shift", "live", "nothing"}, Player!Start(p, ask, way) PROVE PlayerIInv'
  <2>1. watched' = p
    BY <1>4 DEF Player!Start
  <2>2. /\ DOMAIN viewer' = DOMAIN viewer /\ viewer'.picture = "none" /\ viewer'.start = viewer.start
        /\ viewer'.now = viewer.now
    BY <1>4 DEF Player!Start
  <2>3. /\ DOMAIN decoded' = DOMAIN decoded /\ decoded'.picture = "none" /\ decoded'.losses = 0
        /\ decoded'.refused = decoded.refused
    BY <1>4 DEF Player!Start
  <2>4. CASE way = "shift"
    <3>1. Player!StartTimeShift(p)
      BY <1>4, <2>4 DEF Player!Start
    <3>2. DOMAIN decoder' = {"kind", "video", "sound", "muted", "output"}
      BY <3>1 DEF Player!StartTimeShift, Player!Nobody
    <3>3. /\ DOMAIN fields' = DOMAIN fields /\ fields'.lost = 0 /\ fields'.start = -1
          /\ fields'.supported = fields.supported
      BY <3>1 DEF Player!StartTimeShift
    <3>4. /\ DOMAIN playback' = {"record", "playback", "number"} /\ playback'.number = playback.number + 1
          /\ DOMAIN playback'.playback = {"open", "video", "audio", "state", "obsolete"}
      BY <3>1 DEF Player!StartTimeShift
    <3>5. playback'.number \in Nat /\ viewer'.now[1] <= playback'.number /\ viewer'.now[1] # playback'.number
      BY <1>3, <2>2, <3>4
    <3>6. NothingWaiting'
      BY <1>2, <1>3, <1>4, <2>1, <2>2, <2>3, <3>2, <3>3, <3>4, <3>5
    <3> QED BY <3>6, NothingWaitsNow
  <2>5. CASE way \in {"live", "nothing"}
    <3>1. playback' = [playback EXCEPT !.playback = Player!NoPlayback, !.record = {}]
      BY <1>4, <2>5 DEF Player!Start
    <3>2. /\ DOMAIN playback' = DOMAIN playback /\ playback'.number = playback.number
          /\ DOMAIN playback'.playback = {"open", "video", "audio", "state", "obsolete"}
          /\ playback'.playback.open = FALSE
      BY <1>3, <3>1 DEF Player!NoPlayback
    <3>3. /\ DOMAIN fields' = DOMAIN fields /\ fields'.supported = fields.supported
          /\ DOMAIN decoder' = {"kind", "video", "sound", "muted", "output"}
          /\ fields'.lost \in Nat
          /\ decoder'.kind # "none" => fields'.lost = 0
      <4>1. CASE way = "live"
        <5>1. Player!StartTS(p)
          BY <1>4, <4>1 DEF Player!Start
        <5>2. fields' = [fields EXCEPT !.shift = FALSE, !.starting = TRUE, !.lost = 0]
          BY <5>1 DEF Player!StartTS
        <5>3. DOMAIN decoder' = {"kind", "video", "sound", "muted", "output"}
          BY <5>1 DEF Player!StartTS, Player!Nobody
        <5> QED BY <1>3, <5>2, <5>3
      <4>2. CASE way = "nothing"
        BY <1>3, <1>4, <4>2 DEF Player!Start, Player!Nobody
      <4> QED BY <2>5, <4>1, <4>2
    <3>4. PlayerShape'
      BY <1>2, <1>3, <2>2, <2>3, <3>2, <3>3
    <3>5. viewer'.now[1] <= playback'.number /\ (viewer'.now[1] = playback'.number => viewer'.now = viewer'.start)
      BY <1>3, <2>2, <3>2
    <3>6. (decoded'.refused <=> ~fields'.supported) /\ (decoder'.kind # "none" => fields'.lost <= decoded'.losses)
      BY <1>3, <2>3, <3>3
    <3> HIDE DEF PlayerShape
    <3>7. NothingWaiting'
      BY <1>2, <1>4, <2>1, <2>2, <2>3, <3>2, <3>4, <3>5, <3>6
    <3> QED BY <3>7, NothingWaitsNow
  <2> QED BY <2>4, <2>5
<1>5. CASE Player!PlayStart
  <2>1. PICK p \in Programs, way \in {"shift", "live", "nothing"} : Player!Start(p, "LIVE", way)
    BY <1>5 DEF Player!PlayStart
  <2> HIDE DEF NothingWaiting, PlayerShape
  <2> QED BY <1>4, <2>1, PlayerAssumption
<1>6. CASE Player!BackToLive
  <2>1. PICK way \in {"live", "nothing"} : Player!Start(watched, "TIMESHIFT", way)
    BY <1>6 DEF Player!BackToLive
  <2>2. watched # Nothing
    BY <1>6 DEF Player!BackToLive
  <2> HIDE DEF NothingWaiting, PlayerShape
  <2> QED BY <1>4, <2>1, <2>2
<1>7. CASE Player!PlayStop
  <2>1. /\ watched' = Nothing /\ decoder' = Player!Nobody /\ fields' = [fields EXCEPT !.shift = FALSE]
        /\ playback' = [playback EXCEPT !.playback = Player!NoPlayback, !.record = {}]
        /\ UNCHANGED <<viewer, decoded>>
    BY <1>7 DEF Player!PlayStop
  <2>2. DOMAIN decoder' = {"kind", "video", "sound", "muted", "output"} /\ decoder'.kind = "none"
    BY <2>1 DEF Player!Nobody
  <2>3. /\ DOMAIN playback' = DOMAIN playback /\ playback'.number = playback.number
        /\ DOMAIN playback'.playback = {"open", "video", "audio", "state", "obsolete"}
        /\ playback'.playback.open = FALSE
    BY <1>3, <2>1 DEF Player!NoPlayback
  <2>4. DOMAIN fields' = DOMAIN fields /\ fields'.supported = fields.supported /\ fields'.lost = fields.lost
    BY <1>3, <2>1
  <2>5. PlayerShape'
    BY <1>2, <1>3, <2>1, <2>2, <2>3, <2>4
  <2>6. viewer'.now[1] <= playback'.number /\ (viewer'.now[1] = playback'.number => viewer'.now = viewer'.start)
    BY <1>3, <2>1, <2>3
  <2>7. decoded'.refused <=> ~fields'.supported
    BY <1>3, <2>1, <2>4
  <2> HIDE DEF PlayerShape
  <2>8. NothingWaiting'
    BY <1>2, <2>1, <2>2, <2>3, <2>5, <2>6, <2>7
  <2> QED BY <2>8, NothingWaitsNow
\* The rest change the sound or the speed.
<1>8. ASSUME watched' = watched, decoded' = decoded,
             DOMAIN fields' = DOMAIN fields, fields'.supported = fields.supported,
             fields'.lost = fields.lost, fields'.start = fields.start,
             DOMAIN decoder' = DOMAIN decoder, decoder'.kind = decoder.kind,
             DOMAIN playback' = DOMAIN playback, playback'.number = playback.number,
             DOMAIN playback'.playback = DOMAIN playback.playback,
             playback'.playback.open = playback.playback.open,
             DOMAIN viewer' = DOMAIN viewer, viewer'.picture = viewer.picture,
             viewer'.start = viewer.start, viewer'.now = viewer.now
      PROVE  PlayerIInv'
  <2>1. NothingWaiting'
    BY <1>2, <1>3, <1>8
  <2> QED BY <2>1, NothingWaitsNow
<1>9. CASE Player!switchAudioTrack
  <2>1. UNCHANGED <<fields, watched, decoded>>
    BY <1>9 DEF Player!switchAudioTrack, Player!Unplayed
  <2>2. PICK t \in ToSet(watched.tracks) :
          /\ viewer' = [viewer EXCEPT !.track = t]
          /\ \/ /\ \E sound : playback' = [playback EXCEPT !.playback.audio = sound]
                /\ UNCHANGED decoder
             \/ (\E sound : decoder' = [decoder EXCEPT !.sound = sound]) /\ UNCHANGED playback
    BY <1>9 DEF Player!switchAudioTrack, ToSet, Player!ToSet
  <2>3. DOMAIN viewer' = DOMAIN viewer /\ viewer'.picture = viewer.picture /\ viewer'.start = viewer.start /\ viewer'.now = viewer.now
    BY <1>3, <2>2
  <2>4. DOMAIN decoder' = DOMAIN decoder /\ decoder'.kind = decoder.kind
    BY <1>3, <2>2
  <2>5. /\ DOMAIN playback' = DOMAIN playback /\ playback'.number = playback.number
        /\ DOMAIN playback'.playback = DOMAIN playback.playback /\ playback'.playback.open = playback.playback.open
    BY <1>3, <2>2
  <2> HIDE DEF NothingWaiting, PlayerShape
  <2> QED BY <1>8, <2>1, <2>3, <2>4, <2>5
<1>10. CASE Player!AudioSetMute
  <2>1. PICK mute \in BOOLEAN :
          /\ viewer' = [viewer EXCEPT !.mute = mute] /\ fields' = [fields EXCEPT !.mute = mute]
          /\ decoder' = [decoder EXCEPT !.muted = decoder.kind # "none" /\ mute]
          /\ UNCHANGED <<playback, watched, decoded>>
    BY <1>10 DEF Player!AudioSetMute, Player!Unplayed
  <2>2. DOMAIN viewer' = DOMAIN viewer /\ viewer'.picture = viewer.picture /\ viewer'.start = viewer.start /\ viewer'.now = viewer.now
    BY <1>3, <2>1
  <2>3. DOMAIN decoder' = DOMAIN decoder /\ decoder'.kind = decoder.kind
    BY <1>3, <2>1
  <2>4. /\ DOMAIN fields' = DOMAIN fields /\ fields'.supported = fields.supported
        /\ fields'.lost = fields.lost /\ fields'.start = fields.start
    BY <1>3, <2>1
  <2> HIDE DEF NothingWaiting, PlayerShape
  <2> QED BY <1>8, <2>1, <2>2, <2>3, <2>4
<1>11. CASE Player!setAudioChannel
  <2>1. PICK m \in Player!Modes :
          /\ viewer' = [viewer EXCEPT !.output = m] /\ decoder' = [decoder EXCEPT !.output = Player!SetOutputMode(m)]
          /\ UNCHANGED <<fields, playback, watched, decoded>>
    BY <1>11 DEF Player!setAudioChannel, Player!Unplayed
  <2>2. DOMAIN viewer' = DOMAIN viewer /\ viewer'.picture = viewer.picture /\ viewer'.start = viewer.start /\ viewer'.now = viewer.now
    BY <1>3, <2>1
  <2>3. DOMAIN decoder' = DOMAIN decoder /\ decoder'.kind = decoder.kind
    BY <1>3, <2>1
  <2> HIDE DEF NothingWaiting, PlayerShape
  <2> QED BY <1>8, <2>1, <2>2, <2>3
<1>12. CASE Player!Speed
  <2>1. PICK state \in {"START", "PAUSE", "FF", "FB"} :
          playback' = [playback EXCEPT !.playback.state = state] /\ UNCHANGED <<fields, decoder, viewer, watched, decoded>>
    BY <1>12 DEF Player!Speed, Player!Unplayed
  <2>2. /\ DOMAIN playback' = DOMAIN playback /\ playback'.number = playback.number
        /\ DOMAIN playback'.playback = DOMAIN playback.playback /\ playback'.playback.open = playback.playback.open
    BY <1>3, <2>1
  <2> HIDE DEF NothingWaiting, PlayerShape
  <2> QED BY <1>8, <2>1, <2>2
<1> HIDE DEF NothingWaiting, PlayerShape
<1> QED BY <1>5, <1>6, <1>7, <1>9, <1>10, <1>11, <1>12

-----------------------------------------------------------------------------
\* A report that says nothing of times.
LEMMA TimesStay ==
    ASSUME PlayerIInv,
           posted' = posted \/ \E e \in AVEvents : posted' = Append(posted, e) /\ e.type \notin OfTime,
           UNCHANGED <<watched, playback, viewer>>, fields'.start = fields.start
    PROVE  TimeInv'
<1> USE DEF PlayerIInv, TimeInv
<1>1. CASE posted' = posted
  BY <1>1
<1>2. ASSUME NEW e \in AVEvents, posted' = Append(posted, e), e.type \notin OfTime PROVE TimeInv'
  <2>1. posted \in Seq(AVEvents)
    BY DEF PlayerShape
  <2>2. /\ \A x : LastWord(posted', OfTime, x) => LastWord(posted, OfTime, x)
        /\ NoneOf(posted', OfTime) <=> NoneOf(posted, OfTime)
    BY <1>2, <2>1, Appended
  <2>3. e.type \notin {"STARTTIME_CHANGE"}
    BY <1>2 DEF OfTime
  <2>4. /\ \A x : LastWord(posted', {"STARTTIME_CHANGE"}, x) => LastWord(posted, {"STARTTIME_CHANGE"}, x)
        /\ NoneOf(posted', {"STARTTIME_CHANGE"}) <=> NoneOf(posted, {"STARTTIME_CHANGE"})
    BY <1>2, <2>1, <2>3, Appended
  <2>5. \A n \in 1..Len(posted') : posted'[n].type \in OfTime =>
           posted'[n].status \in 1..3 /\ posted'[n].of[1] = playback.number
    <3>1. \A n \in 1..Len(posted') : posted'[n] = e \/ (n \in 1..Len(posted) /\ posted'[n] = posted[n])
      BY <1>2, <2>1, AppendProperties, LenProperties
    <3>2. \A n \in 1..Len(posted) : posted[n].type \in OfTime =>
             posted[n].status \in 1..3 /\ posted[n].of[1] = playback.number
      OBVIOUS
    <3> HIDE DEF PlayerIInv, TimeInv
    <3> QED BY <1>2, <3>1, <3>2
  <2> QED BY <2>2, <2>4, <2>5
<1> QED BY <1>1, <1>2

\* A report of the picture.
LEMMA PictureStep ==
    ASSUME PlayerIInv, NEW e \in AVEvents, posted' = Append(posted, e), e.type \in OfPicture,
           Gives(e) = decoded'.picture
    PROVE  /\ \A x : LastWord(posted', OfPicture, x) => Gives(x) = decoded'.picture
           /\ ~NoneOf(posted', OfPicture)
<1>1. posted \in Seq(AVEvents)
  BY DEF PlayerIInv, PlayerShape
<1> QED BY <1>1, Appended

LEMMA FinishStep == PlayerIInv /\ Player!FinishStart => PlayerIInv'
<1> SUFFICES ASSUME PlayerIInv, Player!FinishStart PROVE PlayerIInv'
  OBVIOUS
<1>1. /\ fields' = [fields EXCEPT !.starting = FALSE, !.supported = TRUE]
      /\ decoded' = [decoded EXCEPT !.refused = FALSE]
      /\ UNCHANGED <<watched, playback, posted, viewer>>
  BY DEF Player!FinishStart
<1>2. \E a, b : decoder' = [decoder EXCEPT !.muted = a, !.sound = b]
  BY DEF Player!FinishStart
<1>3. DOMAIN decoder' = DOMAIN decoder /\ decoder'.kind = decoder.kind
  BY <1>2 DEF PlayerIInv, PlayerShape
<1>4. /\ DOMAIN fields' = DOMAIN fields /\ fields'.lost = fields.lost /\ fields'.start = fields.start /\ fields'.supported
      /\ DOMAIN decoded' = DOMAIN decoded /\ decoded'.picture = decoded.picture /\ decoded'.losses = decoded.losses
      /\ ~decoded'.refused
  BY <1>1 DEF PlayerIInv, PlayerShape
<1>5. TimeInv'
  BY <1>1, <1>4, TimesStay
<1>6. PlayerShape'
  BY <1>1, <1>3, <1>4 DEF PlayerIInv, PlayerShape
<1>7. PictureInv'
  BY <1>1, <1>3, <1>4 DEF PlayerIInv, PictureInv
<1> QED BY <1>5, <1>6, <1>7 DEF PlayerIInv

LEMMA EventSays ==
    ASSUME NEW type \in EventTypes, NEW of \in Seq(Nat)
    PROVE  LET e == Player!Event(type, of) IN e \in AVEvents /\ e.type = type /\ e.of = of
  BY DEF Player!Event, AVEvents

LEMMA ResumeStep == PlayerIInv /\ Player!DataResume => PlayerIInv'
<1> SUFFICES ASSUME PlayerIInv, Player!DataResume PROVE PlayerIInv'
  OBVIOUS
<1> DEFINE e == Player!Event("VIDEO_AVAILABLE", <<>>)
<1>1. e \in AVEvents /\ e.type = "VIDEO_AVAILABLE"
  <2>1. <<>> \in Seq(Nat)
    OBVIOUS
  <2> QED BY <2>1, EventSays DEF EventTypes
<1> HIDE DEF e
<1>2. /\ posted' = Append(posted, e) /\ decoded' = [decoded EXCEPT !.picture = "shown"]
      /\ UNCHANGED <<watched, fields, decoder, playback, viewer>>
  BY DEF Player!DataResume, e
<1>3. /\ DOMAIN decoded' = DOMAIN decoded /\ decoded'.picture = "shown" /\ decoded'.refused = decoded.refused
      /\ decoded'.losses = decoded.losses
  BY <1>2 DEF PlayerIInv, PlayerShape
<1>4. TimeInv'
  BY <1>1, <1>2, TimesStay DEF OfTime
<1>5. posted \in Seq(AVEvents)
  BY DEF PlayerIInv, PlayerShape
<1>6. PlayerShape'
  <2>1. posted' \in Seq(AVEvents)
    BY <1>1, <1>2, <1>5, AppendProperties
  <2> QED BY <1>2, <1>3, <2>1 DEF PlayerIInv, PlayerShape
<1>7. /\ \A x : LastWord(posted', OfPicture, x) => Gives(x) = decoded'.picture
      /\ ~NoneOf(posted', OfPicture)
  BY <1>1, <1>2, <1>3, PictureStep DEF OfPicture, Gives
<1>8. \A n \in 1..Len(posted') : posted'[n] = e \/ (n \in 1..Len(posted) /\ posted'[n] = posted[n])
  BY <1>1, <1>2, <1>5, AppendProperties, LenProperties
<1>9. \A n \in 1..Len(posted') :
         posted'[n].type = "SCAMBLED" /\ posted'[n].of # <<>> => posted'[n].of[1] >= 3
  BY <1>1, <1>8 DEF PlayerIInv, PictureInv
<1>10. PictureInv'
  BY <1>2, <1>3, <1>7, <1>9 DEF PlayerIInv, PictureInv
<1> QED BY <1>4, <1>6, <1>10 DEF PlayerIInv

\* What a report makes of the counts of losses.
LEMMA Losing ==
    ASSUME NEW report \in Player!Reports, NEW fe \in {"locked", "timedout", "other"}, NEW m \in Nat, NEW n \in Nat
    PROVE  LET a == Player!Lost(m, report, fe) IN
           /\ a \in Nat
           /\ m <= n => a <= Player!Lost(n, report, fe)
  BY DEF Player!Lost, Player!Reports

LEMMA CallbackStep == PlayerIInv /\ Player!av_evt_callback => PlayerIInv'
<1> SUFFICES ASSUME PlayerIInv, Player!av_evt_callback PROVE PlayerIInv'
  OBVIOUS
<1>1. decoder.kind # "none" /\ UNCHANGED <<watched, decoder, playback, viewer>>
  BY SMTT(30) DEF Player!av_evt_callback
<1>2. PICK report \in Player!Reports : \E fe \in {"locked", "timedout", "other"} :
        LET lost == Player!Lost(fields.lost, report, fe)
            losses == Player!Lost(decoded.losses, report, fe)
        IN  /\ fields' = [fields EXCEPT !.supported = Player!Supported(report),
                                        !.lost = IF lost >= Player!Losses THEN 0 ELSE lost]
            /\ posted' = posted \o Player!Posted(report, lost, losses)
            /\ decoded' = [picture |-> Player!Picture(report), refused |-> Player!Refused(report), losses |-> losses]
  BY DEF Player!av_evt_callback
<1>3. PICK fe \in {"locked", "timedout", "other"} :
        LET lost == Player!Lost(fields.lost, report, fe)
            losses == Player!Lost(decoded.losses, report, fe)
        IN  /\ fields' = [fields EXCEPT !.supported = Player!Supported(report),
                                        !.lost = IF lost >= Player!Losses THEN 0 ELSE lost]
            /\ posted' = posted \o Player!Posted(report, lost, losses)
            /\ decoded' = [picture |-> Player!Picture(report), refused |-> Player!Refused(report), losses |-> losses]
  BY <1>2
<1> DEFINE lost == Player!Lost(fields.lost, report, fe)
           losses == Player!Lost(decoded.losses, report, fe)
           more == Player!Posted(report, lost, losses)
<1>4. fields.lost \in Nat /\ decoded.losses \in Nat /\ fields.lost <= decoded.losses /\ posted \in Seq(AVEvents)
  BY <1>1 DEF PlayerIInv, PlayerShape, PictureInv
<1>5. lost \in Nat /\ losses \in Nat /\ lost <= losses
  BY <1>4, Losing
<1>6. posted' = posted \o more
  BY <1>3
<1> HIDE DEF lost, losses
<1>7. /\ DOMAIN fields' = DOMAIN fields /\ fields'.start = fields.start
      /\ fields'.supported = Player!Supported(report)
      /\ fields'.lost = IF lost >= 3 THEN 0 ELSE lost
  BY <1>3 DEF PlayerIInv, PlayerShape, Player!Losses, lost
<1>8. /\ DOMAIN decoded' = {"picture", "refused", "losses"} /\ decoded'.picture = Player!Picture(report)
      /\ decoded'.refused = Player!Refused(report) /\ decoded'.losses = losses
  BY <1>3 DEF losses
<1>9. decoded'.refused <=> ~fields'.supported
  BY <1>7, <1>8 DEF PlayerIInv, PictureInv, Player!Supported, Player!Refused
<1>10. fields'.lost \in Nat /\ fields'.lost <= decoded'.losses
  BY <1>5, <1>7, <1>8
\* What is posted, if anything.
<1>11. \/ more = <<>> /\ decoded'.picture = decoded.picture
       \/ \E e \in AVEvents :
             /\ more = <<e>> /\ e.type \notin OfTime
             /\ e.type = "SCAMBLED" /\ e.of # <<>> => e.of[1] >= 3
             /\ IF e.type \in OfPicture THEN Gives(e) = decoded'.picture ELSE decoded'.picture = decoded.picture
  <2> DEFINE said ==
         \E e \in AVEvents :
            /\ more = <<e>> /\ e.type \notin OfTime
            /\ e.type = "SCAMBLED" /\ e.of # <<>> => e.of[1] >= 3
            /\ IF e.type \in OfPicture THEN Gives(e) = decoded'.picture ELSE decoded'.picture = decoded.picture
  <2>1. ASSUME NEW type \in {"VIDEO_AVAILABLE", "RESUME", "UNSUPPORT", "SCAMBLED", "STOP"},
               NEW of \in Seq(Nat), more = <<Player!Event(type, of)>>,
               type = "SCAMBLED" /\ of # <<>> => of[1] >= 3,
               IF type \in OfPicture
               THEN decoded'.picture = IF type = "UNSUPPORT" THEN "refused" ELSE "shown"
               ELSE decoded'.picture = decoded.picture
        PROVE  said
    <3> DEFINE e == Player!Event(type, of)
    <3>1. e \in AVEvents /\ e.type = type /\ e.of = of
      BY EventSays DEF EventTypes
    <3>2. more = <<e>>
      BY <2>1
    <3> HIDE DEF e, more
    <3>3. e.type \notin OfTime
      BY <3>1 DEF OfTime
    <3>4. IF e.type \in OfPicture THEN Gives(e) = decoded'.picture ELSE decoded'.picture = decoded.picture
      BY <2>1, <3>1 DEF Gives
    <3>5. e.type = "SCAMBLED" /\ e.of # <<>> => e.of[1] >= 3
      BY <2>1, <3>1
    <3> QED BY <3>1, <3>2, <3>3, <3>4, <3>5
  <2> HIDE DEF said
  <2>2. <<>> \in Seq(Nat)
    OBVIOUS
  <2>3. CASE report = "DECODER_LOSS"
    <3>1. decoded'.picture = decoded.picture
      BY <1>8, <2>3 DEF Player!Picture, Player!Refused, Player!First
    <3>2. CASE lost >= 3
      <4>1. more = <<Player!Event("SCAMBLED", <<losses>>)>>
        BY <2>3, <3>2 DEF Player!Posted, Player!Losses, Player!First
      <4>2. <<losses>> \in Seq(Nat) /\ <<losses>>[1] >= 3
        BY <1>5, <3>2
      <4> HIDE DEF more
      <4> QED BY <2>1, <3>1, <4>1, <4>2 DEF OfPicture, said
    <3>3. CASE ~(lost >= 3)
      <4>1. more = <<>>
        BY <2>3, <3>3 DEF Player!Posted, Player!Losses, Player!First
      <4> HIDE DEF more
      <4> QED BY <3>1, <4>1
    <3> QED BY <3>2, <3>3
  <2>4. CASE report = "SCRAMBLING"
    <3>1. decoded'.picture = decoded.picture
      BY <1>8, <2>4 DEF Player!Picture, Player!Refused, Player!First
    <3>2. more = <<Player!Event("SCAMBLED", <<>>)>>
      BY <2>4 DEF Player!Posted, Player!First
    <3> HIDE DEF more
    <3> QED BY <2>1, <2>2, <3>1, <3>2 DEF OfPicture, said
  <2>5. CASE report = "DATA_LOSS"
    <3>1. decoded'.picture = decoded.picture
      BY <1>8, <2>5 DEF Player!Picture, Player!Refused, Player!First
    <3>2. more = <<Player!Event("STOP", <<>>)>>
      BY <2>5 DEF Player!Posted, Player!First
    <3> HIDE DEF more
    <3> QED BY <2>1, <2>2, <3>1, <3>2 DEF OfPicture, said
  <2>6. CASE report = "RESUME"
    <3>1. decoded'.picture = "shown"
      BY <1>8, <2>6 DEF Player!Picture, Player!Refused, Player!First
    <3>2. more = <<Player!Event("RESUME", <<>>)>>
      BY <2>6 DEF Player!Posted, Player!First
    <3> HIDE DEF more
    <3> QED BY <2>1, <2>2, <3>1, <3>2 DEF OfPicture, said
  <2>7. CASE report = "UNSUPPORT"
    <3>1. decoded'.picture = "refused"
      BY <1>8, <2>7 DEF Player!Picture, Player!Refused, Player!First
    <3>2. more = <<Player!Event("UNSUPPORT", <<>>)>>
      BY <2>7 DEF Player!Posted, Player!First
    <3> HIDE DEF more
    <3> QED BY <2>1, <2>2, <3>1, <3>2 DEF OfPicture, said
  <2>8. CASE report \in Player!First /\ Player!Supported(report)
    <3>1. ~Player!Refused(report)
      BY <1>7, <1>8, <1>9, <2>8
    <3>2. decoded'.picture = "shown"
      BY <1>8, <2>8, <3>1 DEF Player!Picture, Player!First
    <3>3. more = <<Player!Event("VIDEO_AVAILABLE", <<>>)>>
      BY <2>8 DEF Player!Posted, Player!First
    <3> HIDE DEF more
    <3> QED BY <2>1, <2>2, <3>2, <3>3 DEF OfPicture, said
  <2>9. CASE report \in Player!First /\ ~Player!Supported(report)
    <3>1. Player!Refused(report) /\ report # "UNSUPPORT"
      BY <1>7, <1>8, <1>9, <2>9 DEF Player!First
    <3>2. decoded'.picture = decoded.picture
      BY <1>8, <3>1 DEF Player!Picture
    <3>3. more = <<>>
      BY <2>9 DEF Player!Posted, Player!First
    <3> HIDE DEF more
    <3> QED BY <3>2, <3>3
  <2> HIDE DEF more
  <2> QED BY <2>3, <2>4, <2>5, <2>6, <2>7, <2>8, <2>9 DEF Player!Reports, Player!First
<1> HIDE DEF more
<1>12. CASE more = <<>> /\ decoded'.picture = decoded.picture
  <2>1. posted' = posted
    BY <1>4, <1>6, <1>12, ConcatEmptySeq
  <2>2. TimeInv'
    BY <1>1, <1>7, <2>1, TimesStay
  <2>3. PictureInv'
    BY <1>1, <1>9, <1>10, <1>12, <2>1 DEF PlayerIInv, PictureInv
  <2>4. PlayerShape'
    BY <1>1, <1>5, <1>7, <1>8, <1>10, <2>1 DEF PlayerIInv, PlayerShape
  <2> QED BY <2>2, <2>3, <2>4 DEF PlayerIInv
<1>13. ASSUME NEW e \in AVEvents, more = <<e>>, e.type \notin OfTime,
              e.type = "SCAMBLED" /\ e.of # <<>> => e.of[1] >= 3,
              IF e.type \in OfPicture THEN Gives(e) = decoded'.picture ELSE decoded'.picture = decoded.picture
       PROVE  PlayerIInv'
  <2>1. posted' = Append(posted, e)
    BY <1>4, <1>6, <1>13, AppendIsConcat
  <2>2. TimeInv'
    BY <1>1, <1>7, <1>13, <2>1, TimesStay
  <2>3. PlayerShape'
    <3>1. posted' \in Seq(AVEvents)
      BY <1>4, <2>1, AppendProperties
    <3> QED BY <1>1, <1>5, <1>7, <1>8, <1>10, <3>1 DEF PlayerIInv, PlayerShape
  <2>4. \A n \in 1..Len(posted') : posted'[n] = e \/ (n \in 1..Len(posted) /\ posted'[n] = posted[n])
    BY <1>4, <2>1, AppendProperties, LenProperties
  <2>5. \A n \in 1..Len(posted') :
           posted'[n].type = "SCAMBLED" /\ posted'[n].of # <<>> => posted'[n].of[1] >= 3
    BY <1>13, <2>4 DEF PlayerIInv, PictureInv
  <2>6. watched # Nothing =>
          /\ \A x : LastWord(posted', OfPicture, x) => Gives(x) = decoded'.picture
          /\ NoneOf(posted', OfPicture) => viewer.picture = decoded'.picture
    <3>1. CASE e.type \in OfPicture
      BY <1>13, <2>1, <3>1, PictureStep
    <3>2. CASE e.type \notin OfPicture
      <4>1. /\ \A x : LastWord(posted', OfPicture, x) => LastWord(posted, OfPicture, x)
            /\ NoneOf(posted', OfPicture) <=> NoneOf(posted, OfPicture)
        BY <1>4, <2>1, <3>2, Appended
      <4>2. decoded'.picture = decoded.picture
        BY <1>13, <3>2
      <4> QED BY <4>1, <4>2 DEF PlayerIInv, PictureInv
    <3> QED BY <3>1, <3>2
  <2>7. PictureInv'
    BY <1>1, <1>9, <1>10, <2>5, <2>6 DEF PictureInv
  <2> QED BY <2>2, <2>3, <2>7 DEF PlayerIInv
<1> QED BY <1>11, <1>12, <1>13

-----------------------------------------------------------------------------
\* The times of the record.
LEMMA NotifyStep == PlayerIInv /\ Player!NotifyTime => PlayerIInv'
<1> SUFFICES ASSUME PlayerIInv, Player!NotifyTime PROVE PlayerIInv'
  OBVIOUS
<1>1. playback.playback.open /\ UNCHANGED <<watched, decoder, viewer, decoded>>
  BY SMTT(30) DEF Player!NotifyTime
<1>2. PICK obsolete \in Times, current \in Times, state \in States :
        LET of == <<playback.number, obsolete>>
            says(type, time) == [type |-> type, status |-> Player!Status(state), time |-> time, of |-> of]
        IN  /\ playback' = [playback EXCEPT !.playback.obsolete = obsolete]
            /\ fields' = [fields EXCEPT !.start = obsolete, !.status = Player!Status(state)]
            /\ posted' = posted
                 \o (IF fields.start = obsolete THEN <<>> ELSE <<says("STARTTIME_CHANGE", obsolete)>>)
                 \o <<says("CURTIME_CHANGE", current + obsolete)>>
  BY DEF Player!NotifyTime
<1> DEFINE status == Player!Status(state)
           of == <<playback.number, obsolete>>
           first == [type |-> "STARTTIME_CHANGE", status |-> status, time |-> obsolete, of |-> of]
           latest == [type |-> "CURTIME_CHANGE", status |-> status, time |-> current + obsolete, of |-> of]
           q == IF fields.start = obsolete THEN posted ELSE Append(posted, first)
<1>3. status \in 1..3 /\ obsolete \in Nat /\ current \in Nat
  BY PlayerAssumption DEF Player!Status
<1>4. posted \in Seq(AVEvents) /\ playback.number \in Nat
  BY DEF PlayerIInv, PlayerShape
<1>5. of \in Seq(Nat) /\ of[1] = playback.number
  BY <1>3, <1>4
<1> HIDE DEF status
<1>6. /\ first \in AVEvents /\ first.type = "STARTTIME_CHANGE" /\ first.status = status
      /\ first.time = obsolete /\ first.of = of
  <2> HIDE DEF of
  <2> QED BY <1>3, <1>5 DEF AVEvents, EventTypes
<1>7. latest \in AVEvents /\ latest.type = "CURTIME_CHANGE" /\ latest.status = status /\ latest.of = of
  <2> HIDE DEF of
  <2> QED BY <1>3, <1>5 DEF AVEvents, EventTypes
<1>8. q \in Seq(AVEvents)
  <2> HIDE DEF first
  <2> QED BY <1>4, <1>6, AppendProperties
<1>9. posted' = Append(q, latest)
  <2>1. posted' = (posted \o (IF fields.start = obsolete THEN <<>> ELSE <<first>>)) \o <<latest>>
    BY <1>2 DEF status
  <2> HIDE DEF first, latest, of
  <2>2. posted \o (IF fields.start = obsolete THEN <<>> ELSE <<first>>) = q
    BY <1>4, <1>6, AppendIsConcat, ConcatEmptySeq
  <2> HIDE DEF q
  <2> QED BY <1>7, <1>8, <2>1, <2>2, AppendIsConcat
<1>10. /\ DOMAIN playback' = DOMAIN playback /\ playback'.number = playback.number
       /\ DOMAIN playback'.playback = DOMAIN playback.playback /\ playback'.playback.open
  BY <1>1, <1>2 DEF PlayerIInv, PlayerShape
<1>11. /\ DOMAIN fields' = DOMAIN fields /\ fields'.start = obsolete /\ fields'.lost = fields.lost
       /\ fields'.supported = fields.supported
  BY <1>2 DEF PlayerIInv, PlayerShape
<1> HIDE DEF first, latest
<1>12. PlayerShape'
  <2>1. posted' \in Seq(AVEvents)
    BY <1>7, <1>8, <1>9, AppendProperties
  <2> QED BY <1>1, <1>10, <1>11, <2>1 DEF PlayerIInv, PlayerShape
\* Each event that waits then waited before, or is new.
<1>13. \A n \in 1..Len(posted') :
          posted'[n] \in {first, latest} \/ \E m \in 1..Len(posted) : posted'[n] = posted[m]
  <2>1. \A n \in 1..Len(posted') : posted'[n] = latest \/ (n \in 1..Len(q) /\ posted'[n] = q[n])
    <3> HIDE DEF q
    <3> QED BY <1>7, <1>8, <1>9, AppendProperties, LenProperties
  <2>2. \A n \in 1..Len(q) : q[n] = first \/ \E m \in 1..Len(posted) : q[n] = posted[m]
    <3>1. CASE fields.start = obsolete
      BY <3>1
    <3>2. CASE fields.start # obsolete
      <4>1. q = Append(posted, first)
        BY <3>2
      <4> HIDE DEF q
      <4> QED BY <1>4, <1>6, <4>1, AppendProperties, LenProperties
    <3> QED BY <3>1, <3>2
  <2> HIDE DEF q
  <2> QED BY <2>1, <2>2
<1>14. PictureInv'
  <2>1. first.type \notin OfPicture /\ latest.type \notin OfPicture
    BY <1>6, <1>7 DEF OfPicture
  <2>2. /\ \A x : LastWord(q, OfPicture, x) => LastWord(posted, OfPicture, x)
        /\ NoneOf(q, OfPicture) <=> NoneOf(posted, OfPicture)
    BY <1>4, <1>6, <2>1, Appended
  <2> HIDE DEF q
  <2>3. /\ \A x : LastWord(posted', OfPicture, x) => LastWord(q, OfPicture, x)
        /\ NoneOf(posted', OfPicture) <=> NoneOf(q, OfPicture)
    BY <1>7, <1>8, <1>9, <2>1, Appended
  <2>4. \A n \in 1..Len(posted') :
           posted'[n].type = "SCAMBLED" /\ posted'[n].of # <<>> => posted'[n].of[1] >= 3
    <3>1. \A e \in {first, latest} : e.type # "SCAMBLED"
      BY <1>6, <1>7
    <3> QED BY <1>13, <3>1 DEF PlayerIInv, PictureInv
  <2> QED BY <1>1, <1>11, <2>2, <2>3, <2>4 DEF PlayerIInv, PictureInv
<1>15. TimeInv'
  <2>1. latest.type \in OfTime /\ latest.type \notin {"STARTTIME_CHANGE"} /\ first.type \in {"STARTTIME_CHANGE"}
    BY <1>6, <1>7 DEF OfTime
  <2>2. /\ \A x : LastWord(posted', OfTime, x) => x = latest
        /\ ~NoneOf(posted', OfTime)
    <3> HIDE DEF q
    <3> QED BY <1>7, <1>8, <1>9, <2>1, Appended
  <2>3. /\ \A x : LastWord(posted', {"STARTTIME_CHANGE"}, x) => LastWord(q, {"STARTTIME_CHANGE"}, x)
        /\ NoneOf(posted', {"STARTTIME_CHANGE"}) <=> NoneOf(q, {"STARTTIME_CHANGE"})
    <3> HIDE DEF q
    <3> QED BY <1>7, <1>8, <1>9, <2>1, Appended
  <2>4. \A x : LastWord(q, {"STARTTIME_CHANGE"}, x) => <<x.of[1], x.time>> = <<playback.number, obsolete>>
    <3>1. CASE fields.start = obsolete
      BY <3>1 DEF PlayerIInv, TimeInv
    <3>2. CASE fields.start # obsolete
      BY <1>4, <1>5, <1>6, <2>1, <3>2, Appended
    <3> QED BY <3>1, <3>2
  <2>5. NoneOf(q, {"STARTTIME_CHANGE"}) => viewer.start = <<playback.number, obsolete>>
    <3>1. CASE fields.start = obsolete
      BY <1>1, <1>3, <3>1 DEF PlayerIInv, TimeInv
    <3>2. CASE fields.start # obsolete
      BY <1>4, <1>6, <2>1, <3>2, Appended
    <3> QED BY <3>1, <3>2
  <2> HIDE DEF q
  <2>6. \A n \in 1..Len(posted') : posted'[n].type \in OfTime =>
           posted'[n].status \in 1..3 /\ posted'[n].of[1] = playback.number
    <3>1. \A e \in {first, latest} : e.status \in 1..3 /\ e.of[1] = playback.number
      BY <1>3, <1>5, <1>6, <1>7
    <3> QED BY <1>13, <3>1 DEF PlayerIInv, TimeInv
  <2>7. fields'.start # -1
    BY <1>3, <1>11
  <2>8. latest.type = "CURTIME_CHANGE" /\ latest.of = <<playback.number, obsolete>>
    BY <1>7
  <2>9. viewer'.now[1] <= playback'.number /\ (playback'.playback.open => watched' # Nothing)
    BY <1>1, <1>10 DEF PlayerIInv, TimeInv
  <2> HIDE DEF of
  <2> QED BY <1>1, <1>10, <1>11, <2>2, <2>3, <2>4, <2>5, <2>6, <2>7, <2>8, <2>9 DEF TimeInv
<1> QED BY <1>12, <1>14, <1>15 DEF PlayerIInv

\* Clients are told what waited longest.
LEMMA TellStep == PlayerIInv /\ Player!Handle => PlayerIInv'
<1> SUFFICES ASSUME PlayerIInv, Player!Handle PROVE PlayerIInv'
  OBVIOUS
<1> DEFINE ev == Head(posted)
           timed == watched # Nothing /\ ev.status \in 1..3
<1>1. /\ posted # <<>> /\ posted' = Tail(posted)
      /\ UNCHANGED <<watched, fields, decoder, playback, decoded>>
  BY DEF Player!Handle
<1>2. viewer' =
         CASE ev.type \in {"VIDEO_AVAILABLE", "RESUME"} -> [viewer EXCEPT !.picture = "shown"]
           [] ev.type = "UNSUPPORT" -> [viewer EXCEPT !.picture = "refused"]
           [] ev.type = "STOP" /\ watched = Nothing -> [viewer EXCEPT !.picture = "none"]
           [] ev.type = "STARTTIME_CHANGE" /\ timed -> [viewer EXCEPT !.start = <<ev.of[1], ev.time>>]
           [] ev.type = "CURTIME_CHANGE" /\ timed -> [viewer EXCEPT !.now = ev.of]
           [] OTHER -> viewer
  BY DEF Player!Handle, Player!Moving
<1>3. posted \in Seq(AVEvents) /\ DOMAIN viewer = {"track", "mute", "output", "picture", "start", "now"}
  BY DEF PlayerIInv, PlayerShape
<1>4. /\ ev \in AVEvents /\ posted' \in Seq(AVEvents) /\ ev = posted[1] /\ 1 \in 1..Len(posted)
      /\ \A n \in 1..Len(posted') : n + 1 \in 1..Len(posted) /\ posted'[n] = posted[n + 1]
  BY <1>1, <1>3, HeadTailProperties, EmptySeq
<1> HIDE DEF ev
<1>5. ev.type \in EventTypes
  BY <1>4 DEF AVEvents
<1>6. DOMAIN viewer' = DOMAIN viewer
  BY <1>2, <1>3
<1>7. /\ ev.type \in OfPicture => viewer'.picture = Gives(ev)
      /\ watched # Nothing /\ ev.type \notin OfPicture => viewer'.picture = viewer.picture
  BY <1>2, <1>3, <1>5 DEF OfPicture, Gives, EventTypes
<1>8. /\ ev.type = "STARTTIME_CHANGE" /\ timed => viewer'.start = <<ev.of[1], ev.time>> /\ viewer'.now = viewer.now
      /\ ev.type = "CURTIME_CHANGE" /\ timed => viewer'.now = ev.of /\ viewer'.start = viewer.start
      /\ ev.type \notin OfTime => viewer'.start = viewer.start /\ viewer'.now = viewer.now
  BY <1>2, <1>3, <1>5 DEF OfTime, EventTypes
<1>9. ev.type \in OfTime => timed /\ ev.of[1] = playback.number /\ playback.playback.open /\ fields.start # -1
  BY <1>4 DEF PlayerIInv, TimeInv, NoneOf
<1> HIDE DEF timed
<1>10. viewer'.now[1] \in Nat /\ viewer'.now[1] <= playback.number
  <2>1. viewer.now[1] \in Nat /\ viewer.now[1] <= playback.number /\ playback.number \in Nat
    BY DEF PlayerIInv, PlayerShape, TimeInv
  <2>2. viewer'.now = viewer.now \/ viewer'.now[1] = playback.number
    BY <1>8, <1>9 DEF OfTime
  <2> QED BY <2>1, <2>2
<1>11. PlayerShape'
  BY <1>1, <1>4, <1>6, <1>10 DEF PlayerIInv, PlayerShape
<1>12. \A types :
         /\ \A x : LastWord(posted', types, x) => LastWord(posted, types, x)
         /\ NoneOf(posted', types) /\ ev.type \in types => LastWord(posted, types, ev)
         /\ NoneOf(posted, types) <=> NoneOf(posted', types) /\ ev.type \notin types
  BY <1>1, <1>3, FirstGone DEF ev
<1>13. PictureInv'
  <2>1. \A n \in 1..Len(posted') :
           posted'[n].type = "SCAMBLED" /\ posted'[n].of # <<>> => posted'[n].of[1] >= 3
    BY <1>4 DEF PlayerIInv, PictureInv
  <2>2. watched # Nothing /\ NoneOf(posted', OfPicture) => viewer'.picture = decoded.picture
    <3>1. CASE ev.type \in OfPicture
      BY <1>7, <1>12, <3>1 DEF PlayerIInv, PictureInv
    <3>2. CASE ev.type \notin OfPicture
      BY <1>7, <1>12, <3>2 DEF PlayerIInv, PictureInv
    <3> QED BY <3>1, <3>2
  <2>3. watched # Nothing => \A x : LastWord(posted', OfPicture, x) => Gives(x) = decoded.picture
    BY <1>12 DEF PlayerIInv, PictureInv
  <2> QED BY <1>1, <2>1, <2>2, <2>3 DEF PlayerIInv, PictureInv
<1>14. TimeInv'
  <2> DEFINE starting == {"STARTTIME_CHANGE"}
             startsAt == <<playback.number, fields.start>>
  <2>1. \A n \in 1..Len(posted') : posted'[n].type \in OfTime =>
           posted'[n].status \in 1..3 /\ posted'[n].of[1] = playback.number
    BY <1>4 DEF PlayerIInv, TimeInv
  <2>2. ~NoneOf(posted', OfTime) => playback.playback.open /\ fields.start # -1
    BY <1>12 DEF PlayerIInv, TimeInv
  <2>3. /\ \A x : LastWord(posted', OfTime, x) => x.type = "CURTIME_CHANGE" /\ x.of = startsAt
        /\ \A x : LastWord(posted', starting, x) => <<x.of[1], x.time>> = startsAt
    BY <1>12 DEF PlayerIInv, TimeInv
  <2>4. NoneOf(posted', starting) /\ playback.playback.open /\ fields.start # -1 => viewer'.start = startsAt
    <3> SUFFICES ASSUME NoneOf(posted', starting), playback.playback.open, fields.start # -1 PROVE viewer'.start = startsAt
      OBVIOUS
    <3>1. CASE ev.type \in starting
      <4>1. LastWord(posted, starting, ev)
        BY <1>12, <3>1
      <4>2. <<ev.of[1], ev.time>> = startsAt
        BY <4>1 DEF PlayerIInv, TimeInv
      <4>3. ev.type = "STARTTIME_CHANGE" /\ ev.type \in OfTime
        BY <3>1 DEF OfTime
      <4> HIDE DEF startsAt, starting
      <4> QED BY <1>8, <1>9, <4>2, <4>3
    <3>2. CASE ev.type \notin starting
      <4>1. viewer'.start = viewer.start
        BY <1>8, <1>9, <3>2 DEF OfTime
      <4>2. NoneOf(posted, starting)
        BY <1>12, <3>2
      <4> QED BY <4>1, <4>2 DEF PlayerIInv, TimeInv
    <3> QED BY <3>1, <3>2
  <2>5. NoneOf(posted', OfTime) /\ viewer'.now[1] = playback.number => viewer'.now = viewer'.start
    <3> SUFFICES ASSUME NoneOf(posted', OfTime), viewer'.now[1] = playback.number PROVE viewer'.now = viewer'.start
      OBVIOUS
    <3>1. CASE ev.type \in OfTime
      <4>1. LastWord(posted, OfTime, ev)
        BY <1>12, <3>1
      <4>2. ev.type = "CURTIME_CHANGE" /\ ev.of = startsAt
        BY <4>1 DEF PlayerIInv, TimeInv
      <4>3. NoneOf(posted', starting)
        BY DEF NoneOf, OfTime
      <4> HIDE DEF startsAt, starting
      <4> QED BY <1>8, <1>9, <2>4, <3>1, <4>2, <4>3
    <3>2. CASE ev.type \notin OfTime
      <4>1. viewer'.start = viewer.start /\ viewer'.now = viewer.now
        BY <1>8, <3>2
      <4>2. NoneOf(posted, OfTime)
        BY <1>12, <3>2
      <4> QED BY <4>1, <4>2 DEF PlayerIInv, TimeInv
    <3> QED BY <3>1, <3>2
  <2>6. playback.playback.open => watched # Nothing
    BY DEF PlayerIInv, TimeInv
  <2> QED BY <1>1, <1>10, <2>1, <2>2, <2>3, <2>4, <2>5, <2>6 DEF TimeInv
<1> QED BY <1>11, <1>13, <1>14 DEF PlayerIInv

LEMMA PlayerStepIInv == PlayerIInv /\ [Player!Next]_tsplay => PlayerIInv'
<1> SUFFICES ASSUME PlayerIInv, [Player!Next]_tsplay PROVE PlayerIInv'
  OBVIOUS
<1>1. CASE UNCHANGED tsplay
  BY <1>1 DEF tsplay, PlayerIInv, PlayerShape, PictureInv, TimeInv
<1> QED BY <1>1, CommandsStep, FinishStep, CallbackStep, ResumeStep, NotifyStep, TellStep DEF Player!Next

-----------------------------------------------------------------------------
(* The sound that a client asks for. *)

\* A stream of every track is in the record.
LEMMA TrackRecorded ==
    ASSUME NEW p \in Programs, NEW t \in ToSet(p.tracks)
    PROVE  Player!Sound(t) \in Player!Recorded(p)
<1> DEFINE first == p.tracks[1]
           Further == {i \in DOMAIN p.tracks : p.tracks[i].pid # first.pid}
           Upto(i) == {j \in Further : j <= i}
           entry(i) == Player!Cardinality(Player!Pictures(p)) + 1 + Player!Cardinality(Upto(i))
<1>0. \A S : Player!Cardinality(S) = Cardinality(S)
  BY DEF Player!Cardinality, Cardinality
<1>1. PICK n \in 1 .. Bounds.pids - 1 : DOMAIN p.tracks = 1..n
  BY PlayerAssumption
<1>2. PICK i \in 1..n : t = p.tracks[i]
  BY <1>1 DEF ToSet
<1>3. Bounds.pids \in Nat /\ n \in Nat /\ n + 1 <= Bounds.pids /\ 1 \in 1..n
  BY <1>1, PlayerAssumption
<1>4. CASE t.pid = first.pid
  <2>1. t = first
    BY <1>1, <1>2, <1>3, <1>4, PlayerAssumption
  <2> QED BY <2>1 DEF Player!Recorded
<1>5. CASE t.pid # first.pid
  <2>1. i \in Further
    BY <1>1, <1>2, <1>5
  <2>2. Upto(i) \subseteq 2..i
    BY <1>1
  <2>3. Cardinality(Upto(i)) \in Nat /\ Cardinality(Upto(i)) <= i - 1
    <3>1. IsFiniteSet(2..i) /\ Cardinality(2..i) = i - 1
      <4>1. IsFiniteSet(2..i) /\ Cardinality(2..i) = IF 2 > i THEN 0 ELSE i - 2 + 1
        BY FS_Interval
      <4> QED BY <4>1
    <3> HIDE DEF Upto
    <3>2. IsFiniteSet(Upto(i)) /\ Cardinality(Upto(i)) <= Cardinality(2..i)
      BY <2>2, <3>1, FS_Subset
    <3> QED BY <3>1, <3>2, FS_CardinalityType
  <2>4. Cardinality(Player!Pictures(p)) \in {0, 1}
    <3>1. CASE p.video = Nothing
      BY <3>1, FS_EmptySet DEF Player!Pictures
    <3>2. CASE p.video # Nothing
      BY <3>2, FS_Singleton DEF Player!Pictures
    <3> QED BY <3>1, <3>2
  <2>5. entry(i) <= Bounds.pids
    <3>1. entry(i) = Cardinality(Player!Pictures(p)) + 1 + Cardinality(Upto(i))
      BY <1>0
    <3> HIDE DEF Upto, entry
    <3> QED BY <1>3, <2>3, <2>4, <3>1
  <2>6. i \in {k \in Further : entry(k) <= Bounds.pids}
    BY <2>1, <2>5
  <2>7. Player!Recorded(p) =
          Player!Pictures(p) \cup {Player!Sound(first)}
            \cup {Player!Sound(p.tracks[k]) : k \in {k \in Further : entry(k) <= Bounds.pids}}
    BY DEF Player!Recorded
  <2> HIDE DEF entry, Further
  <2> QED BY <1>2, <2>6, <2>7
<1> QED BY <1>4, <1>5

\* A ts player that plays live has the sound, the mute and the output that clients
\* asked for, once it has started; in timeshift the playback has the sound, and
\* the record is that of the program.
SoundIInv ==
    /\ fields.mute \in BOOLEAN /\ fields.mute = viewer.mute
    /\ watched = Nothing \/ watched \in Programs
    /\ decoder.kind = "demod" => Player!GetOutputMode(decoder.output) = viewer.output
    /\ decoder.kind = "demod" /\ ~fields.starting =>
          /\ decoder.sound = [pid |-> viewer.track.pid, codec |-> Player!TsAudio(viewer.track.fmt)]
          /\ decoder.muted = viewer.mute
    /\ fields.shift =>
          /\ decoder.kind # "demod"
          /\ watched \in Programs /\ viewer.track \in ToSet(watched.tracks)
          /\ \/ playback.playback.audio = [pid |-> viewer.track.pid, fmt |-> Player!DvrAudio(viewer.track.fmt)]
             \/ playback.playback.audio = [pid |-> viewer.track.pid, fmt |-> Player!AvAudio(viewer.track.fmt)]
          /\ playback.record = Player!Recorded(watched)
          /\ watched.video # Nothing => playback.playback.video = Player!DvrVideo(watched.video.fmt)

LEMMA SoundInitIInv == Player!Init => SoundIInv
<1> SUFFICES ASSUME Player!Init PROVE SoundIInv
  OBVIOUS
<1>1. /\ fields.mute = FALSE /\ fields.shift = FALSE /\ watched = Nothing /\ viewer.mute = FALSE
      /\ decoder.kind = "none"
  BY DEF Player!Init, Player!Nobody
<1> QED BY <1>1 DEF SoundIInv

\* What a step that touches nothing of the sound keeps.
LEMMA SoundKept ==
    ASSUME SoundIInv, watched' = watched,
           fields'.mute = fields.mute, fields'.shift = fields.shift, fields'.starting = fields.starting,
           decoder' = decoder, playback'.record = playback.record,
           playback'.playback.audio = playback.playback.audio, playback'.playback.video = playback.playback.video,
           viewer'.mute = viewer.mute, viewer'.track = viewer.track, viewer'.output = viewer.output
    PROVE  SoundIInv'
  BY DEF SoundIInv

\* The outputs have names of two kinds.
LEMMA OutputNamed == \A m \in Player!Modes : Player!GetOutputMode(Player!SetOutputMode(m)) = m
  BY DEF Player!Modes, Player!GetOutputMode, Player!SetOutputMode

LEMMA FirstTrack == \A p \in Programs : p.tracks[1] \in ToSet(p.tracks)
  BY PlayerAssumption DEF ToSet

LEMMA SoundStepIInv == SoundIInv /\ PlayerShape /\ [Player!Next]_tsplay => SoundIInv'
<1> SUFFICES ASSUME SoundIInv, PlayerShape, [Player!Next]_tsplay PROVE SoundIInv'
  OBVIOUS
<1> USE DEF PlayerShape
<1>1. ASSUME NEW p \in Programs, NEW ask, NEW way \in {"shift", "live", "nothing"}, Player!Start(p, ask, way)
      PROVE  SoundIInv'
  <2>1. watched' = p
    BY <1>1 DEF Player!Start
  <2>2. viewer'.track = p.tracks[1] /\ viewer'.output = "STEREO" /\ viewer'.mute = viewer.mute
    BY <1>1 DEF Player!Start
  <2>3. CASE way = "shift"
    <3>1. Player!StartTimeShift(p)
      BY <1>1, <2>3 DEF Player!Start
    <3>2. fields'.mute = fields.mute /\ decoder'.kind = "memory"
      BY <3>1 DEF Player!StartTimeShift, Player!Nobody
    <3>3. /\ playback'.record = Player!Recorded(p)
          /\ playback'.playback.audio = [pid |-> p.tracks[1].pid, fmt |-> Player!DvrAudio(p.tracks[1].fmt)]
          /\ p.video # Nothing => playback'.playback.video = Player!DvrVideo(p.video.fmt)
      BY <3>1 DEF Player!StartTimeShift
    <3> QED BY <2>1, <2>2, <3>2, <3>3, FirstTrack DEF SoundIInv
  <2>4. CASE way = "live"
    <3>1. Player!StartTS(p)
      BY <1>1, <2>4 DEF Player!Start
    <3>2. fields'.mute = fields.mute /\ fields'.shift = FALSE /\ fields'.starting = TRUE /\ decoder'.output = "STEREO"
      BY <3>1 DEF Player!StartTS, Player!Nobody
    <3>3. Player!GetOutputMode("STEREO") = "STEREO"
      BY DEF Player!GetOutputMode
    <3> QED BY <2>1, <2>2, <3>2, <3>3 DEF SoundIInv
  <2>5. CASE way = "nothing"
    <3>1. decoder' = Player!Nobody /\ fields' = [fields EXCEPT !.shift = FALSE]
      BY <1>1, <2>5 DEF Player!Start
    <3>2. fields'.mute = fields.mute /\ fields'.shift = FALSE /\ decoder'.kind = "none"
      BY <3>1 DEF Player!Nobody
    <3> QED BY <2>1, <2>2, <3>2 DEF SoundIInv
  <2> QED BY <1>1, <2>3, <2>4, <2>5
<1>2. CASE Player!PlayStart
  BY <1>1, <1>2 DEF Player!PlayStart
<1>3. CASE Player!BackToLive
  <2>1. watched \in Programs
    BY <1>3 DEF SoundIInv, Player!BackToLive
  <2> QED BY <1>1, <1>3, <2>1 DEF Player!BackToLive
<1>4. CASE Player!PlayStop
  <2>1. /\ watched' = Nothing /\ decoder' = Player!Nobody /\ fields' = [fields EXCEPT !.shift = FALSE]
        /\ viewer' = viewer
    BY <1>4 DEF Player!PlayStop
  <2>2. fields'.mute = fields.mute /\ fields'.shift = FALSE /\ decoder'.kind = "none"
    BY <2>1 DEF Player!Nobody
  <2> QED BY <2>1, <2>2 DEF SoundIInv
<1>5. CASE Player!FinishStart
  <2>1. /\ decoder' = [decoder EXCEPT !.muted = fields.mute,
                         !.sound = [pid |-> viewer.track.pid, codec |-> Player!TsAudio(viewer.track.fmt)]]
        /\ fields' = [fields EXCEPT !.starting = FALSE, !.supported = TRUE]
        /\ UNCHANGED <<watched, playback, viewer>>
    BY <1>5 DEF Player!FinishStart
  <2>2. /\ decoder'.muted = fields.mute /\ decoder'.kind = decoder.kind /\ decoder'.output = decoder.output
        /\ decoder'.sound = [pid |-> viewer.track.pid, codec |-> Player!TsAudio(viewer.track.fmt)]
        /\ fields'.mute = fields.mute /\ fields'.shift = fields.shift
    BY <2>1
  <2> QED BY <2>1, <2>2 DEF SoundIInv
<1>6. CASE Player!switchAudioTrack
  <2>1. PICK t \in ToSet(watched.tracks) :
           /\ viewer' = [viewer EXCEPT !.track = t]
           /\ IF fields.shift
              THEN playback' = [playback EXCEPT !.playback.audio = [pid |-> t.pid, fmt |-> Player!AvAudio(t.fmt)]]
                     /\ UNCHANGED decoder
              ELSE decoder' = [decoder EXCEPT !.sound = [pid |-> t.pid, codec |-> Player!TsAudio(t.fmt)]]
                     /\ UNCHANGED playback
    BY <1>6 DEF Player!switchAudioTrack, Player!ToSet, ToSet
  <2>2. UNCHANGED <<fields, watched>>
    BY <1>6 DEF Player!switchAudioTrack, Player!Unplayed
  <2>3. viewer'.track = t /\ viewer'.mute = viewer.mute /\ viewer'.output = viewer.output
    BY <2>1
  <2>4. CASE fields.shift
    <3>1. /\ playback'.playback.audio = [pid |-> t.pid, fmt |-> Player!AvAudio(t.fmt)]
          /\ playback'.playback.video = playback.playback.video /\ playback'.record = playback.record
      BY <2>1, <2>4
    <3>2. decoder' = decoder /\ decoder.kind # "demod"
      BY <2>1, <2>4 DEF SoundIInv
    <3> QED BY <2>1, <2>2, <2>3, <2>4, <3>1, <3>2 DEF SoundIInv
  <2>5. CASE ~fields.shift
    <3>1. /\ decoder'.sound = [pid |-> t.pid, codec |-> Player!TsAudio(t.fmt)]
          /\ decoder'.kind = decoder.kind /\ decoder'.muted = decoder.muted /\ decoder'.output = decoder.output
      BY <2>1, <2>5
    <3> QED BY <2>2, <2>3, <2>5, <3>1 DEF SoundIInv
  <2> QED BY <2>4, <2>5
<1>7. CASE Player!AudioSetMute
  <2>1. PICK mute \in BOOLEAN :
           /\ viewer' = [viewer EXCEPT !.mute = mute] /\ fields' = [fields EXCEPT !.mute = mute]
           /\ decoder' = [decoder EXCEPT !.muted = decoder.kind # "none" /\ mute]
    BY <1>7 DEF Player!AudioSetMute
  <2>2. UNCHANGED <<playback, watched>>
    BY <1>7 DEF Player!AudioSetMute, Player!Unplayed
  <2>3. /\ viewer'.mute = mute /\ viewer'.track = viewer.track /\ viewer'.output = viewer.output
        /\ fields'.mute = mute /\ fields'.shift = fields.shift /\ fields'.starting = fields.starting
        /\ decoder'.muted = (decoder.kind # "none" /\ mute)
        /\ decoder'.kind = decoder.kind /\ decoder'.sound = decoder.sound /\ decoder'.output = decoder.output
    BY <2>1
  <2>4. decoder'.kind = "demod" => decoder'.muted = mute
    BY <2>1, <2>3
  <2> QED BY <2>2, <2>3, <2>4 DEF SoundIInv
<1>8. CASE Player!setAudioChannel
  <2>1. PICK m \in Player!Modes :
           viewer' = [viewer EXCEPT !.output = m] /\ decoder' = [decoder EXCEPT !.output = Player!SetOutputMode(m)]
    BY <1>8 DEF Player!setAudioChannel
  <2>2. UNCHANGED <<fields, playback, watched>>
    BY <1>8 DEF Player!setAudioChannel, Player!Unplayed
  <2>3. /\ viewer'.output = m /\ viewer'.mute = viewer.mute /\ viewer'.track = viewer.track
        /\ decoder'.output = Player!SetOutputMode(m)
        /\ decoder'.kind = decoder.kind /\ decoder'.sound = decoder.sound /\ decoder'.muted = decoder.muted
    BY <2>1
  <2>4. Player!GetOutputMode(decoder'.output) = viewer'.output
    BY <2>3, OutputNamed
  <2> QED BY <2>2, <2>3, <2>4 DEF SoundIInv
<1>9. CASE Player!Speed
  <2>1. PICK state : playback' = [playback EXCEPT !.playback.state = state]
    BY <1>9 DEF Player!Speed
  <2>2. /\ playback'.record = playback.record /\ playback'.playback.audio = playback.playback.audio
        /\ playback'.playback.video = playback.playback.video
    BY <2>1
  <2>3. UNCHANGED <<fields, decoder, viewer, watched>>
    BY <1>9 DEF Player!Speed, Player!Unplayed
  <2> QED BY <2>2, <2>3, SoundKept
<1>10. CASE Player!av_evt_callback
  <2>1. fields'.mute = fields.mute /\ fields'.shift = fields.shift /\ fields'.starting = fields.starting
    <3>1. \E a, b : fields' = [fields EXCEPT !.supported = a, !.lost = b]
      BY <1>10 DEF Player!av_evt_callback
    <3> QED BY <3>1
  <2>2. UNCHANGED <<watched, decoder, playback, viewer>>
    BY <1>10 DEF Player!av_evt_callback
  <2> QED BY <2>1, <2>2, SoundKept
<1>11. CASE Player!DataResume
  <2>1. UNCHANGED <<watched, fields, decoder, playback, viewer>>
    BY <1>11 DEF Player!DataResume
  <2> QED BY <2>1, SoundKept
<1>12. CASE Player!NotifyTime
  <2>1. PICK obsolete, state : /\ playback' = [playback EXCEPT !.playback.obsolete = obsolete]
                               /\ fields' = [fields EXCEPT !.start = obsolete, !.status = Player!Status(state)]
    BY <1>12 DEF Player!NotifyTime
  <2>2. UNCHANGED <<watched, decoder, viewer>>
    BY <1>12 DEF Player!NotifyTime
  <2>3. /\ fields'.mute = fields.mute /\ fields'.shift = fields.shift /\ fields'.starting = fields.starting
        /\ playback'.record = playback.record /\ playback'.playback.audio = playback.playback.audio
        /\ playback'.playback.video = playback.playback.video
    BY <2>1
  <2> QED BY <2>2, <2>3, SoundKept
<1>13. CASE Player!Handle
  <2>1. UNCHANGED <<watched, fields, decoder, playback>>
    BY <1>13 DEF Player!Handle
  <2>2. \/ viewer' = viewer
        \/ \E a : viewer' = [viewer EXCEPT !.picture = a]
        \/ \E a : viewer' = [viewer EXCEPT !.start = a]
        \/ \E a : viewer' = [viewer EXCEPT !.now = a]
    BY <1>13 DEF Player!Handle
  <2>3. viewer'.mute = viewer.mute /\ viewer'.track = viewer.track /\ viewer'.output = viewer.output
    BY <2>2
  <2> QED BY <2>1, <2>3, SoundKept
<1>14. CASE UNCHANGED tsplay
  BY <1>14, SoundKept DEF tsplay
<1> QED BY <1>2, <1>3, <1>4, <1>5, <1>6, <1>7, <1>8, <1>9, <1>10, <1>11, <1>12, <1>13, <1>14 DEF Player!Next

LEMMA SoundIInvAsked == SoundIInv => Player!SoundAsAsked
<1> SUFFICES ASSUME SoundIInv PROVE Player!SoundAsAsked
  OBVIOUS
<1>1. \A fmt \in Player!CarriedAudio :
         /\ Player!DecoderOf(Player!DvrAudio(fmt)) = Player!TsAudio(fmt)
         /\ Player!DecoderOf(Player!AvAudio(fmt)) = Player!TsAudio(fmt)
  BY DEF Player!CarriedAudio, Player!DecoderOf, Player!DvrAudio, Player!AvAudio, Player!TsAudio, Player!Pcm
<1>2. \A fmt \in Player!CarriedVideo : Player!DecoderOf(Player!DvrVideo(fmt)) = Player!TsVideo(fmt)
  BY DEF Player!CarriedVideo, Player!DecoderOf, Player!DvrVideo, Player!TsVideo
<1>3. ASSUME fields.shift
      PROVE  LET h == playback.playback.audio IN
             /\ h.pid = viewer.track.pid
             /\ viewer.track.fmt \in Player!CarriedAudio => Player!DecoderOf(h.fmt) = Player!TsAudio(viewer.track.fmt)
             /\ viewer.track.fmt # "AC4" => Player!Stream(h.pid, "audio", h.fmt) \in playback.record
             /\ watched.video # Nothing /\ watched.video.fmt \in Player!CarriedVideo =>
                  Player!DecoderOf(playback.playback.video) = Player!TsVideo(watched.video.fmt)
  <2> DEFINE h == playback.playback.audio
             f == viewer.track.fmt
  <2>1. h.pid = viewer.track.pid /\ (h.fmt = Player!DvrAudio(f) \/ h.fmt = Player!AvAudio(f))
    BY <1>3 DEF SoundIInv
  <2>2. f # "AC4" => h.fmt = Player!DvrAudio(f)
    BY <2>1 DEF Player!AvAudio
  <2>3. Player!Sound(viewer.track) \in playback.record
    BY <1>3, TrackRecorded DEF SoundIInv
  <2>4. f # "AC4" => Player!Stream(h.pid, "audio", h.fmt) \in playback.record
    BY <2>1, <2>2, <2>3 DEF Player!Sound
  <2>5. f \in Player!CarriedAudio => Player!DecoderOf(h.fmt) = Player!TsAudio(f)
    BY <1>1, <2>1
  <2>6. watched.video # Nothing => playback.playback.video = Player!DvrVideo(watched.video.fmt)
    BY <1>3 DEF SoundIInv
  <2>7. watched.video # Nothing /\ watched.video.fmt \in Player!CarriedVideo =>
          Player!DecoderOf(playback.playback.video) = Player!TsVideo(watched.video.fmt)
    BY <1>2, <2>6
  <2> HIDE DEF h, f
  <2> QED BY <2>1, <2>4, <2>5, <2>7 DEF h, f
<1>4. decoder.kind = "demod" /\ ~fields.starting =>
        /\ decoder.sound = [pid |-> viewer.track.pid, codec |-> Player!TsAudio(viewer.track.fmt)]
        /\ decoder.muted = viewer.mute
        /\ Player!GetOutputMode(decoder.output) = viewer.output
  BY DEF SoundIInv
<1> QED BY <1>3, <1>4 DEF Player!SoundAsAsked

-----------------------------------------------------------------------------
(* Events on their way to clients, those of records with the others. *)

\* What may be told: events and what they say.
OfRecords == Recorder!Ids \X {"START", "STOP"}
Sayings == OfRecords \cup UNION {Payloads[kind] : kind \in Recorder!Kinds}
Tellable == (Recorder!Kinds \cup {"RECORD"}) \X Sayings
MessageOf(e) == Recorder!Message(e[1], e[2])
Carriers == {MessageOf(e) : e \in Tellable}

\* The infos that are allocated are those of the RRT events that wait.
RrtWaiting == {n \in Len(heard) + 1 .. Len(reported) : reported[n][1] = "RRT"}

\* Clients heard the first of what was reported, and the messages that wait are
\* of the rest, in its order.
EventsIInv ==
    /\ reported \in Seq(Tellable) /\ heard \in Seq(Tellable) /\ waiting \in Seq(Carriers)
    /\ Len(reported) = Len(heard) + Len(waiting)
    /\ \A n \in 1..Len(heard) : heard[n] = reported[n]
    /\ \A n \in 1..Len(waiting) : waiting[n] = MessageOf(reported[Len(heard) + n])
    /\ IsFiniteSet(RrtWaiting) /\ infos = Cardinality(RrtWaiting)

LEMMA EventsInitIInv == Recorder!Init => EventsIInv
<1> SUFFICES ASSUME Recorder!Init PROVE EventsIInv
  OBVIOUS
<1>1. waiting = <<>> /\ infos = 0 /\ reported = <<>> /\ heard = <<>>
  BY DEF Recorder!Init, Recorder!EventsInit
<1>2. Len(heard) = 0 /\ Len(reported) = 0 /\ Len(waiting) = 0
  BY <1>1
<1>3. RrtWaiting = {}
  BY <1>2 DEF RrtWaiting
<1>4. IsFiniteSet(RrtWaiting) /\ Cardinality(RrtWaiting) = 0
  BY <1>3, FS_EmptySet
<1>5. reported \in Seq(Tellable) /\ heard \in Seq(Tellable) /\ waiting \in Seq(Carriers)
  BY <1>1
<1> QED BY <1>1, <1>2, <1>4, <1>5 DEF EventsIInv

\* A message says what it was made of.
LEMMA MessageSays ==
    ASSUME NEW e \in Tellable
    PROVE  <<Recorder!Handled(MessageOf(e).type), Recorder!Says(MessageOf(e))>> = e
<1>1. MessageOf(e).type = Recorder!Type(e[1]) /\ MessageOf(e).own /\ MessageOf(e).says = e[2]
  BY DEF MessageOf, Recorder!Message
<1>2. Recorder!Says(MessageOf(e)) = e[2]
  BY <1>1 DEF Recorder!Says
<1>3. Recorder!Handled(Recorder!Type(e[1])) = e[1]
  <2>1. e[1] \in {"SCAN", "RRT", "EAS", "TVIN_RES", "SOURCE_VALID", "RECORD"}
    BY DEF Tellable, Recorder!Kinds
  <2> QED BY <2>1 DEF Recorder!Type, Recorder!Handled
<1>4. e = <<e[1], e[2]>>
  BY DEF Tellable
<1> QED BY <1>1, <1>2, <1>3, <1>4

\* An event is reported.
LEMMA EventPosted ==
    ASSUME EventsIInv, NEW e \in Tellable, Recorder!Posted(e[1], e[2]), heard' = heard,
           infos' = infos + (IF e[1] = "RRT" THEN 1 ELSE 0)
    PROVE  EventsIInv'
<1> USE DEF EventsIInv
<1> DEFINE L == Len(reported) + 1
<1>1. e = <<e[1], e[2]>>
  BY DEF Tellable
<1>2. reported' = Append(reported, e) /\ waiting' = Append(waiting, MessageOf(e))
  BY <1>1 DEF Recorder!Posted, MessageOf
<1>3. MessageOf(e) \in Carriers
  BY DEF Carriers
<1>4. /\ reported' \in Seq(Tellable) /\ Len(reported') = L /\ reported'[L] = e
      /\ \A n \in 1..Len(reported) : reported'[n] = reported[n]
  BY <1>2, AppendProperties
<1>5. /\ waiting' \in Seq(Carriers) /\ Len(waiting') = Len(waiting) + 1
      /\ waiting'[Len(waiting) + 1] = MessageOf(e)
      /\ \A n \in 1..Len(waiting) : waiting'[n] = waiting[n]
  BY <1>2, <1>3, AppendProperties
<1>6. Len(reported) \in Nat /\ Len(heard) \in Nat /\ Len(waiting) \in Nat
  BY LenProperties
<1>7. \A n \in 1..Len(heard') : heard'[n] = reported'[n]
  BY <1>4, <1>6
<1>8. \A n \in 1..Len(waiting') : waiting'[n] = MessageOf(reported'[Len(heard') + n])
  <2>1. ASSUME NEW n \in 1..Len(waiting) PROVE waiting'[n] = MessageOf(reported'[Len(heard') + n])
    <3>1. waiting'[n] = waiting[n] /\ waiting[n] = MessageOf(reported[Len(heard) + n])
      BY <1>5
    <3>2. Len(heard) + n \in 1..Len(reported) /\ Len(heard') = Len(heard)
      BY <1>6
    <3>3. reported'[Len(heard) + n] = reported[Len(heard) + n]
      BY <1>4, <3>2
    <3> QED BY <3>1, <3>2, <3>3
  <2>2. waiting'[Len(waiting) + 1] = MessageOf(reported'[Len(heard') + (Len(waiting) + 1)])
    BY <1>4, <1>5, <1>6
  <2>3. 1..Len(waiting') = 1..Len(waiting) \cup {Len(waiting) + 1}
    BY <1>5, <1>6
  <2> HIDE DEF EventsIInv
  <2> QED BY <2>1, <2>2, <2>3
<1>9. IsFiniteSet(RrtWaiting') /\ infos' = Cardinality(RrtWaiting')
  <2>1. CASE e[1] = "RRT"
    <3>1. RrtWaiting' = RrtWaiting \cup {L} /\ L \notin RrtWaiting
      BY <1>4, <1>6, <2>1 DEF RrtWaiting
    <3>2. IsFiniteSet(RrtWaiting')
          /\ Cardinality(RrtWaiting') = Cardinality(RrtWaiting) + 1
      BY <3>1, FS_AddElement
    <3> QED BY <2>1, <3>2
  <2>2. CASE e[1] # "RRT"
    <3>1. RrtWaiting' = RrtWaiting
      BY <1>4, <1>6, <2>2 DEF RrtWaiting
    <3>2. Cardinality(RrtWaiting) \in Nat
      BY FS_CardinalityType
    <3> QED BY <2>2, <3>1, <3>2
  <2> QED BY <2>1, <2>2
<1> QED BY <1>4, <1>5, <1>6, <1>7, <1>8, <1>9

\* The first message is handled.
LEMMA EventHandled == ASSUME EventsIInv, Recorder!Handle PROVE EventsIInv'
<1> USE DEF EventsIInv
<1> DEFINE k == Len(heard) + 1
           e == reported[k]
<1>1. waiting # <<>> /\ waiting' = Tail(waiting) /\ reported' = reported
  BY DEF Recorder!Handle
<1>2. Len(reported) \in Nat /\ Len(heard) \in Nat /\ Len(waiting) \in Nat \ {0}
  BY <1>1, LenProperties, EmptySeq
<1>3. /\ waiting' \in Seq(Carriers) /\ Len(waiting') = Len(waiting) - 1
      /\ \A n \in 1..Len(waiting') : waiting'[n] = waiting[n + 1]
  BY <1>1, HeadTailProperties
<1>4. k \in 1..Len(reported) /\ e \in Tellable
  BY <1>2, ElementOfSeq
<1>5. Head(waiting) = MessageOf(e)
  BY <1>1, <1>2
<1>6. heard' = Append(heard, e)
  <2>1. heard' = Append(heard, <<Recorder!Handled(Head(waiting).type), Recorder!Says(Head(waiting))>>)
    BY DEF Recorder!Handle, Recorder!Tell
  <2> HIDE DEF e
  <2> QED BY <1>4, <1>5, <2>1, MessageSays
<1>7. infos' = infos - (IF e[1] = "RRT" THEN 1 ELSE 0)
  <2>1. infos' = infos - (IF Recorder!Handled(Head(waiting).type) = "RRT" THEN 1 ELSE 0)
    BY DEF Recorder!Handle, Recorder!Freed
  <2> HIDE DEF e
  <2>2. <<Recorder!Handled(Head(waiting).type), Recorder!Says(Head(waiting))>> = e
    BY <1>4, <1>5, MessageSays
  <2>3. Recorder!Handled(Head(waiting).type) = e[1]
    BY <2>2
  <2> QED BY <2>1, <2>3
<1>8. /\ heard' \in Seq(Tellable) /\ Len(heard') = k /\ heard'[k] = e
      /\ \A n \in 1..Len(heard) : heard'[n] = heard[n]
  BY <1>4, <1>6, AppendProperties
<1>9. \A n \in 1..Len(heard') : heard'[n] = reported'[n]
  <2>1. 1..Len(heard') = 1..Len(heard) \cup {k}
    BY <1>2, <1>8
  <2>2. \A n \in 1..Len(heard) : heard'[n] = reported[n]
    BY <1>8
  <2>3. heard'[k] = reported[k]
    BY <1>8
  <2> HIDE DEF EventsIInv, k, e
  <2> QED BY <1>1, <2>1, <2>2, <2>3
<1>10. \A n \in 1..Len(waiting') : waiting'[n] = MessageOf(reported'[Len(heard') + n])
  <2> SUFFICES ASSUME NEW n \in 1..Len(waiting') PROVE waiting'[n] = MessageOf(reported'[Len(heard') + n])
    OBVIOUS
  <2>1. n + 1 \in 1..Len(waiting) /\ waiting'[n] = waiting[n + 1]
    BY <1>2, <1>3
  <2>2. waiting[n + 1] = MessageOf(reported[Len(heard) + (n + 1)])
    BY <2>1
  <2>3. Len(heard) + (n + 1) = Len(heard') + n
    BY <1>2, <1>3, <1>8
  <2> QED BY <1>1, <2>1, <2>2, <2>3
<1>11. IsFiniteSet(RrtWaiting') /\ infos' = Cardinality(RrtWaiting')
  <2>1. RrtWaiting' = RrtWaiting \ {k}
    BY <1>1, <1>2, <1>8 DEF RrtWaiting
  <2>2. k \in RrtWaiting <=> e[1] = "RRT"
    BY <1>2, <1>4 DEF RrtWaiting
  <2>3. Cardinality(RrtWaiting) \in Nat
    BY FS_CardinalityType
  <2>4. /\ IsFiniteSet(RrtWaiting \ {k})
        /\ Cardinality(RrtWaiting \ {k}) = IF k \in RrtWaiting THEN Cardinality(RrtWaiting) - 1 ELSE Cardinality(RrtWaiting)
    BY FS_RemoveElement
  <2> QED BY <1>7, <2>1, <2>2, <2>3, <2>4
<1>12. Len(reported') = Len(heard') + Len(waiting') /\ reported' \in Seq(Tellable)
  <2>1. Len(reported) = Len(heard) + Len(waiting) /\ reported \in Seq(Tellable)
    OBVIOUS
  <2> HIDE DEF EventsIInv, e
  <2> QED BY <1>1, <1>2, <1>3, <1>8, <2>1
<1> HIDE DEF k, e
<1> QED BY <1>3, <1>8, <1>9, <1>10, <1>11, <1>12

LEMMA EventsStepIInv == EventsIInv /\ [Recorder!Next]_recording => EventsIInv'
<1> SUFFICES ASSUME EventsIInv, [Recorder!Next]_recording PROVE EventsIInv'
  OBVIOUS
<1>1. ASSUME UNCHANGED <<waiting, infos, reported, heard>> PROVE EventsIInv'
  BY <1>1 DEF EventsIInv, RrtWaiting
<1>2. ASSUME NEW id \in Recorder!Ids, NEW type \in {"START", "STOP"},
             Recorder!Observed(id, type) \/ UNCHANGED <<waiting, reported>>, UNCHANGED <<infos, heard>>
      PROVE  EventsIInv'
  <2>1. CASE Recorder!Posted("RECORD", <<id, type>>)
    <3> DEFINE e == <<"RECORD", <<id, type>>>>
    <3>1. e \in Tellable
      <4>1. <<id, type>> \in OfRecords
        BY DEF OfRecords
      <4>2. <<id, type>> \in Sayings
        BY <4>1 DEF Sayings
      <4> QED BY <4>2 DEF Tellable
    <3>2. infos \in Nat
      BY FS_CardinalityType DEF EventsIInv
    <3>3. Recorder!Posted(e[1], e[2]) /\ infos' = infos + (IF e[1] = "RRT" THEN 1 ELSE 0)
      BY <1>2, <2>1, <3>2
    <3> HIDE DEF e
    <3> QED BY <1>2, <3>1, <3>3, EventPosted
  <2>2. CASE UNCHANGED <<waiting, reported>>
    BY <1>1, <1>2, <2>2
  <2> QED BY <1>2, <2>1, <2>2 DEF Recorder!Observed
<1>3. CASE Recorder!Report
  <2>1. PICK kind \in Recorder!Kinds : \E says \in Payloads[kind] :
           Recorder!Posted(kind, says) /\ infos' = infos + (IF kind = "RRT" THEN 1 ELSE 0) /\ heard' = heard
    BY <1>3 DEF Recorder!Report
  <2>2. PICK says \in Payloads[kind] :
           Recorder!Posted(kind, says) /\ infos' = infos + (IF kind = "RRT" THEN 1 ELSE 0) /\ heard' = heard
    BY <2>1
  <2> DEFINE e == <<kind, says>>
  <2>3. e \in Tellable
    BY DEF Tellable, Sayings
  <2>4. e[1] = kind /\ e[2] = says
    OBVIOUS
  <2> HIDE DEF e
  <2> QED BY <2>2, <2>3, <2>4, EventPosted
<1>4. CASE Recorder!Handle
  BY <1>4, EventHandled
<1>5. CASE Recorder!StatusStarted
  <2>1. PICK id \in Recorder!Ids : Recorder!Started(id) /\ UNCHANGED <<infos, heard>>
    BY <1>5 DEF Recorder!StatusStarted
  <2>2. Recorder!Observed(id, "START") \/ UNCHANGED <<waiting, reported>>
    BY <2>1 DEF Recorder!Started
  <2> QED BY <1>2, <2>1, <2>2
<1>6. CASE Recorder!StatusStopped
  BY <1>2, <1>6 DEF Recorder!StatusStopped
<1>7. ASSUME NEW id \in Recorder!Ids, Recorder!ToldStop(id), Recorder!Called PROVE EventsIInv'
  BY <1>2, <1>7 DEF Recorder!ToldStop, Recorder!Called
<1>8. ASSUME Recorder!RecordPrepare \/ Recorder!RecordStart \/ Recorder!RecordStop PROVE EventsIInv'
  <2>1. PICK id \in Recorder!Ids : Recorder!ToldStop(id)
    BY <1>8 DEF Recorder!RecordPrepare, Recorder!RecordStart, Recorder!RecordStop, Recorder!startRecording,
                Recorder!stopRecording
  <2>2. Recorder!Called
    BY <1>8 DEF Recorder!RecordPrepare, Recorder!RecordStart, Recorder!RecordStop
  <2> QED BY <1>7, <2>1, <2>2
<1>9. ASSUME Recorder!PlayerRecords \/ Recorder!PlayerStops PROVE EventsIInv'
  <2>1. Recorder!TimeShifting \in Recorder!Ids
    BY RecordingAssumption DEF Recorder!TimeShifting, Recorder!Ids
  <2>2. Recorder!ToldStop(Recorder!TimeShifting) /\ Recorder!Called
    BY <1>9 DEF Recorder!PlayerRecords, Recorder!PlayerStops, Recorder!startRecording, Recorder!stopRecording
  <2> QED BY <1>7, <2>1, <2>2
<1>10. CASE UNCHANGED recording
  BY <1>1, <1>10 DEF recording
<1> QED BY <1>3, <1>4, <1>5, <1>6, <1>8, <1>9, <1>10 DEF Recorder!Next

LEMMA EventsIInvTold == EventsIInv => Recorder!EventsTold
<1> SUFFICES ASSUME EventsIInv PROVE Recorder!EventsTold
  OBVIOUS
<1> USE DEF EventsIInv
<1>1. Len(reported) \in Nat /\ Len(heard) \in Nat /\ Len(waiting) \in Nat /\ Len(heard) <= Len(reported)
  BY LenProperties
<1> DEFINE a == SubSeq(heard, 1, Len(heard))
           b == SubSeq(reported, 1, Len(heard))
<1>2. a = b
  <2>1. /\ a \in Seq(Tellable) /\ Len(a) = Len(heard)
        /\ \A n \in 1..Len(heard) : a[n] = heard[n]
    BY SubSeqFull
  <2>2. \A n \in 1..Len(heard) : reported[n] \in Tellable
    BY <1>1, ElementOfSeq
  <2>3. /\ b \in Seq(Tellable) /\ Len(b) = (IF 1 <= Len(heard) THEN Len(heard) - 1 + 1 ELSE 0)
        /\ \A n \in 1..Len(heard) - 1 + 1 : b[n] = reported[1 + n - 1]
    BY <1>1, <2>2, SubSeqProperties
  <2>4. Len(a) = Len(b) /\ \A n \in 1..Len(a) : a[n] = b[n]
    BY <1>1, <2>1, <2>3
  <2> HIDE DEF a, b
  <2> QED BY <2>1, <2>3, <2>4, SeqEqual
<1>3. IsPrefix(heard, reported)
  BY <1>1, <1>2 DEF IsPrefix
<1>4. ASSUME waiting = <<>> PROVE heard = reported /\ infos = 0
  <2>1. Len(waiting) = 0 /\ Len(heard) = Len(reported)
    BY <1>1, <1>4
  <2>2. heard = reported
    BY <2>1, SeqEqual
  <2>3. RrtWaiting = {}
    BY <1>1, <2>1 DEF RrtWaiting
  <2> QED BY <2>2, <2>3, FS_EmptySet
<1> QED BY <1>3, <1>4 DEF Recorder!EventsTold, Recorder!IsPrefix, IsPrefix

-----------------------------------------------------------------------------
(* Recording. *)

RecorderShape(r) == DOMAIN r = {"made", "observer", "started", "place", "timeshift", "accurate", "radio"}
RecordShape(d) == DOMAIN d = {"open", "state", "place", "timeshift", "accurate", "flush", "request"}

\* What is open has what its request asks for.
HasAsked(d) ==
    d.open =>
       /\ d.place = <<d.request.path, "timeshift">>
       /\ d.timeshift = d.request.timeshift /\ d.accurate = d.timeshift
       /\ (d.flush = 1) = (d.request.audio /\ ~d.request.video)

\* A recorder that has once been one for timeshift gets no other request.
MayBe(id, r) ==
    /\ RecorderShape(r)
    /\ r.accurate \in BOOLEAN
    /\ r.accurate = FALSE \/ \A request \in Requests[id] : request.timeshift = TRUE

RecordingIInv ==
    /\ DOMAIN recorders = Recorder!Ids /\ DOMAIN records = Recorder!Ids
    /\ \A id \in Recorder!Ids :
          MayBe(id, recorders[id]) /\ RecordShape(records[id]) /\ HasAsked(records[id])

LEMMA RecordingInitIInv == Recorder!Init => RecordingIInv
<1> SUFFICES ASSUME Recorder!Init PROVE RecordingIInv
  OBVIOUS
<1>1. \A id \in Recorder!Ids : recorders[id] = Recorder!Unmade /\ records[id] = Recorder!Closed
  BY DEF Recorder!Init
<1>2. \A id : MayBe(id, Recorder!Unmade)
  BY DEF MayBe, RecorderShape, Recorder!Unmade
<1>3. RecordShape(Recorder!Closed) /\ HasAsked(Recorder!Closed)
  BY DEF RecordShape, HasAsked, Recorder!Closed
<1>4. DOMAIN recorders = Recorder!Ids /\ DOMAIN records = Recorder!Ids
  BY DEF Recorder!Init
<1> QED BY <1>1, <1>2, <1>3, <1>4 DEF RecordingIInv

\* What a recorder is when it was prepared.
LEMMA Prepared ==
    ASSUME RecordingIInv, NEW id \in Recorder!Ids, NEW request \in Requests[id]
    PROVE  LET r == Recorder!setupDefault([recorders[id] EXCEPT !.started = FALSE], request) IN
           /\ RecorderShape(r)
           /\ r.place = <<request.path>>
           /\ r.timeshift = request.timeshift /\ r.accurate = request.timeshift
           /\ r.radio = (~request.video /\ request.audio)
           /\ r.made = TRUE /\ r.started = FALSE
<1> DEFINE o == [recorders[id] EXCEPT !.started = FALSE]
           q == Recorder!setTimeShiftMode(o, request.timeshift)
           r == Recorder!setupDefault(o, request)
<1>1. request.timeshift \in BOOLEAN
  BY RecordingAssumption DEF Recorder!Ids
<1>2. (recorders[id].accurate \/ request.timeshift) = request.timeshift
  BY <1>1 DEF RecordingIInv, MayBe
<1>3. RecorderShape(o) /\ o.accurate = recorders[id].accurate /\ o.started = FALSE
  BY DEF RecordingIInv, MayBe, RecorderShape
<1> HIDE DEF o
<1>4. RecorderShape(q) /\ q.timeshift = request.timeshift /\ q.accurate = (o.accurate \/ request.timeshift)
      /\ q.started = o.started
  BY <1>3 DEF RecorderShape, Recorder!setTimeShiftMode
<1>5. q.accurate = request.timeshift
  BY <1>2, <1>3, <1>4
<1>6. r = [q EXCEPT !.made = TRUE, !.place = <<request.path>>, !.radio = ~request.video /\ request.audio]
  BY DEF Recorder!setupDefault, Recorder!Base
<1> HIDE DEF q, r
<1>7. /\ RecorderShape(r) /\ r.place = <<request.path>> /\ r.timeshift = q.timeshift /\ r.accurate = q.accurate
      /\ r.radio = (~request.video /\ request.audio) /\ r.made = TRUE /\ r.started = q.started
  BY <1>4, <1>6 DEF RecorderShape
<1> QED BY <1>3, <1>4, <1>5, <1>7 DEF r, o

LEMMA PlaceNamed == \A p : Append(<<p>>, "timeshift") = <<p, "timeshift">>
<1> SUFFICES ASSUME NEW p PROVE Append(<<p>>, "timeshift") = <<p, "timeshift">>
  OBVIOUS
<1> DEFINE S == {p, "timeshift"}
           a == Append(<<p>>, "timeshift")
           b == <<p, "timeshift">>
<1>1. <<p>> \in Seq(S) /\ b \in Seq(S) /\ Len(<<p>>) = 1 /\ Len(b) = 2
  OBVIOUS
<1>2. a \in Seq(S) /\ Len(a) = 2 /\ a[1] = p /\ a[2] = "timeshift"
  BY <1>1, AppendProperties
<1>3. \A n \in 1..Len(a) : a[n] = b[n]
  BY <1>2
<1> HIDE DEF a, b, S
<1>4. a = b
  BY <1>1, <1>2, <1>3, SeqEqual
<1> QED BY <1>4 DEF a, b

\* A step that makes one recorder and its record what they may be keeps the rest.
LEMMA OneRecorder ==
    ASSUME RecordingIInv, NEW id \in Recorder!Ids,
           DOMAIN recorders' = DOMAIN recorders, \A i \in Recorder!Ids \ {id} : recorders'[i] = recorders[i],
           DOMAIN records' = DOMAIN records, \A i \in Recorder!Ids \ {id} : records'[i] = records[i],
           MayBe(id, recorders'[id]), RecordShape(records'[id]), HasAsked(records'[id])
    PROVE  RecordingIInv'
<1>1. ASSUME NEW i \in Recorder!Ids
      PROVE  MayBe(i, recorders'[i]) /\ RecordShape(records'[i]) /\ HasAsked(records'[i])
  BY DEF RecordingIInv
<1> QED BY <1>1 DEF RecordingIInv, Recorder!Ids, MayBe, RecorderShape, RecordShape, HasAsked

LEMMA RecordingStepIInv == RecordingIInv /\ [Recorder!Next]_recording => RecordingIInv'
<1> SUFFICES ASSUME RecordingIInv, [Recorder!Next]_recording PROVE RecordingIInv'
  OBVIOUS
<1>a. RecordShape(Recorder!Closed) /\ HasAsked(Recorder!Closed)
  BY DEF RecordShape, HasAsked, Recorder!Closed
<1>b. ASSUME NEW id \in Recorder!Ids, NEW request \in Requests[id], NEW r, RecorderShape(r),
             r.accurate = request.timeshift
      PROVE  MayBe(id, r)
  BY <1>b, RecordingAssumption DEF MayBe, Recorder!Ids
\* A report changes whether the recorder has started, or how its record is.
<1>1. ASSUME NEW id \in Recorder!Ids, NEW s, NEW state,
             \/ recorders' = recorders
             \/ recorders' = [recorders EXCEPT ![id].started = s],
             records' = [records EXCEPT ![id].state = state]
      PROVE  RecordingIInv'
  <2>1. DOMAIN recorders' = DOMAIN recorders /\ \A i \in Recorder!Ids \ {id} : recorders'[i] = recorders[i]
    <3>1. CASE recorders' = recorders
      BY <3>1
    <3>2. CASE recorders' = [recorders EXCEPT ![id].started = s]
      BY <3>2
    <3> QED BY <1>1, <3>1, <3>2
  <2>2. recorders'[id] = recorders[id] \/ recorders'[id] = [recorders[id] EXCEPT !.started = s]
    BY <1>1 DEF RecordingIInv
  <2>3. RecorderShape(recorders'[id]) /\ recorders'[id].accurate = recorders[id].accurate
    BY <2>2 DEF RecordingIInv, MayBe, RecorderShape
  <2>4. /\ DOMAIN records' = DOMAIN records /\ \A i \in Recorder!Ids \ {id} : records'[i] = records[i]
        /\ records'[id] = [records[id] EXCEPT !.state = state]
    BY <1>1 DEF RecordingIInv
  <2>5. RecordShape(records'[id]) /\ HasAsked(records'[id])
    BY <2>4 DEF RecordingIInv, RecordShape, HasAsked
  <2>6. MayBe(id, recorders'[id])
    BY <2>3 DEF RecordingIInv, MayBe
  <2> QED BY <2>1, <2>4, <2>5, <2>6, OneRecorder
<1>2. CASE Recorder!StatusStarted
  <2>1. PICK id \in Recorder!Ids : records' = [records EXCEPT ![id].state = "started"] /\ Recorder!Started(id)
    BY <1>2 DEF Recorder!StatusStarted
  <2>2. recorders' = recorders \/ recorders' = [recorders EXCEPT ![id].started = TRUE]
    BY <2>1 DEF Recorder!Started
  <2> QED BY <1>1, <2>1, <2>2
<1>3. CASE Recorder!StatusStopped
  BY <1>1, <1>3 DEF Recorder!StatusStopped
<1>4. CASE Recorder!RecordPrepare
  <2>0. PICK id \in Recorder!Ids : \E request \in Requests[id] :
           /\ recorders' = [recorders EXCEPT ![id] = Recorder!setupDefault([recorders[id] EXCEPT !.started = FALSE], request)]
           /\ records' = [records EXCEPT ![id] = Recorder!Closed]
    BY <1>4 DEF Recorder!RecordPrepare
  <2>1. PICK request \in Requests[id] :
           /\ recorders' = [recorders EXCEPT ![id] = Recorder!setupDefault([recorders[id] EXCEPT !.started = FALSE], request)]
           /\ records' = [records EXCEPT ![id] = Recorder!Closed]
    BY <2>0
  <2> DEFINE r == Recorder!setupDefault([recorders[id] EXCEPT !.started = FALSE], request)
  <2>2. RecorderShape(r) /\ r.accurate = request.timeshift
    BY Prepared
  <2> HIDE DEF r
  <2>3. recorders'[id] = r /\ records'[id] = Recorder!Closed
    BY <2>1 DEF r, RecordingIInv
  <2>4. MayBe(id, r)
    BY <1>b, <2>2
  <2>5. /\ DOMAIN recorders' = DOMAIN recorders /\ \A i \in Recorder!Ids \ {id} : recorders'[i] = recorders[i]
        /\ DOMAIN records' = DOMAIN records /\ \A i \in Recorder!Ids \ {id} : records'[i] = records[i]
    BY <2>1
  <2> QED BY <1>a, <2>3, <2>4, <2>5, OneRecorder
<1>5. ASSUME NEW id \in Recorder!Ids, NEW observer, Recorder!startRecording(id, observer) PROVE RecordingIInv'
  <2> DEFINE R(request) == Recorder!setupDefault([recorders[id] EXCEPT !.started = FALSE], request)
  <2>1. PICK request \in Requests[id] :
           /\ records' = [records EXCEPT ![id] = Recorder!Opened(R(request), request)]
           /\ recorders' = [recorders EXCEPT ![id] = [R(request) EXCEPT !.observer = observer, !.place = Append(@, "timeshift")]]
    BY <1>5 DEF Recorder!startRecording
  <2> DEFINE r == [R(request) EXCEPT !.observer = observer, !.place = Append(@, "timeshift")]
             d == Recorder!Opened(R(request), request)
  <2>2. /\ RecorderShape(R(request)) /\ R(request).place = <<request.path>>
        /\ R(request).timeshift = request.timeshift /\ R(request).accurate = request.timeshift
        /\ R(request).radio = (~request.video /\ request.audio)
    BY Prepared
  <2> HIDE DEF R
  <2>3. RecorderShape(r) /\ r.accurate = request.timeshift
    BY <2>2 DEF RecorderShape
  <2>4. /\ RecordShape(d) /\ d.request = request /\ d.place = Append(R(request).place, "timeshift")
        /\ d.timeshift = R(request).timeshift /\ d.accurate = R(request).accurate
        /\ d.flush = Recorder!Flush(R(request))
    BY DEF Recorder!Opened, RecordShape
  <2>5. RecordShape(d) /\ HasAsked(d)
    <3>1. d.place = <<d.request.path, "timeshift">>
      <4> DEFINE p == request.path
      <4>1. Append(<<p>>, "timeshift") = <<p, "timeshift">>
        BY PlaceNamed
      <4> QED BY <2>2, <2>4, <4>1
    <3>2. (d.flush = 1) = (request.audio /\ ~request.video)
      <4>1. d.flush = IF R(request).radio THEN 1 ELSE 256
        BY <2>4 DEF Recorder!Flush
      <4>2. request.audio \in BOOLEAN /\ request.video \in BOOLEAN
        BY RecordingAssumption DEF Recorder!Ids
      <4> DEFINE on == R(request).radio
      <4>3. on = (~request.video /\ request.audio)
        BY <2>2
      <4>4. CASE on
        <5>1. d.flush = 1
          BY <4>1, <4>4
        <5> QED BY <4>2, <4>3, <4>4, <5>1
      <4>5. CASE ~on
        <5>1. d.flush = 256
          BY <4>1, <4>5
        <5> QED BY <4>2, <4>3, <4>5, <5>1
      <4> QED BY <4>4, <4>5
    <3> HIDE DEF d
    <3> QED BY <2>2, <2>4, <3>1, <3>2 DEF HasAsked
  <2>6. recorders' = [recorders EXCEPT ![id] = r] /\ records' = [records EXCEPT ![id] = d]
    BY <2>1
  <2> HIDE DEF r, d
  <2>7. recorders'[id] = r /\ records'[id] = d
    BY <2>6 DEF RecordingIInv
  <2>8. MayBe(id, r)
    BY <1>b, <2>3
  <2>9. /\ DOMAIN recorders' = DOMAIN recorders /\ \A i \in Recorder!Ids \ {id} : recorders'[i] = recorders[i]
        /\ DOMAIN records' = DOMAIN records /\ \A i \in Recorder!Ids \ {id} : records'[i] = records[i]
    BY <2>6
  <2> QED BY <2>5, <2>7, <2>8, <2>9, OneRecorder
<1>6. ASSUME NEW id \in Recorder!Ids, Recorder!stopRecording(id) PROVE RecordingIInv'
  <2>1. MayBe(id, Recorder!Unmade)
    BY DEF MayBe, RecorderShape, Recorder!Unmade
  <2>2. recorders' = [recorders EXCEPT ![id] = Recorder!Unmade] /\ records' = [records EXCEPT ![id] = Recorder!Closed]
    BY <1>6 DEF Recorder!stopRecording
  <2>3. recorders'[id] = Recorder!Unmade /\ records'[id] = Recorder!Closed
    BY <2>2 DEF RecordingIInv
  <2>4. /\ DOMAIN recorders' = DOMAIN recorders /\ \A i \in Recorder!Ids \ {id} : recorders'[i] = recorders[i]
        /\ DOMAIN records' = DOMAIN records /\ \A i \in Recorder!Ids \ {id} : records'[i] = records[i]
    BY <2>2
  <2> QED BY <1>a, <2>1, <2>3, <2>4, OneRecorder
<1>7. CASE UNCHANGED <<recorders, records>>
  BY <1>7 DEF RecordingIInv, MayBe, RecorderShape, RecordShape, HasAsked, Recorder!Ids
<1>8. CASE Recorder!PlayerRecords \/ Recorder!PlayerStops
  <2>1. Recorder!TimeShifting \in Recorder!Ids
    BY RecordingAssumption DEF Recorder!TimeShifting, Recorder!Ids
  <2> QED BY <1>5, <1>6, <1>8, <2>1 DEF Recorder!PlayerRecords, Recorder!PlayerStops
<1> QED
  BY <1>2, <1>3, <1>4, <1>5, <1>6, <1>7, <1>8 DEF Recorder!Next, Recorder!RecordStart, Recorder!RecordStop, recording

LEMMA RecordingIInvAsked == RecordingIInv => Recorder!RecordAsAsked
  BY DEF RecordingIInv, HasAsked, Recorder!RecordAsAsked

-----------------------------------------------------------------------------
(* What is reported of records. *)

\* What was reported of a recorder, and whether the last of it was that.
RecordsOf(id) == {n \in 1..Len(reported) : reported[n][1] = "RECORD" /\ reported[n][2][1] = id}
Latest(id, type) ==
    \E n \in RecordsOf(id) : reported[n][2][2] = type /\ \A m \in RecordsOf(id) : m <= n

\* A record is open for a recorder only that was made and has the observer of its
\* kind; the recorder knows whether it has started.
Runs(id) ==
    LET r == recorders[id] d == records[id] IN
    /\ d.open \in BOOLEAN /\ (d.state = "started" => d.open)
    /\ d.open => r.made /\ r.observer = (IF id = Recorder!TimeShifting THEN "player" ELSE "queue")
    /\ id = Recorder!TimeShifting => r.observer # "queue"
    /\ d.open => r.started \in BOOLEAN /\ (r.started <=> d.state = "started")

\* Reports of a recorder, other than the player's, are of a start and of an end in
\* turn, and the last one is how its record is.
ReportsIInv ==
    /\ \A id \in Recorder!Ids : Runs(id)
    /\ RecordsOf(Recorder!TimeShifting) = {}
    /\ \A id \in Recorder!Ids \ {Recorder!TimeShifting} :
          /\ Latest(id, "START") <=> records[id].state = "started"
          /\ RecordsOf(id) # {} => Latest(id, "START") \/ Latest(id, "STOP")
          /\ \A m, n \in RecordsOf(id) :
                m < n /\ reported[m] = reported[n] =>
                  \E k \in RecordsOf(id) : m < k /\ k < n /\ reported[k] # reported[n]

LEMMA ReportsInitIInv == Recorder!Init => ReportsIInv
<1> SUFFICES ASSUME Recorder!Init PROVE ReportsIInv
  OBVIOUS
<1>1. \A id \in Recorder!Ids : recorders[id] = Recorder!Unmade /\ records[id] = Recorder!Closed
  BY DEF Recorder!Init
<1>2. \A id : RecordsOf(id) = {}
  <2>1. reported = <<>> /\ Len(reported) = 0
    BY DEF Recorder!Init, Recorder!EventsInit
  <2> QED BY <2>1 DEF RecordsOf
<1>3. \A id \in Recorder!Ids : Runs(id)
  <2>1. Recorder!Closed.open = FALSE /\ Recorder!Closed.state = "none" /\ Recorder!Unmade.observer = "none"
    BY DEF Recorder!Unmade, Recorder!Closed
  <2> QED BY <1>1, <2>1 DEF Runs
<1>4. \A id : ~Latest(id, "START")
  BY <1>2 DEF Latest
<1>5. \A id \in Recorder!Ids : records[id].state # "started"
  BY <1>1 DEF Recorder!Closed
<1> QED BY <1>2, <1>3, <1>4, <1>5 DEF ReportsIInv

\* How what was reported of a recorder grows.
LEMMA RecordsGrow ==
    ASSUME reported \in Seq(Tellable), NEW e \in Tellable, reported' = Append(reported, e), NEW id
    PROVE  LET L == Len(reported) + 1 IN
           /\ RecordsOf(id)' = IF e[1] = "RECORD" /\ e[2][1] = id THEN RecordsOf(id) \cup {L} ELSE RecordsOf(id)
           /\ \A n \in RecordsOf(id) : reported'[n] = reported[n] /\ n \in Nat /\ n < L
           /\ L \in Nat /\ reported'[L] = e
<1> DEFINE L == Len(reported) + 1
<1>1. Len(reported) \in Nat
  BY LenProperties
<1>2. Len(reported') = L /\ reported'[L] = e /\ \A n \in 1..Len(reported) : reported'[n] = reported[n]
  BY AppendProperties
<1>3. 1..Len(reported') = 1..Len(reported) \cup {L}
  BY <1>1, <1>2
<1>4. \A n \in RecordsOf(id) : n \in 1..Len(reported) /\ reported'[n] = reported[n] /\ n \in Nat /\ n < L
  BY <1>1, <1>2 DEF RecordsOf
<1>5. RecordsOf(id)' = IF e[1] = "RECORD" /\ e[2][1] = id THEN RecordsOf(id) \cup {L} ELSE RecordsOf(id)
  BY <1>2, <1>3 DEF RecordsOf
<1> HIDE DEF L
<1> QED BY <1>1, <1>2, <1>4, <1>5 DEF L

\* Nothing is reported of a recorder, whose record stays started or not.
LEMMA ReportsStay ==
    ASSUME ReportsIInv, \A id \in Recorder!Ids : Runs(id)',
           \A id \in Recorder!Ids : (records'[id].state = "started" <=> records[id].state = "started")
                                     \/ id = Recorder!TimeShifting,
           \A id \in Recorder!Ids : RecordsOf(id)' = RecordsOf(id),
           \A id \in Recorder!Ids : \A n \in RecordsOf(id) : reported'[n] = reported[n]
    PROVE  ReportsIInv'
<1>1. Recorder!TimeShifting \in Recorder!Ids /\ (Recorder!Ids)' = Recorder!Ids
      /\ (Recorder!TimeShifting)' = Recorder!TimeShifting
  BY RecordingAssumption DEF Recorder!TimeShifting, Recorder!Ids
<1>2. ASSUME NEW id \in Recorder!Ids, NEW type PROVE Latest(id, type)' <=> Latest(id, type)
  BY <1>2 DEF Latest
<1>3. ASSUME NEW id \in Recorder!Ids \ {Recorder!TimeShifting}, NEW m \in RecordsOf(id)', NEW n \in RecordsOf(id)',
             m < n, reported'[m] = reported'[n]
      PROVE  \E k \in RecordsOf(id)' : m < k /\ k < n /\ reported'[k] # reported'[n]
  <2>1. m \in RecordsOf(id) /\ n \in RecordsOf(id) /\ reported[m] = reported[n]
    BY <1>3
  <2>2. PICK k \in RecordsOf(id) : m < k /\ k < n /\ reported[k] # reported[n]
    BY <1>3, <2>1 DEF ReportsIInv
  <2> QED BY <2>1, <2>2
<1> QED BY <1>1, <1>2, <1>3 DEF ReportsIInv

\* Another event than one of a recorder is reported, or none.
LEMMA OthersReported ==
    ASSUME ReportsIInv, EventsIInv, UNCHANGED <<recorders, records>>,
           NEW e \in Tellable, e[1] # "RECORD", reported' = Append(reported, e)
    PROVE  ReportsIInv'
<1>1. \A id \in Recorder!Ids : RecordsOf(id)' = RecordsOf(id) /\ \A n \in RecordsOf(id) : reported'[n] = reported[n]
  BY RecordsGrow DEF EventsIInv
<1>2. \A id \in Recorder!Ids : Runs(id)'
  BY DEF ReportsIInv, Runs
<1> QED BY <1>1, <1>2, ReportsStay

\* A start or an end is reported of a recorder, of which the other was the last.
LEMMA RecordReported ==
    ASSUME ReportsIInv, EventsIInv, NEW id \in Recorder!Ids \ {Recorder!TimeShifting},
           NEW type \in {"START", "STOP"}, ~Latest(id, type),
           reported' = Append(reported, <<"RECORD", <<id, type>>>>),
           \A i \in Recorder!Ids : Runs(i)',
           records'[id].state = "started" <=> type = "START",
           \A i \in Recorder!Ids \ {id} : records'[i].state = records[i].state
    PROVE  ReportsIInv'
<1> DEFINE e == <<"RECORD", <<id, type>>>>
           L == Len(reported) + 1
<1>1. e \in Tellable
  <2>1. <<id, type>> \in OfRecords
    BY DEF OfRecords
  <2> QED BY <2>1 DEF Tellable, Sayings
<1>2. e[1] = "RECORD" /\ e[2][1] = id /\ e[2][2] = type
  OBVIOUS
<1>3. reported' = Append(reported, e) /\ reported \in Seq(Tellable)
  BY DEF EventsIInv
<1> HIDE DEF e
<1>4. \A i \in Recorder!Ids \ {id} :
         RecordsOf(i)' = RecordsOf(i) /\ \A n \in RecordsOf(i) : reported'[n] = reported[n]
  <2> SUFFICES ASSUME NEW i \in Recorder!Ids, i # id
               PROVE  RecordsOf(i)' = RecordsOf(i) /\ \A n \in RecordsOf(i) : reported'[n] = reported[n]
    OBVIOUS
  <2>1. ~(e[1] = "RECORD" /\ e[2][1] = i)
    BY <1>2
  <2> QED BY <1>1, <1>3, <2>1, RecordsGrow
<1>5. /\ RecordsOf(id)' = RecordsOf(id) \cup {L}
      /\ \A n \in RecordsOf(id) : reported'[n] = reported[n] /\ n \in Nat /\ n < L
      /\ L \in Nat /\ reported'[L] = e
  BY <1>1, <1>2, <1>3, RecordsGrow
<1> HIDE DEF L
<1>6. Recorder!TimeShifting \in Recorder!Ids /\ (Recorder!Ids)' = Recorder!Ids
      /\ (Recorder!TimeShifting)' = Recorder!TimeShifting
  BY RecordingAssumption DEF Recorder!TimeShifting, Recorder!Ids
<1>7. \A t : Latest(id, t)' <=> t = type
  <2> SUFFICES ASSUME NEW t PROVE Latest(id, t)' <=> t = type
    OBVIOUS
  <2>0. L \in RecordsOf(id)' /\ reported'[L][2][2] = type
    BY <1>2, <1>5
  <2>1. \A m \in RecordsOf(id)' : m <= L
    BY <1>5
  <2>2. \A n \in RecordsOf(id)' : (\A m \in RecordsOf(id)' : m <= n) => n = L
    BY <1>5, <2>0
  <2> QED BY <2>0, <2>1, <2>2 DEF Latest
<1>8. \A i \in Recorder!Ids \ {id} : \A t : Latest(i, t)' <=> Latest(i, t)
  BY <1>4 DEF Latest
<1>9. ASSUME NEW m \in RecordsOf(id)', NEW n \in RecordsOf(id)', m < n, reported'[m] = reported'[n]
      PROVE  \E k \in RecordsOf(id)' : m < k /\ k < n /\ reported'[k] # reported'[n]
  <2>0. m \in RecordsOf(id)
    BY <1>5, <1>9
  <2>1. CASE n \in RecordsOf(id)
    <3>1. reported[m] = reported[n]
      BY <1>5, <1>9, <2>0, <2>1
    <3>2. PICK k \in RecordsOf(id) : m < k /\ k < n /\ reported[k] # reported[n]
      BY <1>9, <2>0, <2>1, <3>1 DEF ReportsIInv
    <3> QED BY <1>5, <2>1, <3>2
  <2>2. CASE n = L
    <3>1. reported[m] = e
      BY <1>5, <1>9, <2>0, <2>2
    <3>2. Latest(id, "START") \/ Latest(id, "STOP")
      BY <2>0 DEF ReportsIInv
    <3>3. PICK k \in RecordsOf(id) : reported[k][2][2] # type /\ \A j \in RecordsOf(id) : j <= k
      BY <3>2 DEF Latest
    <3>4. reported[k] # e /\ m # k /\ m <= k
      BY <1>2, <2>0, <3>1, <3>3
    <3>5. m < k /\ k < L /\ reported'[k] # reported'[L]
      <4>1. m \in Nat /\ k \in Nat /\ k < L /\ reported'[k] = reported[k] /\ reported'[L] = e
        BY <1>5, <2>0
      <4>2. m < k
        BY <3>4, <4>1
      <4> QED BY <3>4, <4>1, <4>2
    <3>6. k \in RecordsOf(id)'
      BY <1>5
    <3> QED BY <2>2, <3>5, <3>6
  <2> QED BY <1>5, <1>9, <2>1, <2>2
<1>10. ASSUME NEW i \in Recorder!Ids \ {Recorder!TimeShifting, id}, NEW m \in RecordsOf(i)', NEW n \in RecordsOf(i)',
              m < n, reported'[m] = reported'[n]
       PROVE  \E k \in RecordsOf(i)' : m < k /\ k < n /\ reported'[k] # reported'[n]
  <2>1. m \in RecordsOf(i) /\ n \in RecordsOf(i) /\ reported[m] = reported[n]
    BY <1>4, <1>10
  <2>2. PICK k \in RecordsOf(i) : m < k /\ k < n /\ reported[k] # reported[n]
    BY <1>10, <2>1 DEF ReportsIInv
  <2> QED BY <1>4, <2>1, <2>2
<1>11. ASSUME NEW i \in Recorder!Ids \ {Recorder!TimeShifting}
       PROVE  /\ Latest(i, "START")' <=> records'[i].state = "started"
              /\ RecordsOf(i)' # {} => Latest(i, "START")' \/ Latest(i, "STOP")'
  <2>1. CASE i = id
    BY <1>7, <2>1
  <2>2. CASE i # id
    BY <1>4, <1>8, <2>2 DEF ReportsIInv
  <2> QED BY <2>1, <2>2
<1>12. (RecordsOf(Recorder!TimeShifting) = {})'
  BY <1>4, <1>6 DEF ReportsIInv
<1>13. \A i \in Recorder!Ids \ {Recorder!TimeShifting} : \A m, n \in RecordsOf(i)' :
          m < n /\ reported'[m] = reported'[n] =>
            \E k \in RecordsOf(i)' : m < k /\ k < n /\ reported'[k] # reported'[n]
  <2> SUFFICES ASSUME NEW i \in Recorder!Ids \ {Recorder!TimeShifting}, NEW m \in RecordsOf(i)',
                      NEW n \in RecordsOf(i)', m < n, reported'[m] = reported'[n]
               PROVE  \E k \in RecordsOf(i)' : m < k /\ k < n /\ reported'[k] # reported'[n]
    OBVIOUS
  <2>1. CASE i = id
    BY <1>9, <2>1
  <2>2. CASE i # id
    BY <1>10, <2>2
  <2> QED BY <2>1, <2>2
<1> QED BY <1>6, <1>11, <1>12, <1>13 DEF ReportsIInv

\* A record ends, for its own sake or as it is stopped.
LEMMA RecordEnds ==
    ASSUME ReportsIInv, EventsIInv, NEW id \in Recorder!Ids, Recorder!ToldStop(id), records'[id].state # "started",
           Runs(id)', \A i \in Recorder!Ids \ {id} : recorders'[i] = recorders[i] /\ records'[i] = records[i]
    PROVE  ReportsIInv'
<1>1. \A i \in Recorder!Ids : Runs(i)'
  BY DEF ReportsIInv, Runs
<1>2. Runs(id)
  BY DEF ReportsIInv
<1>3. ASSUME reported' = reported, records[id].state # "started" \/ id = Recorder!TimeShifting PROVE ReportsIInv'
  <2>1. \A i \in Recorder!Ids : RecordsOf(i)' = RecordsOf(i)
    BY <1>3 DEF RecordsOf
  <2> QED BY <1>1, <1>3, <2>1, ReportsStay
<1>4. CASE Recorder!Stops(id)
  <2>1. records[id].state = "started" /\ records[id].open
    BY <1>4 DEF Recorder!Stops
  <2>2. Recorder!Observed(id, "STOP")
    BY <1>4 DEF Recorder!ToldStop
  <2>3. CASE id = Recorder!TimeShifting
    BY <1>2, <1>3, <2>2, <2>3 DEF Recorder!Observed, Runs
  <2>4. CASE id # Recorder!TimeShifting
    <3>1. Latest(id, "START")
      BY <2>1, <2>4 DEF ReportsIInv
    <3>2. ~Latest(id, "STOP")
      <4>1. RecordsOf(id) \subseteq Nat
        BY DEF RecordsOf
      <4> QED BY <3>1, <4>1 DEF Latest
    <3>3. reported' = Append(reported, <<"RECORD", <<id, "STOP">>>>)
      BY <1>2, <2>1, <2>2, <2>4 DEF Recorder!Observed, Recorder!Posted, Runs
    <3> QED BY <1>1, <2>4, <3>2, <3>3, RecordReported
  <2> QED BY <2>3, <2>4
<1>5. CASE ~Recorder!Stops(id)
  <2>1. records[id].state # "started"
    BY <1>2, <1>5 DEF Recorder!Stops, Runs
  <2>2. reported' = reported
    BY <1>5 DEF Recorder!ToldStop
  <2> QED BY <1>3, <2>1, <2>2
<1> QED BY <1>4, <1>5

LEMMA ReportsStepIInv ==
    ReportsIInv /\ EventsIInv /\ RecordingIInv /\ [Recorder!Next]_recording => ReportsIInv'
<1> SUFFICES ASSUME ReportsIInv, EventsIInv, RecordingIInv, [Recorder!Next]_recording PROVE ReportsIInv'
  OBVIOUS
<1>1. /\ DOMAIN recorders = Recorder!Ids /\ DOMAIN records = Recorder!Ids
      /\ \A id \in Recorder!Ids : RecorderShape(recorders[id]) /\ RecordShape(records[id]) /\ Runs(id)
  BY DEF RecordingIInv, MayBe, ReportsIInv
<1>2. ASSUME UNCHANGED <<recorders, records, reported>> PROVE ReportsIInv'
  <2>1. \A id \in Recorder!Ids : Runs(id)'
    BY <1>1, <1>2 DEF Runs
  <2>2. \A id \in Recorder!Ids : RecordsOf(id)' = RecordsOf(id)
    BY <1>2 DEF RecordsOf
  <2> QED BY <1>2, <2>1, <2>2, ReportsStay
<1>3. CASE Recorder!Report /\ UNCHANGED <<recorders, records>>
  <2>1. PICK kind \in Recorder!Kinds : \E says \in Payloads[kind] : Recorder!Posted(kind, says)
    BY <1>3 DEF Recorder!Report
  <2>2. PICK says \in Payloads[kind] : reported' = Append(reported, <<kind, says>>)
    BY <2>1 DEF Recorder!Posted
  <2> DEFINE e == <<kind, says>>
  <2>3. e \in Tellable /\ e[1] # "RECORD"
    BY DEF Tellable, Sayings, Recorder!Kinds
  <2> HIDE DEF e
  <2> QED BY <1>3, <2>2, <2>3, OthersReported DEF e
<1>4. CASE Recorder!Handle /\ UNCHANGED <<recorders, records>>
  BY <1>2, <1>4 DEF Recorder!Handle
<1>5. CASE Recorder!StatusStarted
  <2>1. PICK id \in Recorder!Ids :
           /\ records[id].open /\ records[id].state \in {"opened", "started"}
           /\ records' = [records EXCEPT ![id].state = "started"] /\ Recorder!Started(id)
    BY <1>5 DEF Recorder!StatusStarted
  <2>2. /\ records'[id] = [records[id] EXCEPT !.state = "started"]
        /\ \A i \in Recorder!Ids \ {id} : records'[i] = records[i]
    BY <1>1, <2>1
  <2>3. records'[id].state = "started" /\ records'[id].open = records[id].open
    BY <1>1, <2>2 DEF RecordShape
  <2>4. CASE recorders[id].started
    <3>1. UNCHANGED <<recorders, reported>> /\ records[id].state = "started"
      BY <1>1, <2>1, <2>4 DEF Recorder!Started, Runs
    <3>2. \A i \in Recorder!Ids : Runs(i)'
      BY <1>1, <2>2, <2>3, <3>1 DEF Runs
    <3>3. \A i \in Recorder!Ids : RecordsOf(i)' = RecordsOf(i)
      BY <3>1 DEF RecordsOf
    <3>4. \A i \in Recorder!Ids : records'[i].state = records[i].state
      BY <2>2, <2>3, <3>1
    <3> QED BY <3>1, <3>2, <3>3, <3>4, ReportsStay
  <2>5. CASE ~recorders[id].started
    <3>1. /\ Recorder!Observed(id, "START") /\ recorders' = [recorders EXCEPT ![id].started = TRUE]
          /\ records[id].state # "started"
      BY <1>1, <2>1, <2>5 DEF Recorder!Started, Runs
    <3>2. /\ recorders'[id] = [recorders[id] EXCEPT !.started = TRUE]
          /\ \A i \in Recorder!Ids \ {id} : recorders'[i] = recorders[i]
      BY <1>1, <3>1
    <3>3. recorders'[id].started = TRUE /\ recorders'[id].made = recorders[id].made
          /\ recorders'[id].observer = recorders[id].observer
      BY <1>1, <3>2 DEF RecorderShape
    <3>4. Runs(id)'
      <4>1. Runs(id)
        BY <1>1
      <4> QED BY <2>1, <2>3, <3>3, <4>1 DEF Runs
    <3>5. \A i \in Recorder!Ids : Runs(i)'
      <4>1. \A i \in Recorder!Ids \ {id} : Runs(i)'
        BY <1>1, <2>2, <3>2 DEF Runs
      <4> QED BY <3>4, <4>1
    <3>6. CASE id = Recorder!TimeShifting
      <4>1. reported' = reported
        BY <1>1, <3>1, <3>6 DEF Recorder!Observed, Runs
      <4>2. \A i \in Recorder!Ids : RecordsOf(i)' = RecordsOf(i)
        BY <4>1 DEF RecordsOf
      <4> QED BY <2>2, <3>5, <3>6, <4>1, <4>2, ReportsStay
    <3>7. CASE id # Recorder!TimeShifting
      <4>1. reported' = Append(reported, <<"RECORD", <<id, "START">>>>)
        BY <1>1, <2>1, <3>1, <3>7 DEF Recorder!Observed, Recorder!Posted, Runs
      <4>2. ~Latest(id, "START")
        BY <3>1, <3>7 DEF ReportsIInv
      <4> QED BY <2>2, <2>3, <3>5, <3>7, <4>1, <4>2, RecordReported
    <3> QED BY <3>6, <3>7
  <2> QED BY <2>4, <2>5
<1>6. CASE Recorder!StatusStopped
  <2>1. PICK id \in Recorder!Ids :
           /\ records[id].open /\ records[id].state = "started" /\ Recorder!Observed(id, "STOP")
           /\ records' = [records EXCEPT ![id].state = "stopped"]
           /\ recorders' = [recorders EXCEPT ![id].started = FALSE]
    BY <1>6 DEF Recorder!StatusStopped
  <2>2. /\ records'[id] = [records[id] EXCEPT !.state = "stopped"]
        /\ recorders'[id] = [recorders[id] EXCEPT !.started = FALSE]
        /\ \A i \in Recorder!Ids \ {id} : recorders'[i] = recorders[i] /\ records'[i] = records[i]
    BY <1>1, <2>1
  <2>3. /\ records'[id].state = "stopped" /\ records'[id].open = records[id].open
        /\ recorders'[id].started = FALSE /\ recorders'[id].made = recorders[id].made
        /\ recorders'[id].observer = recorders[id].observer
    BY <1>1, <2>2 DEF RecordShape, RecorderShape
  <2>4. Runs(id)' /\ Recorder!Stops(id)
    <3>1. Runs(id)
      BY <1>1
    <3> QED BY <2>1, <2>3, <3>1 DEF Runs, Recorder!Stops
  <2>5. Recorder!ToldStop(id)
    BY <2>1, <2>4 DEF Recorder!ToldStop
  <2> QED BY <2>2, <2>3, <2>4, <2>5, RecordEnds
<1>7. ASSUME NEW id \in Recorder!Ids, NEW r, NEW d, Recorder!ToldStop(id),
             recorders' = [recorders EXCEPT ![id] = r], records' = [records EXCEPT ![id] = d],
             d.open \in BOOLEAN, d.state # "started",
             id = Recorder!TimeShifting => r.observer # "queue",
             d.open => /\ r.made /\ ~r.started /\ r.started \in BOOLEAN
                       /\ r.observer = (IF id = Recorder!TimeShifting THEN "player" ELSE "queue")
      PROVE  ReportsIInv'
  <2>1. /\ recorders'[id] = r /\ records'[id] = d
        /\ \A i \in Recorder!Ids \ {id} : recorders'[i] = recorders[i] /\ records'[i] = records[i]
    BY <1>1, <1>7
  <2>2. Runs(id)'
    BY <1>7, <2>1 DEF Runs
  <2> QED BY <1>7, <2>1, <2>2, RecordEnds
<1>8. ASSUME NEW id \in Recorder!Ids PROVE Recorder!Closed.open = FALSE /\ Recorder!Closed.state # "started"
  BY DEF Recorder!Closed
<1>9. CASE Recorder!RecordPrepare
  <2>1. PICK id \in Recorder!Ids \ {Recorder!TimeShifting} : \E request \in Requests[id] :
           /\ Recorder!ToldStop(id)
           /\ recorders' = [recorders EXCEPT ![id] = Recorder!setupDefault([recorders[id] EXCEPT !.started = FALSE], request)]
           /\ records' = [records EXCEPT ![id] = Recorder!Closed]
    BY <1>9 DEF Recorder!RecordPrepare
  <2> QED BY <1>7, <1>8, <2>1
<1>10. ASSUME NEW id \in Recorder!Ids, NEW observer, Recorder!startRecording(id, observer),
              observer = (IF id = Recorder!TimeShifting THEN "player" ELSE "queue")
       PROVE  ReportsIInv'
  <2> DEFINE R(request) == Recorder!setupDefault([recorders[id] EXCEPT !.started = FALSE], request)
  <2>1. PICK request \in Requests[id] :
           /\ Recorder!ToldStop(id)
           /\ records' = [records EXCEPT ![id] = Recorder!Opened(R(request), request)]
           /\ recorders' = [recorders EXCEPT ![id] = [R(request) EXCEPT !.observer = observer, !.place = Append(@, "timeshift")]]
    BY <1>10 DEF Recorder!startRecording
  <2> DEFINE r == [R(request) EXCEPT !.observer = observer, !.place = Append(@, "timeshift")]
             d == Recorder!Opened(R(request), request)
  <2>2. RecorderShape(R(request)) /\ R(request).made = TRUE /\ R(request).started = FALSE
    BY Prepared
  <2>3. d.open = TRUE /\ d.state = "opened"
    BY DEF Recorder!Opened
  <2> HIDE DEF R
  <2>4. r.made = TRUE /\ r.started = FALSE /\ r.observer = observer
    BY <2>2 DEF RecorderShape
  <2>5. recorders' = [recorders EXCEPT ![id] = r] /\ records' = [records EXCEPT ![id] = d]
    BY <2>1
  <2> HIDE DEF r, d
  <2> QED BY <1>7, <1>10, <2>1, <2>3, <2>4, <2>5
<1>11. ASSUME NEW id \in Recorder!Ids, Recorder!stopRecording(id) PROVE ReportsIInv'
  <2>1. Recorder!Unmade.observer = "none"
    BY DEF Recorder!Unmade
  <2> QED BY <1>7, <1>8, <1>11, <2>1 DEF Recorder!stopRecording
<1>12. CASE Recorder!RecordStart \/ Recorder!RecordStop
  BY <1>10, <1>11, <1>12 DEF Recorder!RecordStart, Recorder!RecordStop
<1>13. CASE Recorder!PlayerRecords \/ Recorder!PlayerStops
  <2>1. Recorder!TimeShifting \in Recorder!Ids
    BY RecordingAssumption DEF Recorder!TimeShifting, Recorder!Ids
  <2> QED BY <1>10, <1>11, <1>13, <2>1 DEF Recorder!PlayerRecords, Recorder!PlayerStops
<1>14. CASE UNCHANGED recording
  BY <1>2, <1>14 DEF recording
<1> QED BY <1>3, <1>4, <1>5, <1>6, <1>9, <1>12, <1>13, <1>14 DEF Recorder!Next

LEMMA ReportsIInvTold == ReportsIInv /\ EventsIInv => Recorder!RecordingsTold
<1> SUFFICES ASSUME ReportsIInv, EventsIInv PROVE Recorder!RecordingsTold
  OBVIOUS
<1> DEFINE of(id) == {n \in 1..Len(heard) : heard[n][1] = "RECORD" /\ heard[n][2][1] = id}
<1>1. Len(reported) \in Nat /\ Len(heard) \in Nat /\ Len(waiting) \in Nat /\ Len(heard) <= Len(reported)
      /\ \A n \in 1..Len(heard) : heard[n] = reported[n]
  BY LenProperties DEF EventsIInv
<1>2. \A id : of(id) = RecordsOf(id) \cap 1..Len(heard)
  BY <1>1 DEF RecordsOf
<1>3. ASSUME waiting = <<>>, NEW id \in Recorder!Ids \ {Recorder!TimeShifting}
      PROVE  (\E n \in of(id) : heard[n][2][2] = "START" /\ \A m \in of(id) : m <= n) <=> records[id].state = "started"
  <2>1. Len(waiting) = 0 /\ Len(heard) = Len(reported)
    BY <1>1, <1>3 DEF EventsIInv
  <2>2. of(id) = RecordsOf(id) /\ \A n \in of(id) : heard[n] = reported[n]
    BY <1>1, <1>2, <2>1 DEF RecordsOf
  <2>3. Latest(id, "START") <=> records[id].state = "started"
    BY DEF ReportsIInv
  <2> HIDE DEF of
  <2> QED BY <2>2, <2>3 DEF Latest
<1>4. of(Recorder!TimeShifting) = {}
  BY <1>2 DEF ReportsIInv
<1>5. ASSUME NEW id \in Recorder!Ids, NEW m \in of(id), NEW n \in of(id), m < n, heard[m] = heard[n]
      PROVE  \E k \in of(id) : m < k /\ k < n /\ heard[k] # heard[n]
  <2>1. id # Recorder!TimeShifting
    BY <1>4
  <2>2. m \in RecordsOf(id) /\ n \in RecordsOf(id) /\ reported[m] = reported[n] /\ m \in 1..Len(heard) /\ n \in 1..Len(heard)
    BY <1>1, <1>2, <1>5
  <2>3. PICK k \in RecordsOf(id) : m < k /\ k < n /\ reported[k] # reported[n]
    BY <1>5, <2>1, <2>2 DEF ReportsIInv
  <2>4. k \in Nat
    BY DEF RecordsOf
  <2>5. k \in 1..Len(heard)
    BY <1>1, <2>2, <2>3, <2>4
  <2>6. k \in of(id)
    BY <1>2, <2>5
  <2> QED BY <1>1, <2>2, <2>3, <2>5, <2>6
<1> QED BY <1>3, <1>4, <1>5 DEF Recorder!RecordingsTold

-----------------------------------------------------------------------------
\* Clients are told what happened, when all of it was handled: what is plugged
\* in, of every source but one whose change was remembered for a client's
\* question about another, however the questions fall between plugs, reads and
\* reports; every part of an alert and the rating regions; the sound they asked
\* for, the picture and the times of the player, which is given a command when
\* all of the last is told; the events in the order of the reports, and of a
\* record, which is the one that was ordered, whether it runs.
THEOREM ClientsAreTold == PartsSpec => []ClientsTold
<1> DEFINE Inv ==
      /\ part = "ports" => PortsIInv
      /\ part = "alerts" => AlertsIInv
      /\ part = "tsplay" => PlayerIInv /\ SoundIInv
      /\ part = "recording" => RecordingIInv /\ EventsIInv /\ ReportsIInv
<1>1. PartsInit => Inv
  BY PortsInitIInv, AlertsInitIInv, PlayerInitIInv, SoundInitIInv, RecordingInitIInv, EventsInitIInv,
     ReportsInitIInv DEF PartsInit
<1>2. Inv /\ [PartsNext]_partsVars => Inv'
  <2> SUFFICES ASSUME Inv, [PartsNext]_partsVars PROVE Inv'
    OBVIOUS
  <2>1. part' = part
    BY DEF PartsNext, partsVars
  <2>2. part = "ports" => [Port!Next]_ports
    BY DEF PartsNext, partsVars
  <2>3. part = "alerts" => [Alert!Next]_alerts
    BY DEF PartsNext, partsVars
  <2>4. part = "tsplay" => [Player!Next]_tsplay
    BY DEF PartsNext, partsVars
  <2>5. part = "recording" => [Recorder!Next]_recording
    BY DEF PartsNext, partsVars
  <2>6. (part = "ports" => PortsIInv)'
    BY <2>1, <2>2, PortsStepIInv
  <2>7. (part = "alerts" => AlertsIInv)'
    BY <2>1, <2>3, AlertsStepIInv
  <2>8. (part = "tsplay" => PlayerIInv /\ SoundIInv)'
    <3>1. PlayerIInv => PlayerShape
      BY DEF PlayerIInv
    <3> QED BY <2>1, <2>4, <3>1, PlayerStepIInv, SoundStepIInv
  <2>9. (part = "recording" => RecordingIInv /\ EventsIInv /\ ReportsIInv)'
    BY <2>1, <2>5, RecordingStepIInv, EventsStepIInv, ReportsStepIInv
  <2> QED BY <2>6, <2>7, <2>8, <2>9
<1>3. Inv => ClientsTold
  <2> SUFFICES ASSUME Inv PROVE ClientsTold
    OBVIOUS
  <2>1. part = "ports" => Port!ConnectKnown
    BY PortsIInvKnown
  <2>2. part = "alerts" => Alert!AlertsTold
    BY AlertsIInvTold
  <2>3. part = "tsplay" => Player!SoundAsAsked /\ Player!PictureTold /\ Player!TimesTold
    BY SoundIInvAsked, PlayerIInvTold
  <2>4. part = "recording" => Recorder!RecordAsAsked /\ Recorder!EventsTold /\ Recorder!RecordingsTold
    BY RecordingIInvAsked, EventsIInvTold, ReportsIInvTold
  <2> QED BY <2>1, <2>2, <2>3, <2>4 DEF ClientsTold
<1> QED BY <1>1, <1>2, <1>3, PTL DEF PartsSpec
=============================================================================
