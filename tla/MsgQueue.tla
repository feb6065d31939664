------------------------------ MODULE MsgQueue ------------------------------
(***************************************************************************)
(* CMsgQueueThread (tvutils/CMsgQueue.cpp): a queue of delayed messages    *)
(* ordered by due time, filled by any thread and drained by one loop       *)
(* thread that sleeps on a condition variable until its head is due.       *)
(* CTv::CTvMsgQueue carries every asynchronous event of the TV server      *)
(* through it.                                                             *)
(*                                                                         *)
(* removeMsg and clearMsg have no caller and are left out.                 *)
(*                                                                         *)
(* One action is one critical section of mLockQueue, or one read the loop  *)
(* makes without the lock: between any two of them other threads run.      *)
(***************************************************************************)
EXTENDS Integers, Sequences, SequencesExt

CONSTANTS Types,    \* message types (CMessage::mType)
          Delays,   \* delays a caller may ask for (CMessage::mDelayMs)
          MaxSends, \* bound: calls of sendMsg
          Horizon   \* bound: the clock stops here

ASSUME MsgQueueAssumption ==
    /\ Types # {}
    /\ Delays \subseteq Nat
    /\ MaxSends \in Nat
    /\ Horizon \in Nat

VARIABLES now,       \* getNowMs()
          nsent,     \* calls of sendMsg so far
          queue,     \* m_v_msg
          taken,     \* messages handed to handleMessage, in order (history)
          pc,        \* where the loop thread is
          cur,       \* threadLoop's local msg
          delay,     \* threadLoop's local delayMs
          deadline,  \* when the running waitRelative times out
          signalled, \* mGetMsgCondition was signalled since the loop began to wait
          exiting    \* Thread::mExitPending

loopVars == <<pc, cur, delay, deadline>>
queueVars == <<now, nsent, queue, taken, loopVars, signalled, exiting>>

Entry == [seq : Nat, type : Types, when : Nat]

\* The default constructed CMessage.
Blank == [seq |-> 0, type |-> CHOOSE t \in Types : TRUE, when |-> 0]

\* The loop sleeps in mGetMsgCondition, without the lock.
Sleeping == pc \in {"wait", "timedWait"}

QueueInit ==
    /\ now = 0 /\ nsent = 0 /\ queue = <<>> /\ taken = <<>>
    /\ pc = "unstarted" /\ cur = Blank /\ delay = 0 /\ deadline = 0
    /\ signalled = FALSE /\ exiting = FALSE

-----------------------------------------------------------------------------
(* The callers. *)

\* mGetMsgCondition.signal() wakes the loop if it sleeps and is lost otherwise.
Signal == signalled' = (signalled \/ Sleeping)

\* Faulty variant: a message goes before those due at the same time.
IsInsertPoint_Lifo(q, w, p) ==
    /\ \A i \in 1..(p - 1) : q[i].when < w
    /\ p <= Len(q) => q[p].when >= w

\* The index at which sendMsg inserts: the first entry due after w.
IsInsertPoint(q, w, p) ==
    /\ \A i \in 1..(p - 1) : q[i].when <= w
    /\ p <= Len(q) => q[p].when > w

\* Faulty variant: the sender relies on the loop to look by itself.
sendMsg_Silent(t, d) ==
    /\ nsent < MaxSends /\ now + d <= Horizon
    /\ nsent' = nsent + 1
    /\ LET msg == [seq |-> nsent + 1, type |-> t, when |-> now + d]
       IN  \E p \in 1..(Len(queue) + 1) :
              /\ IsInsertPoint(queue, msg.when, p)
              /\ queue' = InsertAt(queue, p, msg)
    /\ UNCHANGED <<now, taken, loopVars, signalled, exiting>>

sendMsg(t, d) ==
    /\ nsent < MaxSends /\ now + d <= Horizon
    /\ nsent' = nsent + 1
    /\ LET msg == [seq |-> nsent + 1, type |-> t, when |-> now + d]
       IN  \E p \in 1..(Len(queue) + 1) :
              /\ IsInsertPoint(queue, msg.when, p)
              /\ queue' = InsertAt(queue, p, msg)
    /\ Signal
    /\ UNCHANGED <<now, taken, loopVars, exiting>>

startMsgQueue ==
    /\ pc = "unstarted"
    /\ pc' = "test"
    /\ UNCHANGED <<now, nsent, queue, taken, cur, delay,
                   deadline, signalled, exiting>>

\* ~CMsgQueueThread: Thread::requestExitAndWait sets the flag and joins; it
\* does not signal mGetMsgCondition.
requestExit ==
    /\ ~exiting
    /\ exiting' = TRUE
    /\ UNCHANGED <<now, nsent, queue, taken, loopVars, signalled>>

-----------------------------------------------------------------------------
(* threadLoop.  pc names the next step of the loop. *)

Goto(l) == pc' = l
Outside == <<now, nsent, exiting>>

\* while (!exitPending())
LoopTest ==
    /\ pc = "test"
    /\ Goto(IF exiting THEN "exited" ELSE "acquire")
    /\ UNCHANGED <<Outside, queue, taken, cur, delay, deadline, signalled>>

\* lock; while (size() == 0) wait
LoopAcquire ==
    /\ pc = "acquire"
    /\ Goto(IF queue = <<>> THEN "wait" ELSE "peek")
    /\ signalled' = FALSE
    /\ UNCHANGED <<Outside, queue, taken, cur, delay, deadline>>

\* The wait returns, on a signal or spuriously: the while tests size() again.
LoopWake ==
    /\ pc = "wait"
    /\ Goto("acquire")
    /\ signalled' = FALSE
    /\ UNCHANGED <<Outside, queue, taken, cur, delay, deadline>>

\* do { if (m_v_msg.size() <= 0) break;     -- without the lock
LoopPeek ==
    /\ pc = "peek"
    /\ Goto(IF queue = <<>> THEN "check" ELSE "read")
    /\ UNCHANGED <<Outside, queue, taken, cur, delay, deadline, signalled>>

\* lock; msg = m_v_msg[0]; unlock.  With nothing in the vector the read is
\* out of bounds.
LoopRead ==
    /\ pc = "read"
    /\ IF queue = <<>>
       THEN Goto("undefined") /\ UNCHANGED cur
       ELSE Goto("timed") /\ cur' = Head(queue)
    /\ UNCHANGED <<Outside, queue, taken, delay, deadline, signalled>>

\* Faulty variant: a message a millisecond away counts as due.
LoopTimed_Early ==
    /\ pc = "timed"
    /\ \/ /\ cur.when - now > 1
          /\ delay' = cur.when - now
          /\ Goto("lockWait")
       \/ /\ cur.when - now <= 1
          /\ Goto("check")
          /\ UNCHANGED delay
    /\ UNCHANGED <<Outside, queue, taken, cur, deadline, signalled>>

\* delayMs = msg.mWhenMs - getNowMs(); if (delayMs > 0) ... else break;
LoopTimed ==
    /\ pc = "timed"
    /\ \/ /\ cur.when - now > 0
          /\ delay' = cur.when - now
          /\ Goto("lockWait")
       \/ /\ cur.when - now <= 0
          /\ Goto("check")
          /\ UNCHANGED delay
    /\ UNCHANGED <<Outside, queue, taken, cur, deadline, signalled>>

\* lock; waitRelative(delayMs).  A deadline past the horizon of the bounded
\* clock expires at the horizon.
LoopSleep ==
    /\ pc = "lockWait"
    /\ Goto("timedWait")
    /\ deadline' = IF now + delay > Horizon THEN Horizon ELSE now + delay
    /\ signalled' = FALSE
    /\ UNCHANGED <<Outside, queue, taken, cur, delay>>

\* waitRelative returns: signalled, timed out or spuriously; the do repeats.
LoopTimeout ==
    /\ pc = "timedWait"
    /\ Goto("peek")
    /\ signalled' = FALSE
    /\ deadline' = 0 /\ delay' = 0 /\ cur' = Blank
    /\ UNCHANGED <<Outside, queue, taken>>

\* if (m_v_msg.size() > 0)                  -- without the lock
LoopCheck ==
    /\ pc = "check"
    /\ Goto(IF queue = <<>> THEN "test" ELSE "take")
    /\ UNCHANGED <<Outside, queue, taken, cur, delay, deadline, signalled>>

\* lock; msg = m_v_msg[0]; removeAt(0); unlock: whatever is first by now.
LoopTake ==
    /\ pc = "take"
    /\ IF queue = <<>>
       THEN Goto("undefined") /\ UNCHANGED <<queue, taken, cur>>
       ELSE /\ Goto("handle")
            /\ cur' = Head(queue)
            /\ queue' = Tail(queue)
            /\ taken' = Append(taken, Head(queue))
    /\ UNCHANGED <<Outside, delay, deadline, signalled>>

\* handleMessage(msg) returns.  What it sends meanwhile is a sendMsg.
LoopHandle ==
    /\ pc = "handle"
    /\ Goto("test")
    /\ cur' = Blank
    /\ UNCHANGED <<Outside, queue, taken, delay, deadline, signalled>>

Tick ==
    /\ now < Horizon
    /\ now' = now + 1
    /\ UNCHANGED <<nsent, queue, taken, loopVars, signalled, exiting>>

\* The steps the scheduler owes the loop thread: a sleeper is owed one only
\* when it was signalled or its time is up.
LoopRun ==
    \/ LoopTest \/ LoopAcquire \/ LoopPeek \/ LoopRead \/ LoopTimed
    \/ LoopSleep \/ LoopCheck \/ LoopTake \/ LoopHandle
    \/ signalled /\ LoopWake
    \/ (signalled \/ now >= deadline) /\ LoopTimeout

QueueNext ==
    \/ \E t \in Types, d \in Delays : sendMsg(t, d)
    \/ startMsgQueue
    \/ requestExit
    \/ LoopRun
    \/ LoopWake
    \/ LoopTimeout
    \/ Tick

QueueSpec == QueueInit /\ [][QueueNext]_queueVars

\* The loop thread is scheduled, handlers return and time passes.
QueueFairSpec == QueueSpec /\ WF_queueVars(startMsgQueue) /\ WF_queueVars(LoopRun) /\ WF_queueVars(Tick)

-----------------------------------------------------------------------------
(* Properties. *)

PCs == {"unstarted", "test", "acquire", "wait", "peek", "read", "timed", "lockWait",
        "timedWait", "check", "take", "handle", "undefined", "exited"}

\* The types of the variables; a delay handed to waitRelative is never
\* negative, because threadLoop tests delayMs > 0 first.
QueueTypeOK ==
    /\ now \in Nat /\ nsent \in Nat
    /\ queue \in Seq(Entry) /\ taken \in Seq(Entry)
    /\ pc \in PCs
    /\ cur \in Entry /\ delay \in Nat /\ deadline \in Nat
    /\ signalled \in BOOLEAN /\ exiting \in BOOLEAN

Abstract == INSTANCE DelayedDelivery WITH pending <- ToSet(queue)

\* m_v_msg is always ordered by due time, and messages due in the same
\* millisecond stay in the order of their sendMsg calls, whatever the
\* interleaving of senders, removers and the loop.
QueueOrdered ==
    \A i, j \in DOMAIN queue : i < j => Abstract!Before(queue[i], queue[j])

\* Every message ever sent is either in the queue or was handled, never both
\* and never twice, although the loop copies the head, gives the lock up and
\* takes the head again.
NothingLost ==
    /\ \A s \in 1..nsent : \/ \E i \in DOMAIN queue : queue[i].seq = s
                           \/ \E i \in DOMAIN taken : taken[i].seq = s
    /\ \A i \in DOMAIN queue : queue[i].seq \in 1..nsent
    /\ \A i \in DOMAIN taken : taken[i].seq \in 1..nsent
    /\ \A i \in DOMAIN queue, j \in DOMAIN taken : queue[i].seq # taken[j].seq
    /\ \A i, j \in DOMAIN queue : queue[i].seq = queue[j].seq => i = j
    /\ \A i, j \in DOMAIN taken : taken[i].seq = taken[j].seq => i = j

\* The loop never reads m_v_msg[0] of an empty vector, although it tests
\* size() without the lock and locks only afterwards.
HeadExists == pc # "undefined"

\* A message is handed to handleMessage only once it is due, although the
\* message whose due time was tested and the one taken are read separately.
HandledWhenDue == pc = "handle" => cur.when <= now

\* The loop implements the promise of DelayedDelivery: its queue is what is
\* pending there, and its step from "take" is the delivery.
ImplementsDelayedDelivery == Abstract!Spec

\* A message that was sent is handled in the end, unless the thread is told
\* to exit first: no wakeup is lost for good.
EventuallyHandled ==
    \A s \in 1..MaxSends :
        nsent >= s ~> (exiting \/ \E e \in ToSet(taken) : e.seq = s)
=============================================================================
