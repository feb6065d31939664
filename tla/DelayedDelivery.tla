--------------------------- MODULE DelayedDelivery ---------------------------
(***************************************************************************)
(* What the delayed message queue of the TV server promises its callers:   *)
(* a message posted with a delay is delivered once, never before it is     *)
(* due, earliest due time first and, among messages due at the same time,  *)
(* in the order in which they were posted.  Nothing is said about threads, *)
(* locks or sleeping: MsgQueue shows how the code keeps the promise.       *)
(***************************************************************************)
EXTENDS Naturals, Sequences

CONSTANTS Types,    \* message types (CMessage::mType)
          Delays    \* delays a caller may ask for (CMessage::mDelayMs)

VARIABLES now,      \* the monotonic clock
          nsent,    \* messages posted so far; the n-th one carries seq n
          pending,  \* messages posted and not yet delivered
          taken     \* messages delivered, in delivery order

vars == <<now, nsent, pending, taken>>

\* e is to be delivered before f.
Before(e, f) ==
    \/ e.when < f.when
    \/ e.when = f.when /\ e.seq < f.seq

Init ==
    /\ now = 0
    /\ nsent = 0
    /\ pending = {}
    /\ taken = <<>>

Post(t, d) ==
    /\ nsent' = nsent + 1
    /\ pending' = pending \cup {[seq |-> nsent + 1, type |-> t, when |-> now + d]}
    /\ UNCHANGED <<now, taken>>

Deliver(e) ==
    /\ e.when <= now
    /\ \A f \in pending \ {e} : Before(e, f)
    /\ pending' = pending \ {e}
    /\ taken' = Append(taken, e)
    /\ UNCHANGED <<now, nsent>>

Tick ==
    /\ now' = now + 1
    /\ UNCHANGED <<nsent, pending, taken>>

Next ==
    \/ \E t \in Types, d \in Delays : Post(t, d)
    \/ \E e \in pending : Deliver(e)
    \/ Tick

Spec == Init /\ [][Next]_vars
=============================================================================
