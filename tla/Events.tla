-------------------------------- MODULE Events --------------------------------
(***************************************************************************)
(* Events on their way to clients: CTvMsgQueue's onEvent, handleMessage    *)
(* and CTv's onEvent (CTv.cpp).  Who reports an event keeps it and writes  *)
(* the next one over it, while the message still waits; what a message     *)
(* holds by reference is another event's by then.  Those of the frontend   *)
(* and of the player have modules of their own.                            *)
(***************************************************************************)
EXTENDS Integers, Sequences, SequencesExt

CONSTANTS Payloads,  \* what an event of each kind says
          MaxEvents

VARIABLES buffer,    \* the event of each producer, as it is now
          queue,     \* the messages that wait
          infos,     \* how many RRT infos are allocated
          reported, told
events == <<buffer, queue, infos, reported, told>>

Kinds == {"SCAN", "RRT", "EAS", "TVIN_RES", "SOURCE_VALID"}

EventsInit ==
    /\ buffer = [kind \in Kinds |-> 0]
    /\ queue = <<>> /\ infos = 0 /\ reported = <<>> /\ told = <<>>

-----------------------------------------------------------------------------
\* The types of messages, by the overloads of CTvMsgQueue::onEvent.
Type(kind) == CASE kind = "SCAN" -> "TV_MSG_SCAN_EVENT"
                [] kind = "RRT" -> "TV_MSG_RRT_EVENT"
                [] kind = "EAS" -> "TV_MSG_EAS_EVENT"
                [] kind = "TVIN_RES" -> "TV_MSG_TVIN_RES"
                [] kind = "SOURCE_VALID" -> "TV_MSG_CHECK_SOURCE_VALID"
                [] OTHER -> "TV_MSG_RECORD_EVENT"

\* Faulty variant: the info of an RRT event is not copied.
Message_Shallow(kind, says) ==
    [type |-> Type(kind), own |-> kind # "RRT", says |-> says]

\* The event is copied; that of RRT points to an info, which is copied, too.
Message(kind, says) == [type |-> Type(kind), own |-> TRUE, says |-> says]

\* An event is written and posted.
Posted(kind, says) ==
    /\ Len(reported) < MaxEvents
    /\ queue' = Append(queue, Message(kind, says))
    /\ reported' = Append(reported, <<kind, says>>)

Report ==
    \E kind \in Kinds : \E says \in Payloads[kind] :
       /\ buffer' = [buffer EXCEPT ![kind] = says]
       /\ Posted(kind, says)
       /\ infos' = infos + (IF kind = "RRT" THEN 1 ELSE 0)
       /\ UNCHANGED told

\* handleMessage: what the message of a type is taken for.
Handled(type) == CASE type = "TV_MSG_SCAN_EVENT" -> "SCAN"
                   [] type = "TV_MSG_RRT_EVENT" -> "RRT"
                   [] type = "TV_MSG_EAS_EVENT" -> "EAS"
                   [] type = "TV_MSG_TVIN_RES" -> "TVIN_RES"
                   [] type = "TV_MSG_CHECK_SOURCE_VALID" -> "SOURCE_VALID"
                   [] type = "TV_MSG_RECORD_EVENT" -> "RECORD"

Says(m) == IF m.own THEN m.says ELSE buffer[Handled(m.type)]

\* Faulty variant of sendTvEvent: an info is kept after it was told.
Freed_Not(kind) == FALSE

\* sendTvEvent frees the info of an RRT event that it told.
Freed(kind) == kind = "RRT"

\* onEvent of each kind passes it on.
Tell(kind, says) == told' = Append(told, <<kind, says>>)

Handle ==
    /\ queue # <<>>
    /\ LET m == Head(queue) IN
         /\ Tell(Handled(m.type), Says(m))
         /\ infos' = infos - (IF Freed(Handled(m.type)) THEN 1 ELSE 0)
    /\ queue' = Tail(queue)
    /\ UNCHANGED <<buffer, reported>>

\* Clients get every event as it was reported, in that order, and what was
\* allocated for one is given back.
EventsTold ==
    /\ IsPrefix(told, reported)
    /\ queue = <<>> => told = reported /\ infos = 0
=============================================================================
