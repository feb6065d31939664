------------------------------ MODULE Recording ------------------------------
(***************************************************************************)
(* What is recorded, where, and what clients hear of it: the parameters    *)
(* and events of CTvRecord (CTvRecord.cpp) over libdvr.  Which recorders   *)
(* there may be, and when players stop theirs, is Players'.                *)
(*                                                                         *)
(* libdvr reports a status as often as it likes, on a thread of its own,   *)
(* while a record is open; when one is stopped that was started, it        *)
(* reports that before the call returns.                                   *)
(***************************************************************************)
EXTENDS Events

CONSTANTS Requests,  \* what clients may ask each recorder for
          MaxCalls, None

TimeShifting == "timeshifting"
Ids == DOMAIN Requests

VARIABLES rec,   \* the recorders
          dvr,   \* libdvr's records, by recorder
          calls
vars == <<events, rec, dvr, calls>>

Unmade == [made |-> FALSE, observer |-> "none", started |-> FALSE,
           place |-> <<>>, timeshift |-> FALSE, accurate |-> FALSE, radio |-> FALSE]
Closed == [open |-> FALSE, state |-> "none", place |-> <<>>, timeshift |-> FALSE,
           accurate |-> FALSE, flush |-> 0, request |-> None]

Init ==
    /\ EventsInit
    /\ rec = [id \in Ids |-> Unmade] /\ dvr = [id \in Ids |-> Closed] /\ calls = 0

-----------------------------------------------------------------------------
(* libdvr's reports. *)

\* To the observer: the queue posts them; the player tells only of errors, and
\* there is none.
Observed(id, type) ==
    IF rec[id].observer = "queue" THEN Posted("RECORD", <<id, type>>)
    ELSE UNCHANGED <<queue, reported>>

\* Faulty variant: every report of a start is told.
Started_Again(id) ==
    /\ Observed(id, "START") /\ rec' = [rec EXCEPT ![id].started = TRUE]

\* RecEventHandler: the first report of a start is told.
Started(id) ==
    IF rec[id].started THEN UNCHANGED <<rec, queue, reported>>
    ELSE Observed(id, "START") /\ rec' = [rec EXCEPT ![id].started = TRUE]

StatusStarted ==
    \E id \in Ids :
       /\ dvr[id].open /\ dvr[id].state \in {"opened", "started"}
       /\ dvr' = [dvr EXCEPT ![id].state = "started"]
       /\ Started(id)
       /\ UNCHANGED <<buffer, infos, told, calls>>

\* The record ends by itself.
StatusStopped ==
    \E id \in Ids :
       /\ dvr[id].open /\ dvr[id].state = "started"
       /\ dvr' = [dvr EXCEPT ![id].state = "stopped"]
       /\ Observed(id, "STOP") /\ rec' = [rec EXCEPT ![id].started = FALSE]
       /\ UNCHANGED <<buffer, infos, told, calls>>

-----------------------------------------------------------------------------
(* Commands. *)

\* Faulty variant: a place that was set before is kept.
Base_Kept(r, request) == IF r.place = <<>> THEN <<request.path>> ELSE r.place

\* setFilePath: what the place was, with the name it ended in, is forgotten.
Base(r, request) == <<request.path>>

\* The flag of an accurate record is raised and never lowered.
setTimeShiftMode(r, enable) == [r EXCEPT !.timeshift = enable, !.accurate = @ \/ enable]

setupDefault(r, request) ==
    [setTimeShiftMode(r, request.timeshift) EXCEPT
        !.made = TRUE, !.place = Base(r, request), !.radio = ~request.video /\ request.audio]

\* The size of what is written at once, in KB: less comes of a radio program.
Flush(r) == IF r.radio THEN 1 ELSE 256

\* start adds the name of the record to the place.
Opened(r, request) ==
    [open |-> TRUE, state |-> "opened", place |-> Append(r.place, "timeshift"),
     timeshift |-> r.timeshift, accurate |-> r.accurate, flush |-> Flush(r), request |-> request]

\* CTvRecord::stop as getRecorder and stopRecording call it, and what it tells.
Stops(id) == rec[id].made /\ dvr[id].open /\ dvr[id].state = "started"

Called == calls < MaxCalls /\ calls' = calls + 1 /\ UNCHANGED <<buffer, infos, told>>
ToldStop(id) == IF Stops(id) THEN Observed(id, "STOP") ELSE UNCHANGED <<queue, reported>>

RecordPrepare ==
    /\ Called
    /\ \E id \in Ids \ {TimeShifting} : \E request \in Requests[id] :
          /\ ToldStop(id)
          /\ rec' = [rec EXCEPT ![id] = setupDefault([@ EXCEPT !.started = FALSE], request)]
          /\ dvr' = [dvr EXCEPT ![id] = Closed]

\* startRecording, with the queue or a player to observe it.
startRecording(id, observer) ==
    \E request \in Requests[id] :
       LET r == setupDefault([rec[id] EXCEPT !.started = FALSE], request) IN
       /\ ToldStop(id)
       /\ dvr' = [dvr EXCEPT ![id] = Opened(r, request)]
       /\ rec' = [rec EXCEPT ![id] = [r EXCEPT !.observer = observer,
                                               !.place = Append(@, "timeshift")]]

\* Faulty variant: nobody observes the end.
stopRecording_Unobserved(id) ==
    /\ rec[id].made /\ UNCHANGED <<queue, reported>>
    /\ rec' = [rec EXCEPT ![id] = Unmade] /\ dvr' = [dvr EXCEPT ![id] = Closed]

stopRecording(id) ==
    /\ rec[id].made /\ ToldStop(id)
    /\ rec' = [rec EXCEPT ![id] = Unmade] /\ dvr' = [dvr EXCEPT ![id] = Closed]

\* doRecordingCommand, and the player's own recorder.
RecordStart == Called /\ \E id \in Ids \ {TimeShifting} : startRecording(id, "queue")
RecordStop == Called /\ \E id \in Ids \ {TimeShifting} : stopRecording(id)
PlayerRecords == Called /\ startRecording(TimeShifting, "player")
PlayerStops == Called /\ stopRecording(TimeShifting)

Next ==
    \/ RecordPrepare \/ RecordStart \/ RecordStop \/ PlayerRecords \/ PlayerStops
    \/ StatusStarted \/ StatusStopped
    \/ (Report \/ Handle) /\ UNCHANGED <<rec, dvr, calls>>

Spec == Init /\ [][Next]_vars

-----------------------------------------------------------------------------
\* What is recorded is what was asked for last, at its place, once the name was
\* added, however often the recorder was prepared or started before.
RecordAsAsked ==
    \A id \in Ids : dvr[id].open =>
       LET d == dvr[id] IN
       /\ d.place = <<d.request.path, "timeshift">>
       /\ d.timeshift = d.request.timeshift /\ d.accurate = d.timeshift
       /\ (d.flush = 1) = (d.request.audio /\ ~d.request.video)

\* Once all is told, a client takes a recorder for one that records if and only
\* if it does; it is told of a start once, and of the player's recorder nothing.
RecordingsTold ==
    LET of(id) == {n \in 1..Len(told) : told[n][1] = "RECORD" /\ told[n][2][1] = id}
    IN  /\ queue = <<>> => \A id \in Ids \ {TimeShifting} :
              (\E n \in of(id) : told[n][2][2] = "START" /\ \A m \in of(id) : m <= n)
                <=> dvr[id].state = "started"
        /\ of(TimeShifting) = {}
        /\ \A id \in Ids : \A m, n \in of(id) :
              m < n /\ told[m] = told[n] => \E k \in of(id) : m < k /\ k < n /\ told[k] # told[n]
=============================================================================
