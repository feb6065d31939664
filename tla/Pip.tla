--------------------------------- MODULE Pip ---------------------------------
(***************************************************************************)
(* The second picture: CTv's picture in picture over vdin2 (CTv.cpp,       *)
(* StartTvInPIP, StopTvInPIP and onVdin2SignalChange; CTvin.cpp, vdin2).   *)
(*                                                                         *)
(* Clients open and close the port, the poll thread starts and stops the   *)
(* decoder as the signal comes and goes; no lock is taken.  The thread's   *)
(* step is cut in two: what it reads, and what it does about it.           *)
(***************************************************************************)
EXTENDS Integers

CONSTANTS Sources,   \* the sources that have a port of their own
          Fmts,      \* formats of a signal
          Failing,   \* what the driver may refuse: "open", "start", "stop", "info"
          Overlap,   \* whether clients call, and a signal changes again, while
                     \* a change is not yet handled
          MaxCalls, MaxChanges, None

VARIABLES source,   \* m_pip_source_input
          started,  \* mDecoder2Started
          param,    \* m_tvin2_param: port and format
          sig,      \* m_cur_vdin2_sig_info
          vdin2,    \* the device: whether it exists, its port, signal and decoder
          fd,       \* whether mVdin2DevFd is open
          polled,   \* whether the poll thread watches it: "no", "yes" or "absent"
          edge,     \* epoll has a change to report
          reading,  \* the poll thread has read the signal
          told,     \* what clients were told last, and of which port
          failed,   \* the last call of each kind was refused
          calls, changes
vars == <<source, started, param, sig, vdin2, fd, polled, edge, reading, told, failed, calls, changes>>

Statuses == {"NOSIG", "UNSTABLE", "NOTSUP", "STABLE"}
NoSignal == [status |-> "NULL", fmt |-> None]
NoDecoder == [port |-> None, fmt |-> None]

\* The constructor leaves mDecoder2Started as the memory was.
Init ==
    /\ source = None /\ started \in BOOLEAN
    /\ param = NoDecoder /\ sig = NoSignal
    /\ \E present \in BOOLEAN :
          vdin2 = [present |-> present, port |-> None, signal |-> NoSignal, decodes |-> NoDecoder]
    /\ fd = FALSE /\ polled = "no" /\ edge = FALSE /\ reading = FALSE
    /\ told = [status |-> "NULL", fmt |-> None, port |-> None]
    /\ failed = {} /\ calls = 0 /\ changes = 0

Handled == ~edge /\ ~reading

-----------------------------------------------------------------------------
(* vdin2: each call opens the device if it is not open, and does nothing if  *)
(* that fails.  What it answers: whether the driver did it.                  *)

VDIN2_DeviceIOCtl(call) ==
    {ok \in BOOLEAN : (ok => vdin2.present) /\ (~ok => call \in Failing \/ ~vdin2.present)}

VDIN2_OpenModule == fd' = vdin2.present

\* A closed port has no signal and decodes nothing.
Closed(dev) == [dev EXCEPT !.port = None, !.signal = NoSignal, !.decodes = NoDecoder]
VDIN2_OpenPort(dev, port, ok) ==
    IF ok THEN [Closed(dev) EXCEPT !.port = port, !.signal = [status |-> "NOSIG", fmt |-> None]]
    ELSE Closed(dev)

-----------------------------------------------------------------------------
(* Clients. *)

Called ==
    /\ calls < MaxCalls /\ (Overlap \/ Handled)
    /\ calls' = calls + 1 /\ UNCHANGED <<polled, reading, told, changes>>

\* Faulty variant: the decoder of the last picture goes on.
StartTvInPIP_KeepDecoder(src) ==
    /\ Called /\ VDIN2_OpenModule
    /\ source' = src
    /\ \E open \in VDIN2_DeviceIOCtl("open") :
          /\ param' = [param EXCEPT !.port = src]
          /\ vdin2' = VDIN2_OpenPort(vdin2, src, open)
          /\ failed' = IF open THEN {} ELSE {"open"}
    /\ edge' = FALSE
    /\ UNCHANGED <<started, sig>>

\* SwitchVDIN2Port, with the port of the source: a decoder that does not stop
\* keeps the old one; one that does not open is a success.
StartTvInPIP(src) ==
    /\ Called /\ VDIN2_OpenModule
    /\ source' = src
    /\ \E stop \in VDIN2_DeviceIOCtl("stop"), open \in VDIN2_DeviceIOCtl("open") :
          IF started /\ ~stop
          THEN /\ failed' = {"stop"}
               /\ UNCHANGED <<started, param, vdin2, edge>>
          ELSE /\ started' = FALSE
               /\ param' = [param EXCEPT !.port = src]
               /\ vdin2' = VDIN2_OpenPort(vdin2, src, open)
               /\ failed' = IF open THEN {} ELSE {"open"}
               /\ edge' = FALSE
    /\ UNCHANGED sig

StopTvInPIP ==
    /\ Called /\ VDIN2_OpenModule
    /\ source' = None
    /\ \E stop \in VDIN2_DeviceIOCtl("stop") :
          /\ started' = (started /\ ~stop)
          /\ failed' = IF started /\ ~stop THEN {"stop"} ELSE {}
    /\ param' = [param EXCEPT !.port = None]
    /\ vdin2' = Closed(vdin2) /\ edge' = FALSE
    /\ sig' = NoSignal

-----------------------------------------------------------------------------
(* The signal, and the poll thread. *)

\* Something is connected, or not, or changes its format (external).
SignalChange ==
    /\ vdin2.port # None /\ changes < MaxChanges /\ (Overlap \/ Handled)
    /\ \E status \in Statuses, fmt \in Fmts :
          /\ status = "STABLE" => Overlap \/ vdin2.signal.status # "STABLE"
          /\ vdin2' = [vdin2 EXCEPT !.signal =
                          [status |-> status, fmt |-> IF status = "STABLE" THEN fmt ELSE None]]
    /\ edge' = TRUE /\ changes' = changes + 1
    /\ UNCHANGED <<source, started, param, sig, fd, polled, reading, told, failed, calls>>

\* startDetect, once.
StartDetect ==
    /\ polled = "no"
    /\ VDIN2_OpenModule
    /\ polled' = IF vdin2.present THEN "yes" ELSE "absent"
    /\ UNCHANGED <<source, started, param, sig, vdin2, edge, reading, told, failed, calls, changes>>

\* onVdin2SignalChange reads the signal.
VDIN2_GetSignalInfo ==
    /\ polled = "yes" /\ edge /\ ~reading
    /\ edge' = FALSE /\ reading' = TRUE
    /\ \E ok \in VDIN2_DeviceIOCtl("info") :
          sig' = IF ok THEN vdin2.signal ELSE [sig EXCEPT !.status = "NULL"]
    /\ UNCHANGED <<source, started, param, vdin2, fd, polled, told, failed, calls, changes>>

Tell == told' = [status |-> sig.status, fmt |-> sig.fmt, port |-> vdin2.port]

\* A decoder that runs is not started again, whatever its format.
Tvin2_StartDecoder ==
    IF started THEN UNCHANGED <<started, param, vdin2, failed>>
    ELSE /\ param' = [param EXCEPT !.fmt = sig.fmt]
         /\ \E ok \in VDIN2_DeviceIOCtl("start") :
               LET done == ok /\ vdin2.port # None
               IN  /\ started' = done
                   /\ vdin2' = IF done THEN [vdin2 EXCEPT !.decodes = param'] ELSE vdin2
                   /\ failed' = IF done THEN {} ELSE {"start"}

\* Faulty variant: the decoder is taken for stopped, but runs on.
Tvin2_StopDecoder_OnlyFlag == started' = FALSE /\ UNCHANGED <<vdin2, failed, param>>

Tvin2_StopDecoder ==
    /\ IF ~started THEN UNCHANGED <<started, vdin2, failed>>
       ELSE \E ok \in VDIN2_DeviceIOCtl("stop") :
               /\ started' = ~ok
               /\ vdin2' = IF ok THEN [vdin2 EXCEPT !.decodes = NoDecoder] ELSE vdin2
               /\ failed' = IF ok THEN {} ELSE {"stop"}
    /\ UNCHANGED param

\* What it does about it: clients learn of pictures and of their absence.
onVdin2SignalChange ==
    /\ reading /\ reading' = FALSE
    /\ \/ sig.status = "STABLE" /\ Tvin2_StartDecoder /\ Tell /\ UNCHANGED sig
       \/ sig.status = "NOSIG" /\ Tvin2_StopDecoder /\ Tell /\ UNCHANGED sig
       \/ sig.status \in {"UNSTABLE", "NOTSUP"} /\ Tvin2_StopDecoder /\ UNCHANGED <<told, sig>>
       \/ /\ sig.status = "NULL" /\ sig' = NoSignal
          /\ UNCHANGED <<started, param, vdin2, failed, told>>
    /\ UNCHANGED <<source, fd, polled, edge, calls, changes>>

Next ==
    \/ \E src \in Sources : StartTvInPIP(src)
    \/ StopTvInPIP \/ SignalChange \/ StartDetect \/ VDIN2_GetSignalInfo \/ onVdin2SignalChange

Spec == Init /\ [][Next]_vars

-----------------------------------------------------------------------------
\* The second picture is that of the source that was asked for last, in the
\* format that clients were told, and none once it was stopped; once a signal
\* is handled it is shown, unless the driver refused it.
SecondPicture ==
    /\ vdin2.decodes # NoDecoder =>
          /\ started /\ vdin2.decodes.port = source
          /\ Handled => /\ told = [status |-> "STABLE", fmt |-> vdin2.decodes.fmt, port |-> source]
                        /\ vdin2.signal = [status |-> "STABLE", fmt |-> vdin2.decodes.fmt]
    /\ vdin2.present /\ failed = {} => vdin2.port = source
    /\ Handled /\ failed = {} /\ vdin2.signal.status = "STABLE" => vdin2.decodes # NoDecoder
=============================================================================
