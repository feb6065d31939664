----------------------------- MODULE TvControl -----------------------------
(***************************************************************************)
(* CTv (libtv/tv/CTv.cpp): the control plane of the TV server.  Clients    *)
(* call it on several binder threads, the vdin and the message thread call *)
(* it too.  Most operations run under CTv::mLock and are one action here;  *)
(* the exceptions are what this module is about:                           *)
(*   - StopTvLock and the start of a DTV player are cut where a thread     *)
(*     that does not take mLock can see the difference;                    *)
(*   - pauseScan, resumeScan, getScanStatus, resetFrontEndPara,            *)
(*     operateDeviceForScan and TV_SetSameSourceEnable take no lock: each  *)
(*     test they make is an action of its own.                             *)
(*                                                                         *)
(* tv holds what the operations share; an operator that maps such a record *)
(* to another stands for a helper that the code calls under mLock.         *)
(*                                                                         *)
(* Abstractions: the external inputs other than TV and DTV are one source  *)
(* HDMI; a program is whatever a set of frontend parameters tunes to; a    *)
(* scanner, the ts player and a port switch may fail, the decoder and the  *)
(* ports stop when they are told to; the resource manager grants the ADC   *)
(* PLL to every port that is opened; vendor.tv.dtv.tsplayer.enable is set, *)
(* so that timeshift plays with the ts player; recorders, screen colour    *)
(* and channel locks are left out.                                         *)
(***************************************************************************)
EXTENDS FiniteSets, Naturals

CONSTANTS Programs,       \* what the frontend can be tuned to
          None,           \* no program, no port, no player
          AtvScanSources  \* the sources on which clients begin a scan for ATV

Sources == {"INVALID", "TV", "DTV", "HDMI"}

ASSUME ControlAssumption ==
    /\ None \notin Programs \cup {"TV", "DTV", "HDMI"}
    /\ AtvScanSources \subseteq Sources

\* Who calls StopTvLock: a client, or the message thread when the resource
\* manager preempts the tuner.
Callers == {"binder", "message"}

VARIABLES tv,     \* CTv and the devices it drives
          stop,   \* where each caller is in StopTvLock
          play,   \* where PLAY_CMD_START is that holds mLock: no, live, asking
          pause,  \* where pauseScan, resumeScan or getScanStatus is
          reset   \* where resetFrontEndPara is

vars == <<tv, stop, play, pause, reset>>

Init ==
    /\ tv = [action  |-> {},         \* mTvAction
             status  |-> "OPEN",     \* mTvStatus
             source  |-> "INVALID",  \* m_source_input
             same    |-> FALSE,      \* mbSameSourceEnableStatus
             fe      |-> FALSE,      \* the frontend is open
             tuned   |-> None,       \* CFrontEnd::mFEParas
             port    |-> None,       \* the port vdin has open
             decoder |-> FALSE,      \* CTvin::mDecoderStarted
             av      |-> FALSE,      \* the ts player decodes
             player  |-> None,       \* the device of PlayerManager
             scan    |-> FALSE]      \* CTvScanner::mbScanStart
    /\ stop = [c \in Callers |-> "no"]
    /\ play = "no"
    /\ pause = "no"
    /\ reset = "no"

Holds(c) == stop[c] \in {"raised", "begun", "halted"}

LockFree == play = "no" /\ \A c \in Callers : ~Holds(c)

-----------------------------------------------------------------------------
(* Helpers. *)

\* Faulty variant: the ts player keeps decoding.
StopPlaying_FlagOnly(s) == [s EXCEPT !.action = @ \ {"PLAYING"}]

StopPlaying(s) ==
    IF "PLAYING" \notin s.action THEN s
    ELSE [s EXCEPT !.action = @ \ {"PLAYING"},
                   !.av = @ /\ s.source # "DTV"]

StopScan(s) ==
    IF "SCANNING" \notin s.action THEN s
    ELSE [s EXCEPT !.action = @ \ {"SCANNING"}, !.decoder = FALSE, !.scan = FALSE,
                   !.fe = FALSE, !.tuned = None, !.port = None, !.source = "INVALID"]

\* CDTVTvPlayer::stop and CATVTvPlayer::stop.
StopPlayer(s) == IF s.player = None THEN s ELSE StopPlaying(s)

ReleaseAll(s) == [StopPlayer(s) EXCEPT !.player = None]

OpenPort(s, p) == IF s.port = None THEN p ELSE s.port

\* What SetSourceSwitchInputLocked does first: the scan ends.
\* Faulty variant: the frontend stays open.
EndScan_KeepFrontend(s) ==
    IF "SCANNING" \notin s.action THEN s
    ELSE [s EXCEPT !.action = @ \ {"SCANNING"}, !.decoder = FALSE, !.scan = FALSE]

EndScan(s) ==
    IF "SCANNING" \notin s.action THEN s
    ELSE [s EXCEPT !.action = @ \ {"SCANNING"}, !.decoder = FALSE, !.scan = FALSE,
                   !.fe = FALSE, !.tuned = None]

\* SetSourceSwitchInputLocked; ok is what SwitchPort makes of the new port.
SwitchSource(s, src, ok) ==
    LET t == StopPlaying(EndScan(s))
    IN  IF src = s.source /\ src # "TV" THEN EndScan(s)
        ELSE IF src = "DTV"
        THEN [t EXCEPT !.source = src, !.fe = TRUE, !.decoder = FALSE, !.port = None]
        ELSE [t EXCEPT !.source = src,
                       !.fe = src = "TV",
                       !.tuned = IF src = "TV" THEN @ ELSE None,
                       !.decoder = FALSE,
                       !.port = IF ok THEN src ELSE None,
                       !.action = IF ok THEN @ \cup {"IN_VDIN"} ELSE @]

-----------------------------------------------------------------------------
(* Operations under mLock. *)

Locked(s) == LockFree /\ tv' = s /\ UNCHANGED <<stop, play, pause, reset>>

StartTvLock ==
    /\ tv.status # "START"
    /\ Locked([tv EXCEPT !.status = "START", !.action = @ \ {"STOPING"}])

\* Both SetSourceSwitchInput: the one that names the real source only lets go
\* of the players when the new source has none.  A virtual source changes
\* nothing here.
SetSourceSwitchInput ==
    \E src \in Sources \ {"INVALID"}, ok \in BOOLEAN, named \in BOOLEAN :
        LET s == IF named /\ src = "HDMI" THEN ReleaseAll(tv) ELSE tv
        IN  Locked(SwitchSource(s, src, ok))

Tune(s, p) == [s EXCEPT !.fe = TRUE, !.tuned = p]

\* What a DTV player does up to PLAYING; ok is what the ts player makes of the
\* program.
PlayDtv(s, p, ok) ==
    [Tune(SwitchSource(s, "DTV", TRUE), p) EXCEPT !.action = @ \cup {"PLAYING"}, !.av = ok]

NewDtvPlayer == [StopPlayer(tv) EXCEPT !.player = "DTV"]

\* PLAY_CMD_START of a DTV player: the old player stops, whichever it is.
\* start returns early when the video path is not in use yet.  A live program
\* has yet to ask for the check of the frontend.
StartDtv ==
    /\ LockFree
    /\ \/ tv' = NewDtvPlayer /\ UNCHANGED play
       \/ /\ \E p \in Programs, ok \in BOOLEAN : tv' = PlayDtv(NewDtvPlayer, p, ok)
          /\ play' = "asking"
    /\ UNCHANGED <<stop, pause, reset>>

\* The same of a player that is to shift the time: playDtvTimeShiftUnlocked asks
\* for no check; when it fails, PLAYING is up and the player goes live.
StartTimeShift ==
    /\ LockFree
    /\ \E p \in Programs, ok \in BOOLEAN :
          /\ tv' = PlayDtv(NewDtvPlayer, p, ok)
          /\ play' = IF ok THEN "no" ELSE "live"
    /\ UNCHANGED <<stop, pause, reset>>

StartLive ==
    /\ play = "live"
    /\ \E p \in Programs, ok \in BOOLEAN : tv' = PlayDtv(tv, p, ok)
    /\ play' = "asking"
    /\ UNCHANGED <<stop, pause, reset>>

AskForCheck ==
    /\ play = "asking" /\ play' = "no"
    /\ UNCHANGED <<tv, stop, pause, reset>>

\* PLAY_CMD_START of an ATV player.
StartAtv ==
    \E p \in Programs, ok \in BOOLEAN :
        LET s == [StopPlayer(tv) EXCEPT !.player = "TV"]
            t == Tune(SwitchSource(s, "TV", ok), p)
        IN  Locked(IF tv.status = "STOP" THEN s
                   ELSE [t EXCEPT !.action = @ \cup {"IN_VDIN", "PLAYING"}])

\* PLAY_CMD_STOP.
StopPlay ==
    /\ tv.player # None
    /\ Locked([StopPlayer(tv) EXCEPT !.player = None])

\* Faulty variants: the port closes under a running decoder; a scan does not
\* keep clients from tuning.
setFrontEnd_DuringScan ==
    \E p \in Programs, analog \in BOOLEAN :
        LET s == Tune(StopPlaying(tv), p)
        IN  Locked(IF analog
                   THEN [s EXCEPT !.action = @ \cup {"IN_VDIN"}, !.decoder = FALSE]
                   ELSE [s EXCEPT !.action = @ \ {"IN_VDIN"}, !.decoder = FALSE,
                                  !.port = None])

setFrontEnd ==
    /\ "SCANNING" \notin tv.action
    /\ \E p \in Programs, analog \in BOOLEAN :
        LET s == Tune(StopPlaying(tv), p)
        IN  Locked(IF analog
                   THEN [s EXCEPT !.action = @ \cup {"IN_VDIN"}, !.decoder = FALSE]
                   ELSE [s EXCEPT !.action = @ \ {"IN_VDIN"}, !.decoder = FALSE,
                                  !.port = None])

-----------------------------------------------------------------------------
(* Scans.  Every one raises SCANNING first and keeps it when the scanner    *)
(* cannot start; ok is whether it does.                                    *)

Scanning(s) == [s EXCEPT !.action = @ \cup {"SCANNING"}]

Scan ==
    \E atv \in BOOLEAN, ok \in BOOLEAN :
        Locked([Scanning(tv) EXCEPT !.av = FALSE, !.decoder = FALSE, !.fe = TRUE,
                                    !.scan = ok,
                                    !.source = IF atv THEN "TV" ELSE "INVALID"])

dtvScan ==
    \E ok \in BOOLEAN : Locked([Scanning(tv) EXCEPT !.av = FALSE, !.scan = ok])

\* It returns before it does anything else when the tuner has no range.  With
\* snow on the screen the decoder is not stopped.
atvAutoScan ==
    /\ tv.source \in AtvScanSources
    /\ \E ranged \in BOOLEAN, snow \in BOOLEAN, ok \in BOOLEAN :
        LET s == StopPlaying(Scanning(tv))
        IN  Locked(IF ~ranged THEN s
                   ELSE [s EXCEPT !.decoder = @ /\ snow /\ s.source = "TV",
                                  !.port = OpenPort(s, "TV"),
                                  !.scan = ok])

atvManualScan ==
    /\ tv.source \in AtvScanSources
    /\ \E ok \in BOOLEAN :
        Locked([Scanning(tv) EXCEPT !.port = OpenPort(tv, "TV"), !.scan = ok])

stopScanLock == Locked(StopScan(tv))

-----------------------------------------------------------------------------
(* vdin. *)

\* onVdinSignalChange and onSigStatusChange: a stable signal, or snow, starts
\* the decoder; on other sources than TV any other signal stops it.  The
\* driver knows of a signal only while a port is open.
onVdinSignalChange ==
    /\ "IN_VDIN" \in tv.action /\ "SCANNING" \notin tv.action
    /\ tv.source = "TV" => "PLAYING" \in tv.action
    /\ tv.port # None
    /\ \E on \in BOOLEAN :
        Locked([tv EXCEPT !.decoder = on \/ (@ /\ tv.source = "TV")])

-----------------------------------------------------------------------------
(* StopTvLock. *)

\* The same-source flag is tested and consumed before the lock is taken.
StopCall(c) ==
    /\ stop[c] = "no"
    /\ IF tv.same
       THEN tv' = [tv EXCEPT !.same = FALSE] /\ UNCHANGED stop
       ELSE stop' = [stop EXCEPT ![c] = "waiting"] /\ UNCHANGED tv
    /\ UNCHANGED <<play, pause, reset>>

\* Faulty variant: the lock is not taken.
StopRaise_Unlocked(c) ==
    /\ stop[c] = "waiting"
    /\ tv' = [tv EXCEPT !.action = (@ \cup {"STOPING"}) \ {"IN_VDIN"}]
    /\ stop' = [stop EXCEPT ![c] = "raised"]
    /\ UNCHANGED <<play, pause, reset>>

\* STOPING is raised, while PLAYING may be up.
StopRaise(c) ==
    /\ stop[c] = "waiting" /\ LockFree
    /\ tv' = [tv EXCEPT !.action = (@ \cup {"STOPING"}) \ {"IN_VDIN"}]
    /\ stop' = [stop EXCEPT ![c] = "raised"]
    /\ UNCHANGED <<play, pause, reset>>

\* The frontend closes and the players go.
StopBegin(c) ==
    LET s == [tv EXCEPT !.fe = FALSE, !.tuned = None]
        t == IF s.source \in {"TV", "DTV"} THEN ReleaseAll(s) ELSE s
    IN  /\ stop[c] = "raised"
        /\ tv' = StopPlaying(t)
        /\ stop' = [stop EXCEPT ![c] = "begun"]
        /\ UNCHANGED <<play, pause, reset>>

\* Faulty variant: a running scan is left alone.
StopHalt_KeepScan(c) ==
    /\ stop[c] = "begun"
    /\ tv' = [tv EXCEPT !.decoder = FALSE, !.port = None, !.source = "INVALID"]
    /\ stop' = [stop EXCEPT ![c] = "halted"]
    /\ UNCHANGED <<play, pause, reset>>

\* The scan ends, the decoder stops, the port closes.
StopHalt(c) ==
    /\ stop[c] = "begun"
    /\ tv' = [StopScan(tv) EXCEPT !.decoder = FALSE, !.port = None, !.source = "INVALID"]
    /\ stop' = [stop EXCEPT ![c] = "halted"]
    /\ UNCHANGED <<play, pause, reset>>

StopEnd(c) ==
    /\ stop[c] = "halted"
    /\ tv' = [tv EXCEPT !.action = @ \ {"STOPING"}, !.status = "STOP"]
    /\ stop' = [stop EXCEPT ![c] = "no"]
    /\ UNCHANGED <<play, pause, reset>>

-----------------------------------------------------------------------------
(* Calls that do not take mLock. *)

TV_SetSameSourceEnable ==
    /\ \E enable \in BOOLEAN : tv' = [tv EXCEPT !.same = enable]
    /\ UNCHANGED <<stop, play, pause, reset>>

operateDeviceForScan ==
    /\ tv' = [tv EXCEPT !.fe = TRUE]
    /\ UNCHANGED <<stop, play, pause, reset>>

\* pauseScan, resumeScan and getScanStatus: SCANNING, then mbScanStart, then
\* the scan handle.
PauseCheck ==
    /\ pause = "no" /\ "SCANNING" \in tv.action
    /\ pause' = "flagged"
    /\ UNCHANGED <<tv, stop, play, reset>>
PauseTest ==
    /\ pause = "flagged"
    /\ pause' = IF tv.scan THEN "use" ELSE "no"
    /\ UNCHANGED <<tv, stop, play, reset>>
PauseUse ==
    /\ pause = "use"
    /\ pause' = "no"
    /\ UNCHANGED <<tv, stop, play, reset>>

\* resetFrontEndPara: SCANNING is tested once, then the frontend is tuned.
ResetCheck ==
    /\ reset = "no" /\ "SCANNING" \notin tv.action
    /\ reset' = "checked"
    /\ UNCHANGED <<tv, stop, play, pause>>
ResetTune ==
    /\ reset = "checked"
    /\ \E p \in Programs, analog \in BOOLEAN :
          tv' = [Tune(tv, p) EXCEPT !.decoder = @ /\ ~analog]
    /\ reset' = "no"
    /\ UNCHANGED <<stop, play, pause>>

-----------------------------------------------------------------------------
Next ==
    \/ StartTvLock \/ SetSourceSwitchInput
    \/ StartDtv \/ StartTimeShift \/ StartLive \/ AskForCheck
    \/ StartAtv \/ StopPlay \/ setFrontEnd
    \/ Scan \/ dtvScan \/ atvAutoScan \/ atvManualScan \/ stopScanLock
    \/ onVdinSignalChange
    \/ \E c \in Callers :
          StopCall(c) \/ StopRaise(c) \/ StopBegin(c) \/ StopHalt(c) \/ StopEnd(c)
    \/ TV_SetSameSourceEnable \/ operateDeviceForScan
    \/ PauseCheck \/ PauseTest \/ PauseUse
    \/ ResetCheck \/ ResetTune

Spec == Init /\ [][Next]_vars

-----------------------------------------------------------------------------
(* Properties. *)

TypeOK ==
    /\ tv \in [action  : SUBSET {"IN_VDIN", "STOPING", "SCANNING", "PLAYING"},
               status  : {"OPEN", "START", "STOP"},
               source  : Sources,
               same    : BOOLEAN,
               fe      : BOOLEAN,
               tuned   : Programs \cup {None},
               port    : {"TV", "HDMI", None},
               decoder : BOOLEAN,
               av      : BOOLEAN,
               player  : {"TV", "DTV", None},
               scan    : BOOLEAN]
    /\ stop \in [Callers -> {"no", "waiting", "raised", "begun", "halted"}]
    /\ play \in {"no", "live", "asking"}
    /\ pause \in {"no", "flagged", "use"}
    /\ reset \in {"no", "checked"}

\* At most one StopTvLock is under way, and STOPING is raised exactly while
\* one is: the handlers that test STOPING without mLock depend on it.
StopingTruthful ==
    /\ \A c, d \in Callers : Holds(c) /\ Holds(d) => c = d
    /\ "STOPING" \in tv.action <=> \E c \in Callers : Holds(c)

\* While the scanner runs, SCANNING is raised: every handler that would
\* disturb a scan tests only that flag, and four operations end a scan.
ScanFlagged == tv.scan => "SCANNING" \in tv.action

\* The ts player decodes only while DTV is the source and PLAYING is raised:
\* stopPlaying stops it only then, and would lose it otherwise.
PlaybackOwned == tv.av => tv.source = "DTV" /\ "PLAYING" \in tv.action

\* The vdin decoder runs on an open port only, although the port, the decoder
\* and the flag that lets vdin events through change separately.
DecoderHasPort == tv.decoder => tv.port # None

\* While DTV is the source, vdin has no port open: no signal of another input
\* can take the screen, although IN_VDIN may still be up from that input.
VdinOffOnDtv == tv.source = "DTV" => tv.port = None

\* When StopTvLock is about to report the end, nothing runs any more: not the
\* scanner, the ts player, the decoder or the port, whatever was going on when
\* it began and whatever was called without the lock meanwhile.
StopLeavesIdle ==
    (\E c \in Callers : stop[c] = "halted") =>
        /\ tv.action = {"STOPING"} /\ tv.source = "INVALID"
        /\ ~tv.scan /\ ~tv.av /\ ~tv.decoder /\ tv.port = None

\* While a scan goes on, no other call tunes the frontend to a program, but
\* for a resetFrontEndPara that tested SCANNING before the scan began.
ScanOwnsTuner ==
    [][tv.scan /\ tv'.scan =>
          \/ tv'.tuned \in {tv.tuned, None}
          \/ reset = "checked" /\ reset' = "no"]_vars

\* What the thread that handles frontend events sees of it.
Watch == INSTANCE TvWatch WITH
    dtv      <- tv.source = "DTV",
    playing  <- "PLAYING" \in tv.action,
    scanning <- "SCANNING" \in tv.action,
    stopping <- "STOPING" \in tv.action,
    tuned    <- tv.tuned # None,
    asking   <- play = "asking"

\* CTv keeps the promises that the handling of frontend events relies on.
ImplementsWatch == Watch!WatchSpec
=============================================================================
