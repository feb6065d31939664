------------------------------ MODULE Players ------------------------------
(***************************************************************************)
(* Players, recorders and timeshift: PlayerManager and RecorderManager     *)
(* (CTvManager.h), CDTVTvPlayer and CATVTvPlayer (CTvPlayer.cpp),          *)
(* CTvRecord (CTvRecord.cpp), the ts player and the timeshift playback of  *)
(* CAv (CAv.cpp), and the commands of CTv that drive them.  Every command  *)
(* runs under CTv::mLock and is one action.                                *)
(*                                                                         *)
(* The build is the one with vendor.tv.dtv.tsplayer.enable set.  Each call *)
(* into libdvr or the ts player that creates or starts something may fail; *)
(* releases and closes do what they are told.  Programs, formats, speeds   *)
(* and the frontend are left out (FrontEnd has it), so resume, seek and    *)
(* set change nothing here.  Commands always carry parameters of the       *)
(* player's own type, so mSourceChanged is set whenever start looks at it. *)
(***************************************************************************)
EXTENDS Functions, FiniteSets, Naturals

CONSTANTS DtvIds, AtvIds,  \* the ids of players, by type
          RecorderIds,     \* the ids under which clients record
          Fifos,           \* a recorder's devices, as equals() compares them
          DefaultFifo,     \* those of the player's own recorder
          None

TimeShifting == "timeshifting"  \* the id of the player's own recorder
MaxRecorders == 2
Sources == {"INVALID", "TV", "DTV", "HDMI"}

\* mMode; PLAIN is LIVE_WITHOUT_TIMESHIFT.
Modes == {"LIVE", "REC", "TIMESHIFT", "PLAIN"}

PlayerSet == [id : DtvIds \cup AtvIds, mode : Modes, enabled : BOOLEAN]

ASSUME PlayersAssumption ==
    /\ DtvIds \cap AtvIds = {} /\ None \notin PlayerSet \cup DtvIds \cup AtvIds
    /\ DefaultFifo \in Fifos
    \* a player that fails to start removes the recorder of its own id
    /\ (DtvIds \cup AtvIds) \cap (RecorderIds \cup {TimeShifting}) = {}

\* How far the start of a timeshift playback gets: no ts player, no playback, a
\* playback that does not start, one that does.
Outcomes == {"nothing", "created", "opened", "started"}

VARIABLE tv
vars == tv

NoRecorders == [id \in {} |-> None]

Init == tv = [playing   |-> FALSE,        \* TV_ACTION_PLAYING
              scanning  |-> FALSE,        \* TV_ACTION_SCANNING
              source    |-> "INVALID",    \* m_source_input
              player    |-> None,         \* the device of PlayerManager
              recorders |-> NoRecorders,  \* those of RecorderManager, by id
              orphan    |-> FALSE,        \* a record session outlived its CTvRecord
              session   |-> "none",       \* CAv::mSession: what the ts player is fed from
              shift     |-> FALSE,        \* CAv::mIsTimeshift
              playback  |-> "none",       \* CAv::player; stale: its session is gone
              hiu       |-> FALSE]        \* demux 0 takes its input from memory

IsDtv(s) == s.player # None /\ s.player.id \in DtvIds

-----------------------------------------------------------------------------
(* Recorders. *)

\* CTvRecord::stop.
StopRecorder(s, id) ==
    IF id \in DOMAIN s.recorders THEN [s EXCEPT !.recorders[id].open = FALSE] ELSE s

\* ~CTvRecord does not end the session.
removeRecorder(s, id) ==
    [s EXCEPT !.orphan = @ \/ (id \in DOMAIN s.recorders /\ s.recorders[id].open),
              !.recorders = Restrict(@, DOMAIN @ \ {id})]

\* addDev refuses a recorder with another one's devices, and a third one.
getRecorder(s, id, fifo) ==
    IF id \in DOMAIN s.recorders
    THEN [StopRecorder(s, id) EXCEPT !.recorders[id].fifo = fifo]
    ELSE IF \/ \E other \in DOMAIN s.recorders : s.recorders[other].fifo = fifo
            \/ Cardinality(DOMAIN s.recorders) = MaxRecorders
         THEN s
         ELSE [s EXCEPT !.recorders =
                  [r \in DOMAIN @ \cup {id} |->
                      IF r = id THEN [fifo |-> fifo, observer |-> "none", open |-> FALSE]
                      ELSE @[r]]]

\* CTvRecord::start reports success whatever libdvr says (ok).
StartRecorder(s, id, fifo, observer, ok) ==
    LET t == getRecorder(s, id, fifo)
    IN  IF id \notin DOMAIN t.recorders THEN t
        ELSE [t EXCEPT !.recorders[id].observer = observer, !.recorders[id].open = ok]

\* Faulty variant: the recorder is removed without being stopped.
EndRecorder_NoStop(s, id) == removeRecorder(s, id)

EndRecorder(s, id) == removeRecorder(StopRecorder(s, id), id)

\* RecorderManager::releaseAll.
releaseRecorders(s) == [s EXCEPT !.recorders = NoRecorders]

-----------------------------------------------------------------------------
(* The ts player and the timeshift playback. *)

delPlayer(s) == [s EXCEPT !.session = "none",
                          !.playback = IF @ = "none" THEN @ ELSE "stale"]

\* The flag is raised first, whatever comes of it.
startTimeShift(s, outcome) ==
    LET t == [delPlayer(s) EXCEPT !.shift = TRUE]
    IN  IF outcome = "nothing" THEN t
        ELSE [t EXCEPT !.session = "memory", !.hiu = TRUE,
                       !.playback = IF outcome = "created" THEN @ ELSE "open"]

\* The handle is forgotten even where, for want of a ts player, it is not closed.
stopTimeShift(s) ==
    IF ~s.shift THEN s
    ELSE [s EXCEPT !.shift = FALSE, !.playback = "none", !.session = "none"]

StartTS(s, ok) == [delPlayer(s) EXCEPT !.session = IF ok THEN "demod" ELSE "none"]

StopTS(s) == IF s.shift THEN stopTimeShift(s) ELSE delPlayer(s)

stopPlaying(s) ==
    IF ~s.playing THEN s
    ELSE [(IF s.source = "DTV" THEN StopTS(s) ELSE s) EXCEPT !.playing = FALSE]

\* SetSourceSwitchInputLocked, as far as players notice it.
SwitchSource(s, src) ==
    LET t == [s EXCEPT !.scanning = FALSE]
    IN  IF src = s.source /\ src # "TV" THEN t
        ELSE [stopPlaying(t) EXCEPT !.source = src, !.hiu = @ /\ src # "DTV"]

-----------------------------------------------------------------------------
(* Players. *)

\* Faulty variant of stop: a running timeshift keeps its recorder.
stopPlayer_KeepRecorder(s) ==
    IF s.player = None THEN s
    ELSE IF ~IsDtv(s) THEN stopPlaying(s)
    ELSE stopTimeShift(stopPlaying(
             IF s.player.enabled /\ ~s.shift THEN EndRecorder(s, TimeShifting) ELSE s))

\* Faulty variant: nothing but what PLAYING stands for is stopped.
stopPlayer_PlayingOnly(s) ==
    IF s.player = None THEN s
    ELSE IF ~IsDtv(s) THEN stopPlaying(s)
    ELSE stopPlaying(IF s.player.enabled THEN EndRecorder(s, TimeShifting) ELSE s)

\* stop, of whichever type.
stopPlayer(s) ==
    IF s.player = None THEN s
    ELSE IF ~IsDtv(s) THEN stopPlaying(s)
    ELSE stopTimeShift(stopPlaying(
             IF s.player.enabled THEN EndRecorder(s, TimeShifting) ELSE s))

\* Faulty variant of the destructor: every recorder is stopped.
deletePlayer_AllRecorders(s) ==
    [s EXCEPT !.player = None,
              !.recorders = [id \in DOMAIN @ |-> [@[id] EXCEPT !.open = FALSE]]]

deletePlayer(s) ==
    [(IF IsDtv(s) THEN StopRecorder(s, TimeShifting) ELSE s) EXCEPT !.player = None]

\* PlayerManager::releaseAll.
releasePlayers(s) == deletePlayer(stopPlayer(s))

releaseAll(s) == releaseRecorders(releasePlayers(s))

\* A player that exists is set up and stopped; otherwise the only other one goes.
getPlayer(s, id, mode, enabled) ==
    IF s.player # None /\ s.player.id = id
    THEN stopPlayer([s EXCEPT !.player.mode = mode])
    ELSE [releasePlayers(s) EXCEPT
             !.player = [id |-> id, mode |-> mode, enabled |-> enabled]]

\* startLive, by way of playDtvProgramUnlocked.
startLive(s, mode, ok) ==
    StartTS([SwitchSource(s, "DTV") EXCEPT !.playing = TRUE, !.player.mode = mode], ok)

playDtvTimeShift(s, outcome) ==
    startTimeShift([SwitchSource(s, "DTV") EXCEPT !.playing = TRUE], outcome)

\* Faulty variant: the player believes in the timeshift it asked for.
TimeShiftOrLive_Unchecked(s, outcome, ok) ==
    [s EXCEPT !.player.mode = "TIMESHIFT"]

\* After a timeshift playback was asked for: live, if there is none.
TimeShiftOrLive(s, outcome, ok) ==
    IF outcome = "started" THEN [s EXCEPT !.player.mode = "TIMESHIFT"]
    ELSE startLive(s, "PLAIN", ok)

\* startLiveTryTimeShift; enabled is what the property says now, recorded and
\* ok what libdvr and the ts player make of their parts.
startLiveTryTimeShift(s, enabled, recorded, outcome, ok) ==
    LET on == s.player.enabled /\ enabled
        t == [s EXCEPT !.player.enabled = on]
        u == IF on
             THEN StartRecorder(EndRecorder(t, TimeShifting), TimeShifting,
                                DefaultFifo, "player", recorded)
             ELSE t
    IN  IF on /\ TimeShifting \in DOMAIN u.recorders
        THEN TimeShiftOrLive(playDtvTimeShift(u, outcome), outcome, ok)
        ELSE startLive(u, "PLAIN", ok)

startDtv(s, enabled, recorded, outcome, ok) ==
    IF s.player.mode = "LIVE" THEN startLiveTryTimeShift(s, enabled, recorded, outcome, ok)
    ELSE startLive(s, "LIVE", ok)

-----------------------------------------------------------------------------
(* Commands. *)

\* PLAY_CMD_START.
PlayStartDtv ==
    \E id \in DtvIds, mode \in {"LIVE", "TIMESHIFT"}, enabled \in BOOLEAN,
       recorded \in BOOLEAN, outcome \in Outcomes, ok \in BOOLEAN :
        tv' = startDtv(getPlayer(tv, id, mode, enabled), enabled, recorded, outcome, ok)

\* start fails: the video path is not ready, or the mode is not supported.
PlayStartRefused ==
    \E id \in DtvIds, mode \in Modes, enabled \in BOOLEAN :
        tv' = removeRecorder(getPlayer(tv, id, mode, enabled), id)

\* A stopped TV server plays no analog program.
PlayStartAtv ==
    \E id \in AtvIds, stopped \in BOOLEAN :
        LET s == getPlayer(tv, id, "LIVE", FALSE)
        IN  tv' = IF stopped THEN removeRecorder(s, id)
                  ELSE [SwitchSource(s, "TV") EXCEPT !.playing = TRUE]

PlayStop == tv.player # None /\ tv' = releasePlayers(tv)

\* pause of a live player begins a timeshift, if somebody records for it.
PlayPause ==
    /\ IsDtv(tv) /\ tv.player.mode = "LIVE" /\ tv.player.enabled
    /\ TimeShifting \in DOMAIN tv.recorders
    /\ \E outcome \in Outcomes, ok \in BOOLEAN :
          tv' = TimeShiftOrLive(startTimeShift(tv, outcome), outcome, ok)

RecordPrepare ==
    \E id \in RecorderIds, fifo \in Fifos : tv' = getRecorder(tv, id, fifo)

RecordStart ==
    \E id \in RecorderIds, fifo \in Fifos, ok \in BOOLEAN :
        tv' = StartRecorder(tv, id, fifo, "queue", ok)

RecordStop ==
    \E id \in RecorderIds \cap DOMAIN tv.recorders : tv' = EndRecorder(tv, id)

\* Both SetSourceSwitchInput; see TvControl.
SetSourceSwitchInput ==
    \E src \in Sources \ {"INVALID"}, named \in BOOLEAN :
        tv' = SwitchSource(IF named /\ src = "HDMI" THEN releaseAll(tv) ELSE tv, src)

\* Analog or digital, the scan flag keeps it from tuning.
setFrontEnd == ~tv.scanning /\ tv' = stopPlaying(tv)

\* Scan and dtvScan: the ts player stops, PLAYING stays.
Scan ==
    \E src \in {"TV", "INVALID", tv.source} :
        tv' = [StopTS(tv) EXCEPT !.scanning = TRUE, !.source = src]

\* Clients scan for analog channels on other sources than DTV; see TvControl.
atvAutoScan == tv.source # "DTV" /\ tv' = [stopPlaying(tv) EXCEPT !.scanning = TRUE]
atvManualScan == tv.source # "DTV" /\ tv' = [tv EXCEPT !.scanning = TRUE]

stopScan == tv.scanning /\ tv' = [tv EXCEPT !.scanning = FALSE, !.source = "INVALID"]

StopTv ==
    LET s == IF tv.source \in {"TV", "DTV"} THEN releaseAll(tv) ELSE tv
    IN  tv' = [stopPlaying(s) EXCEPT !.scanning = FALSE, !.source = "INVALID"]

Next ==
    \/ PlayStartDtv \/ PlayStartRefused \/ PlayStartAtv \/ PlayStop \/ PlayPause
    \/ RecordPrepare \/ RecordStart \/ RecordStop
    \/ SetSourceSwitchInput \/ setFrontEnd
    \/ Scan \/ atvAutoScan \/ atvManualScan \/ stopScan \/ StopTv

Spec == Init /\ [][Next]_vars

-----------------------------------------------------------------------------
(* Properties. *)

Recorder(r) ==
    /\ DOMAIN r = {"fifo", "observer", "open"}
    /\ r.fifo \in Fifos /\ r.observer \in {"none", "queue", "player"} /\ r.open \in BOOLEAN

\* The records keep their fields, and RecorderManager its size.
TypeOK ==
    /\ tv.playing \in BOOLEAN /\ tv.scanning \in BOOLEAN /\ tv.source \in Sources
    /\ tv.player \in PlayerSet \cup {None}
    /\ DOMAIN tv.recorders \subseteq RecorderIds \cup {TimeShifting}
    /\ Cardinality(DOMAIN tv.recorders) <= MaxRecorders
    /\ \A id \in DOMAIN tv.recorders : Recorder(tv.recorders[id])
    /\ tv.orphan \in BOOLEAN /\ tv.shift \in BOOLEAN /\ tv.hiu \in BOOLEAN
    /\ tv.session \in {"none", "demod", "memory"}
    /\ tv.playback \in {"none", "open", "stale"}

\* A record session never outlives its recorder, which nobody could then stop
\* and whose memory libdvr's events would still be handed to.  RecEventHandler
\* calls the observer without a test: a recorder that records has one, and if it
\* is the player's, the player lives and will remove it.
RecordersTended ==
    /\ ~tv.orphan
    /\ \A id \in DOMAIN tv.recorders :
         /\ tv.recorders[id].open => tv.recorders[id].observer # "none"
         /\ tv.recorders[id].observer = "player" => IsDtv(tv) /\ tv.player.enabled

\* A player that claims to be in timeshift while the ts player plays is fed from
\* a playback that the next stop will close, and the demux reads memory.
TimeShiftIsReal ==
    IsDtv(tv) /\ tv.player.mode = "TIMESHIFT" /\ tv.playing /\ tv.session # "none" =>
        tv.session = "memory" /\ tv.playback = "open" /\ tv.shift /\ tv.hiu

\* With the player gone and PLAYING lowered nothing is left of it, whatever
\* failed while it started and whoever stopped it: no ts player, no playback,
\* no timeshift flag to send the next StopTS the wrong way.
NothingLeftBehind ==
    tv.player = None /\ ~tv.playing =>
        tv.session = "none" /\ tv.playback = "none" /\ ~tv.shift

\* A client's recording is changed by a command to a recorder, which changes
\* nothing else, or goes with all the others: no command to a player, failed or
\* not, no scan and no switch of the source touches one recording.
ClientsKeepRecordings ==
    [][\A id \in DOMAIN tv.recorders \ {TimeShifting} :
          \/ id \in DOMAIN tv'.recorders /\ tv'.recorders[id] = tv.recorders[id]
          \/ tv' = [tv EXCEPT !.recorders = tv'.recorders]
          \/ DOMAIN tv'.recorders = {}]_vars
=============================================================================
