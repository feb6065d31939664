------------------------------- MODULE Screen -------------------------------
(***************************************************************************)
(* What is on the screen (libtv/tv/CTv.cpp, CAv.cpp): CTv answers a change *)
(* of the signal with the decoder, the snow of an analog channel without   *)
(* signal, a colour over the picture and an event to the clients.  Three   *)
(* threads do so:                                                          *)
(*   - the poll thread, under CTv::mLock, when vdin reports a change;      *)
(*   - the message thread, without a lock, when a picture has had its time *)
(*     to come (TV_MSG_ENABLE_VIDEO_LATER);                                *)
(*   - the clients' binder threads: source, scan and play operations under *)
(*     mLock, the channel lock (CTv::request) without.                     *)
(* An operation is one action but for isVideoFrameAvailable, which is cut  *)
(* where a client can come between.                                        *)
(*                                                                         *)
(* Abstractions: HDMI stands for every source of vdin but TV, DTV for      *)
(* every source that vdin has no part in; of the changes that vdin reports *)
(* the one of the status; colours and screen modes are left out; the       *)
(* kernel reports the status of a port it has opened, and a rewritten EDID *)
(* has the HDMI source come up again.                                      *)
(***************************************************************************)
EXTENDS Vdin, Naturals

Sources == {"INVALID", "TV", "HDMI", "DTV"}

Statuses == {"NULL", "NOSIG", "UNSTABLE", "NOTSUP", "STABLE"}

Blocks == {"NONE", "BLOCKED", "UNBLOCKED"}

AllConfigs == [multi : BOOLEAN,   \* mIsMultiDemux: the picture goes through a tunnel
               snow  : BOOLEAN,   \* mATVDisplaySnow
               blue  : BOOLEAN]   \* the screen is blue without a signal

CONSTANTS MaxMessages,  \* bound on the ENABLE_VIDEO_LATER messages in the queue
          MaxRefusals,  \* bound on the calls that devices refuse
          Signals,      \* the statuses that signals come to have
          Configs,      \* how sets may be configured
          Requests,     \* what clients ask for besides sources, programs and scans
          TunerSources  \* the sources on which clients tune and scan

ASSUME ScreenAssumption ==
    /\ MaxMessages \in Nat \ {0} /\ MaxRefusals \in Nat
    /\ {"NOSIG", "STABLE"} \subseteq Signals /\ Signals \subseteq Statuses \ {"NULL"}
    /\ Configs \subseteq AllConfigs
    /\ Requests \subseteq {"block", "unblock", "enable", "channel", "color"}
    /\ TunerSources \subseteq Sources

VARIABLES cfg,     \* how the set is configured
          s,       \* CTv, CAv and vdin
          signal,  \* the status of the signal at the open port
          edge,    \* the poll thread has a report of vdin to read
          later,   \* TV_MSG_ENABLE_VIDEO_LATER messages
          msg,     \* where the message thread is in isVideoFrameAvailable
          refused, \* what a device refused so far: a sequence would tell more
          missed   \* history: the source was locked between the message thread's
                   \* test and its deed, or by a client that said it was tuning
                   \* while a channel played, and the lock was not tested since

vars == <<cfg, s, signal, edge, later, msg, refused, missed>>

Init ==
    /\ cfg \in Configs
    /\ s = [v        |-> VdinInit,
            source   |-> "INVALID",  \* m_source_input
            started  |-> TRUE,       \* mTvStatus is before TV_STOP_ED
            inVdin   |-> FALSE,      \* mTvAction: IN_VDIN, PLAYING, SCANNING
            playing  |-> FALSE,
            scanning |-> FALSE,
            status   |-> "NULL",     \* m_cur_sig_info.status
            told     |-> "NULL",     \* the last SignalInfoEvent
            vrr      |-> FALSE,      \* mVrrStatus
            block    |-> "NONE",     \* mBlockState
            channel  |-> "NONE",     \* mChannelBlockState
            enabled  |-> TRUE,       \* mEnableLockModule
            layer    |-> TRUE,       \* the video layer is enabled
            cache    |-> FALSE,      \* mVideoLayerState = VIDEO_LAYER_ENABLE
            cover    |-> FALSE]      \* the tunnel shows a colour
    /\ signal = "NULL" /\ edge = FALSE
    /\ later = 0 /\ msg = "idle"
    /\ refused = {} /\ missed = FALSE

-----------------------------------------------------------------------------
(* Helpers: from one state of CTv to the next. *)

\* ScreenColorControl with SHOW_ALWAYES, SHOW_DISABLE and SHOW_ONCE.
CoverPicture(t) == IF cfg.multi THEN [t EXCEPT !.cover = TRUE] ELSE [t EXCEPT !.layer = FALSE]

ShowPicture(t) == IF cfg.multi THEN [t EXCEPT !.cover = FALSE] ELSE [t EXCEPT !.layer = TRUE]

ColorOnce(t) == IF cfg.multi THEN [t EXCEPT !.cover = FALSE] ELSE [t EXCEPT !.layer = TRUE]

\* VPP_setVideoColor: a colour, or black, with the video disabled.
VppColor(t) == [t EXCEPT !.layer = FALSE]

\* EnableVideoNow skips what it believes to be done already.
EnableVideoNow(t) == IF t.cache THEN t ELSE [t EXCEPT !.cache = TRUE, !.layer = TRUE]

\* EnableVideoBlackout and DisableVideoBlackout forget what was enabled.
Blackout(t) == [t EXCEPT !.cache = FALSE]

NeedSnow(t) == t.source = "TV" /\ cfg.snow

Snow(t, enable) == [t EXCEPT !.v = SwitchSnow(@, enable)]

SnowOff(t) == IF NeedSnow(t) /\ t.v.snow THEN Snow(t, FALSE) ELSE t

Decode(t, bad) == [t EXCEPT !.v = StartDecoder(@, bad)]

Rest(t, bad) == [t EXCEPT !.v = StopDecoder(@, bad)]

\* sendTvEvent: nothing is told in a scan, and then nothing gets here.
Tell(t) == [t EXCEPT !.told = t.status]

\* isBlockedByChannelLock, and what the handlers make of it.  The product
\* supports channel locks.
LockedBySource(t) == t.enabled /\ t.source = "TV" /\ t.block = "BLOCKED"

Locked(t) == LockedBySource(t) \/ (t.enabled /\ t.channel = "BLOCKED")

StopPlaying(t) == [t EXCEPT !.playing = FALSE]

\* Snow instead of an unsupported channel.
ShowSnow(t, bad) == EnableVideoNow(Decode(Snow(t, TRUE), bad))

-----------------------------------------------------------------------------
(* The answers to the five statuses.  onSigStatusChange does not come here in  *)
(* a scan: what the handlers would do in a scan is left out.                   *)

\* Faulty variant: the layer is left as it is.
StillStable_KeepLayer(t, bad, newFormat) ==
    LET a == IF t.source = "TV" THEN Blackout(t) ELSE t
        b == IF NeedSnow(a) /\ a.v.snow THEN Rest(Snow(a, FALSE), bad)
             ELSE IF a.source = "TV" /\ newFormat THEN Rest(a, bad) ELSE a
        c == IF b.source = "HDMI" THEN Rest(b, bad) ELSE b
        d == Decode(c, bad)
    IN  Tell(IF Locked(d) THEN CoverPicture(d) ELSE d)

\* onSigStillStable, up to the message it sends.
StillStable(t, bad, newFormat) ==
    LET a == IF t.source = "TV" THEN Blackout(t) ELSE t
        b == IF NeedSnow(a) /\ a.v.snow THEN Rest(Snow(a, FALSE), bad)
             ELSE IF a.source = "TV" /\ newFormat THEN Rest(a, bad) ELSE a
        c == IF b.source = "HDMI" THEN Rest(b, bad) ELSE b
        d == Decode(c, bad)
        e == IF Locked(d) THEN CoverPicture(d) ELSE d
    IN  Tell(IF e.channel # "BLOCKED" \/ ~e.enabled THEN [e EXCEPT !.layer = TRUE] ELSE e)

\* onSigToUnstable.
ToUnstable(t, bad) ==
    IF t.source # "TV" THEN Rest(CoverPicture(t), bad)
    ELSE IF LockedBySource(t) THEN VppColor(t) ELSE t

\* onSigToUnSupport.
ToUnSupport(t, bad) ==
    Tell(IF t.source # "TV" THEN Rest(VppColor(t), bad)
         ELSE IF ~cfg.blue /\ NeedSnow(t) THEN ShowSnow(t, bad) ELSE VppColor(t))

\* Faulty variants: the decoder runs on without a signal; the snow is not
\* uncovered.
ToNoSig_KeepDecoder(t, bad) ==
    LET a == IF NeedSnow(t) THEN Decode(Snow(t, TRUE), bad) ELSE t
    IN  Tell(IF ~cfg.blue /\ NeedSnow(t) THEN ShowPicture(EnableVideoNow(a))
             ELSE CoverPicture(a))

\* onSigToNoSig: snow on an analog channel, a colour elsewhere.
ToNoSig(t, bad) ==
    LET a == IF NeedSnow(t) THEN Decode(Snow(t, TRUE), bad) ELSE t
    IN  Tell(IF t.source # "TV" THEN Rest(CoverPicture(t), bad)
             ELSE IF ~cfg.blue /\ NeedSnow(t) THEN ShowPicture(EnableVideoNow(a))
             ELSE CoverPicture(a))

-----------------------------------------------------------------------------
(* The devices. *)

\* What may be refused in one operation, and that it is remembered.
Refuse(bad) ==
    /\ bad = {} \/ Cardinality(refused) < MaxRefusals
    /\ refused' = refused \cup bad

\* At most one call of an operation is refused, of the calls that it makes.
OneOf(calls) == {{}} \cup {{r} : r \in calls}

StopCalls == OneOf({"STOP"})

DecoderCalls == OneOf({"STOP", "START"} \cup DecoderResources)

PortCalls == OneOf({"STOP", "OPEN", "ADC_PLL", "AMVIDEO", "PATH"})

\* The status of a port that has been opened or closed.
Reopened(t) ==
    IF t.v.device = "none" THEN signal' = "NULL" /\ edge' = FALSE
    ELSE signal' \in Signals /\ edge' = TRUE

\* An operation that may change the port, or reopen it.
Operation(t, reopen) ==
    /\ s' = t
    /\ IF t.v.device # s.v.device \/ reopen THEN Reopened(t) ELSE UNCHANGED <<signal, edge>>
    /\ UNCHANGED <<cfg, later, msg, missed>>

SignalChange ==
    /\ s.v.device # "none"
    /\ signal' \in Signals \ {signal}
    /\ edge' = TRUE
    /\ UNCHANGED <<cfg, s, later, msg, refused, missed>>

-----------------------------------------------------------------------------
(* The poll thread. *)

\* onVdinSignalChange drops what it is not there for, onSigStatusChange what is
\* reported in a scan or of a channel that is not played.
Dropped == ~s.inVdin \/ s.scanning \/ (s.source = "TV" /\ ~s.playing)

DropSignal ==
    /\ edge /\ Dropped
    /\ edge' = FALSE
    /\ UNCHANGED <<cfg, s, signal, later, msg, refused, missed>>

Current == [s EXCEPT !.status = signal]

\* A stable HDMI signal may ask for the other setting of variable refresh rate
\* (setPictureModeBySignal, SetVRRStatusBySignal): then the EDID is rewritten,
\* nothing else happens, and the source comes up again.
\* Faulty variant: the EDID is left as it is.
SwitchVrr_KeepEdid ==
    /\ edge /\ ~Dropped /\ signal = "STABLE" /\ s.source = "HDMI"
    /\ s' = [Current EXCEPT !.vrr = ~@]
    /\ edge' = FALSE
    /\ UNCHANGED <<cfg, signal, later, msg, refused, missed>>
SwitchVrr ==
    /\ edge /\ ~Dropped /\ signal = "STABLE" /\ s.source = "HDMI"
    /\ s' = [Current EXCEPT !.vrr = ~@]
    /\ signal' \in {"NOSIG", "UNSTABLE"} \cap Signals
    /\ UNCHANGED <<cfg, edge, later, msg, refused, missed>>

SignalStable(bad) ==
    /\ edge /\ ~Dropped /\ signal = "STABLE"
    /\ later < MaxMessages
    /\ \E newFormat \in BOOLEAN : s' = StillStable(Current, bad, newFormat)
    /\ later' = later + 1
    /\ edge' = FALSE /\ missed' = FALSE
    /\ UNCHANGED <<cfg, signal, msg>>

SignalNotStable(bad) ==
    /\ edge /\ ~Dropped /\ signal # "STABLE"
    /\ s' = CASE signal = "UNSTABLE" -> ToUnstable(Current, bad)
              [] signal = "NOTSUP" -> ToUnSupport(Current, bad)
              [] signal = "NOSIG" -> ToNoSig(Current, bad)
              [] OTHER -> Current
    /\ edge' = FALSE
    /\ UNCHANGED <<cfg, signal, later, msg, missed>>

-----------------------------------------------------------------------------
(* The message thread: isVideoFrameAvailable. *)

BeginWait ==
    /\ later > 0 /\ msg = "idle"
    /\ later' = later - 1
    /\ msg' = "waiting"
    /\ UNCHANGED <<cfg, s, signal, edge, refused, missed>>

\* Faulty variant: the lock is not asked for.
EndWait_Unlocked ==
    /\ msg = "waiting"
    /\ IF ~cfg.multi /\ s.source \in {"TV", "DTV"} /\ ~s.playing
       THEN msg' = "idle" /\ s' = s
       ELSE /\ s' = [s EXCEPT !.status = "STABLE"]
            /\ msg' = IF s.scanning THEN "idle" ELSE "show"
    /\ missed' = (missed /\ msg' = "idle")
    /\ UNCHANGED <<cfg, signal, edge, later, refused>>

\* Frames arrive, or two seconds pass; an analog or digital channel that is not
\* played any more is given up, on the old path only.
EndWait ==
    /\ msg = "waiting"
    /\ IF ~cfg.multi /\ s.source \in {"TV", "DTV"} /\ ~s.playing
       THEN msg' = "idle" /\ s' = s
       ELSE /\ s' = [s EXCEPT !.status = "STABLE"]
            /\ msg' = IF s.scanning THEN "idle" ELSE IF Locked(s) THEN "cover" ELSE "show"
    /\ missed' = (missed /\ msg' = "idle")
    /\ UNCHANGED <<cfg, signal, edge, later, refused>>

UncoverLater ==
    /\ msg \in {"cover", "show"}
    /\ s' = IF msg = "cover" THEN CoverPicture(s) ELSE ShowPicture(s)
    /\ msg' = "idle"
    /\ UNCHANGED <<cfg, signal, edge, later, refused, missed>>

-----------------------------------------------------------------------------
(* Source, play and scan operations. *)

\* SetSourceSwitchInputLocked.
SourceSwitched(src, bad) ==
    LET a == IF s.scanning THEN [Rest(s, bad) EXCEPT !.scanning = FALSE] ELSE s
        b == [StopPlaying(a) EXCEPT !.source = src]
    IN  IF src = s.source /\ src # "TV" THEN a
        ELSE IF src = "DTV"
        THEN [b EXCEPT !.v = WaitPathInactive(ClosePort(StopDecoder(@, bad)), bad)]
        ELSE [b EXCEPT !.v = SwitchPort(@, src, bad),
                       !.inVdin = @ \/ PortSwitched(b.v, bad)]

\* The port is closed and opened again, for the same source too.
Reopens(src, bad) == src = "TV" /\ PortSwitched(s.v, bad)

SwitchSource(bad) ==
    \E src \in Sources \ {"INVALID"} : Operation(SourceSwitched(src, bad), Reopens(src, bad))

\* playAtvProgram.
PlayAtv(bad) ==
    /\ s.started
    /\ Operation([SourceSwitched("TV", bad) EXCEPT !.inVdin = TRUE, !.playing = TRUE],
                 Reopens("TV", bad))

\* setFrontEnd with an analog and with a digital channel; still says whether the
\* last picture may stay.
Retuned(still) ==
    SnowOff(StopPlaying(IF still THEN Blackout(s) ELSE CoverPicture(Blackout(s))))

TuneAtv(bad) ==
    /\ ~s.scanning /\ s.source \in TunerSources
    /\ \E still \in BOOLEAN : Operation([Rest(Retuned(still), bad) EXCEPT !.inVdin = TRUE], FALSE)

TuneDtv(bad) ==
    /\ ~s.scanning /\ s.source \in TunerSources
    /\ \E still \in BOOLEAN :
         Operation([Rest(Retuned(still), bad) EXCEPT !.inVdin = FALSE, !.v = ClosePort(@)], FALSE)

\* atvAutoScan.
AutoScan(bad) ==
    LET a == [StopPlaying(s) EXCEPT !.scanning = TRUE]
        b == IF NeedSnow(a) THEN Snow(a, TRUE) ELSE Rest(a, bad)
    IN  s.source \in TunerSources /\ Operation([b EXCEPT !.v = OpenPort(@, "TV", bad)], FALSE)

\* atvManualScan: what plays goes on playing.
ManualScan(bad) ==
    LET a == IF NeedSnow(s) THEN Snow(s, TRUE) ELSE s
    IN  s.source \in TunerSources /\ Operation([a EXCEPT !.scanning = TRUE, !.v = OpenPort(@, "TV", bad)], FALSE)

ScanEnded(t, bad) ==
    IF ~t.scanning THEN t
    ELSE LET a == IF NeedSnow(t) THEN Snow(t, FALSE) ELSE t
         IN  [Rest(a, bad) EXCEPT !.v = ClosePort(@), !.source = "INVALID", !.scanning = FALSE]

StopScan(bad) == Operation(ScanEnded(s, bad), FALSE)

StartTv ==
    /\ ~s.started /\ s.source = "INVALID"
    /\ Operation([CoverPicture(s) EXCEPT !.started = TRUE, !.channel = "NONE"], FALSE)
    /\ UNCHANGED refused

\* StopTvLock; the layer is disabled for a source behind HDMI in the list, which
\* is where Tvin_SourceInputToSourceInputType puts no source, too.
StopTv(bad) ==
    LET a == [ScanEnded(StopPlaying(s), bad) EXCEPT !.inVdin = FALSE]
        b == IF NeedSnow(a) THEN Snow(a, FALSE) ELSE a
        c == IF b.source \in {"INVALID", "DTV"} THEN [b EXCEPT !.layer = FALSE] ELSE b
    IN  Operation([c EXCEPT !.v = Release(ClosePort(StopDecoder(@, bad))),
                            !.source = "INVALID", !.started = FALSE, !.status = "NULL",
                            !.block = "NONE", !.channel = "NONE"], FALSE)

\* TV_SetVRREnable, which stops the decoder without mLock.
SetVrr(bad) ==
    /\ s.source = "HDMI"
    /\ s' = [Rest(s, bad) EXCEPT !.vrr = ~@]
    /\ signal' \in {"NOSIG", "UNSTABLE"} \cap Signals /\ edge' = TRUE
    /\ UNCHANGED <<cfg, later, msg, missed>>

-----------------------------------------------------------------------------
(* The channel lock: none of these takes mLock. *)

\* onBlockStateChanged.
BlockChanged(t) ==
    IF t.status \in {"UNSTABLE", "NOTSUP", "STABLE"} /\ t.enabled THEN VppColor(t) ELSE t

\* "ADTV.block": SetBlocked.  Whether it is tuning is what the client says.
SetBlocked(state, tunning) ==
    LET t == [s EXCEPT !.block = state]
    IN  /\ s' = IF ~tunning /\ s.playing THEN BlockChanged(t) ELSE t
        /\ missed' = (LockedBySource(t) /\ (msg = "show" \/ (tunning /\ s.playing)))

\* "ADTV.unblockContent": RequestUnblock.
RequestUnblock ==
    /\ s.enabled /\ s.block = "BLOCKED"
    /\ s' = BlockChanged([s EXCEPT !.block = "UNBLOCKED"])
    /\ missed' = FALSE

\* "ADTV.setBlockEn".
SetBlockEnable ==
    LET t == [s EXCEPT !.enabled = ~@]
        u == IF LockedBySource(t) THEN BlockChanged(t) ELSE t
    IN  /\ s' = IF t.block = "BLOCKED" /\ ~t.enabled THEN VppColor(u) ELSE u
        /\ missed' = (LockedBySource(t) /\ msg = "show")

\* "ADTV.setCurrentChannelBlockStatus", "ADTV.BlockCurrentChannel" and
\* "ADTV.UnblockCurrentChannel".
SetChannelStatus(state) == s' = [s EXCEPT !.channel = state] /\ missed' = FALSE

BlockCurrentChannel == s' = CoverPicture([s EXCEPT !.channel = "BLOCKED"]) /\ missed' = FALSE

UnblockCurrentChannel == s' = ShowPicture([s EXCEPT !.channel = "UNBLOCKED"]) /\ missed' = FALSE

\* ScreenColorChange: the client changes the colour that is shown without signal.
ScreenColorChange ==
    /\ "color" \in Requests
    /\ s' = IF s.source = "TV"
            THEN IF s.block = "BLOCKED" \/ (s.status = "NOSIG" /\ ~cfg.blue)
                 THEN CoverPicture(s)
                 ELSE IF s.status = "NOSIG" THEN ColorOnce(s) ELSE s
            ELSE IF s.source = "HDMI" /\ s.status = "NOSIG" THEN ColorOnce(s) ELSE s
    /\ cfg' = [cfg EXCEPT !.blue = ~@]
    /\ UNCHANGED <<signal, edge, later, msg, refused, missed>>

\* A set uses one of the two locks.
Request ==
    /\ \/ /\ s.channel = "NONE"
          /\ \/ /\ "block" \in Requests
                /\ \E state \in {"NONE", "BLOCKED"}, tunning \in BOOLEAN : SetBlocked(state, tunning)
             \/ "unblock" \in Requests /\ RequestUnblock
       \/ "enable" \in Requests /\ SetBlockEnable
       \/ /\ "channel" \in Requests /\ s.block = "NONE"
          /\ \/ \E state \in {"BLOCKED", "UNBLOCKED"} : SetChannelStatus(state)
             \/ BlockCurrentChannel \/ UnblockCurrentChannel
    /\ UNCHANGED <<cfg, signal, edge, later, msg, refused>>

-----------------------------------------------------------------------------
Next ==
    \/ SignalChange
    \/ DropSignal \/ SwitchVrr
    \/ BeginWait \/ EndWait \/ UncoverLater
    \/ StartTv \/ Request \/ ScreenColorChange
    \/ \E bad \in DecoderCalls :
         Refuse(bad) /\ (SignalStable(bad) \/ SignalNotStable(bad))
    \/ \E bad \in PortCalls :
         Refuse(bad) /\ (SwitchSource(bad) \/ PlayAtv(bad) \/ AutoScan(bad) \/ ManualScan(bad))
    \/ \E bad \in StopCalls :
         /\ Refuse(bad)
         /\ TuneAtv(bad) \/ TuneDtv(bad) \/ StopScan(bad) \/ StopTv(bad) \/ SetVrr(bad)

Spec == Init /\ [][Next]_vars

-----------------------------------------------------------------------------
(* Properties. *)

TypeOK ==
    /\ cfg \in AllConfigs
    /\ s \in [v : VdinType, source : Sources, started : BOOLEAN, inVdin : BOOLEAN,
              playing : BOOLEAN, scanning : BOOLEAN, status : Statuses, told : Statuses,
              vrr : BOOLEAN, block : Blocks, channel : Blocks, enabled : BOOLEAN,
              layer : BOOLEAN, cache : BOOLEAN, cover : BOOLEAN]
    /\ signal \in Statuses /\ edge \in BOOLEAN
    /\ later \in 0..MaxMessages
    /\ msg \in {"idle", "waiting", "cover", "show"}
    /\ refused \subseteq Refusals /\ missed \in BOOLEAN

\* The decoder never runs without the resources that other processes have to
\* leave to it, although every switch of the port asks for AMVIDEO and gives it
\* back: only a decoder that did not stop when it was told to loses them.  And
\* nothing is kept without need: not the decoder's resources without the decoder,
\* not the PLL without an analog port.  The code keeps AMVIDEO, and the device its
\* port, when a request is refused on the way.
ResourcesFollow ==
    /\ s.v.decoding /\ "STOP" \notin refused => DecoderResources \subseteq s.v.held
    /\ "CODEC_MM" \in s.v.held => s.v.started
    /\ "AMVIDEO" \in s.v.held => s.v.started \/ "CODEC_MM" \in refused
    /\ "ADC_PLL" \in s.v.held => s.v.opened /\ Analog(s.v.port)
    /\ s.v.device # "none" => s.v.opened \/ "ADC_PLL" \in refused

\* A source of vdin is watched, and everything reported of it has been answered.
Watched ==
    /\ ~edge /\ later = 0 /\ msg = "idle"
    /\ s.inVdin /\ ~s.scanning /\ refused = {}
    /\ s.source = "HDMI" \/ (s.source = "TV" /\ s.playing)

Visible == s.v.decoding /\ s.layer /\ ~s.cover

\* The decoder of a watched HDMI source runs exactly when its signal is stable,
\* whatever was switched, tuned, scanned or reported before, and the clients know
\* the signal; an unstable one is not told.
DecoderFollows ==
    Watched /\ s.source = "HDMI" =>
      /\ s.v.decoding <=> signal = "STABLE"
      /\ signal # "UNSTABLE" => s.told = signal

\* A watched source with a signal is seen: what hid the screen before, the end of
\* the TV, an unsupported signal or a channel that is tuned, does not last.
PictureShown == Watched /\ signal = "STABLE" => Visible

\* A locked channel is not seen once it is quiet: neither the reports of its
\* signal nor the message thread, which tests the lock and uncovers the picture
\* in two steps, undo a lock.  The code loses one that comes between these two
\* steps, and does not hide what a client says is being tuned, until it has
\* tested the lock again.
LockedHidden ==
    Watched /\ ~missed /\ LockedBySource(s) /\ signal = "STABLE" => ~Visible
=============================================================================
