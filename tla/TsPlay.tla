------------------------------- MODULE TsPlay -------------------------------
(***************************************************************************)
(* What is heard of a DTV program and what clients are told of it: CAv     *)
(* over the ts player and libdvr's playback (CAv.cpp), the formats and     *)
(* times of CDTVTvPlayer (CTvPlayer.cpp) and CTvRecord (CTvRecord.cpp),    *)
(* and CTv::onEvent(AVEvent).  Who plays and records is Players'; here a   *)
(* player starts live, or from the record of its own recorder, and every   *)
(* call but the creation of a ts player succeeds.                          *)
(*                                                                         *)
(* The decoders call back on their own thread, and what that posts waits   *)
(* in the message queue.  A record is a track [pid, fmt].  Audio           *)
(* description, instance numbers and the positions of seek are left out.   *)
(***************************************************************************)
EXTENDS Integers, FiniteSetsExt, SequencesExt

CONSTANTS Programs,      \* [video, tracks]; video is None for a radio program
          Times,         \* times of libdvr
          NotifyStates,  \* the states that libdvr notifies times in
          Overlap,       \* whether decoders call back while StartTS runs, and
                         \* commands come before what they reported is told
          MaxPids,       \* DVR_MAX_RECORD_PIDS_COUNT; enough for every program
          MaxCalls, MaxEvents, None

VARIABLES program, mode,  \* CDTVTvPlayer: what it plays, and mMode
          av,             \* fields of CAv
          ts,             \* the ts player of CAv::mSession
          dvr,            \* libdvr's record and playback
          queue,          \* the AVEvents that wait for the message thread
          client,         \* what clients asked for last, and were told
          seen,           \* what decoders made of the program, by their reports
          calls, events   \* so far
vars == <<program, mode, av, ts, dvr, queue, client, seen, calls, events>>

-----------------------------------------------------------------------------
(* Formats. *)

\* toTsPlayerVideoFormat, toTsPlayerAudioFormat.
TsVideo(fmt) ==
    CASE fmt = "MPEG12" -> "MPEG2"
      [] fmt \in {"H264", "H264MVC"} -> "H264"
      [] fmt = "HEVC" -> "H265"
      [] fmt \in {"AVS", "AVS2"} -> "AVS"
      [] fmt \in {"MPEG4", "VP9"} -> fmt
      [] OTHER -> "AUTO"

TsAudio(fmt) ==
    CASE fmt = "MPEG" -> "MP2"
      [] fmt = "AAC_LATM" -> "LATM"
      [] fmt \in {"AAC", "AC3", "DTS", "EAC3", "DRA", "AC4"} -> fmt
      [] OTHER -> "AUTO"

\* toDvrVideoFormat of CDTVTvPlayer.
DvrVideo(fmt) ==
    CASE fmt = "MPEG12" -> "MPEG1"
      [] fmt \in {"H264", "H264MVC"} -> "H264"
      [] fmt \in {"HEVC", "VP9"} -> fmt
      [] OTHER -> "MPEG2"

\* toDvrVideoFormat of CTvRecord, a table of its own with the same entries.
RecordVideo(fmt) == DvrVideo(fmt)

\* Faulty variant of toDvrAudioFormat: LATM is one with AAC.
DvrAudio_NoLatm(fmt) ==
    CASE fmt \in {"EAC3", "AC3", "DTS", "AAC"} -> fmt
      [] fmt = "AAC_LATM" -> "AAC"
      [] OTHER -> "MPEG"

\* toDvrAudioFormat of CDTVTvPlayer and CTvRecord; CAv's knows AC4, too.
Pcm == {"PCM_S16LE", "PCM_S16BE", "PCM_BLURAY", "ALAW", "MULAW", "PCM_U8", "ADPCM"}
DvrAudio(fmt) ==
    CASE fmt \in {"EAC3", "AC3", "DTS", "AAC"} -> fmt
      [] fmt = "AAC_LATM" -> "LATM"
      [] fmt \in Pcm -> "PCM"
      [] OTHER -> "MPEG"
AvAudio(fmt) == IF fmt = "AC4" THEN fmt ELSE DvrAudio(fmt)

\* What libdvr decodes a format with.
DecoderOf(fmt) == CASE fmt = "MPEG" -> "MP2" [] fmt = "HEVC" -> "H265" [] OTHER -> fmt

\* The output modes as CTv and as the ts player call them.
Modes == {"STEREO", "DUAL_LEFT", "DUAL_RIGHT", "SWAP"}
SetOutputMode(m) == CASE m = "DUAL_LEFT" -> "LEFT" [] m = "DUAL_RIGHT" -> "RIGHT" [] OTHER -> m
GetOutputMode(m) == CASE m = "LEFT" -> "DUAL_LEFT" [] m = "RIGHT" -> "DUAL_RIGHT" [] OTHER -> m

-----------------------------------------------------------------------------
(* The record: the streams that the timeshift recorder writes                *)
(* (setupDefault), in a table of MaxPids entries; the chosen track is not    *)
(* written twice.                                                            *)

Stream(pid, kind, fmt) == [pid |-> pid, kind |-> kind, fmt |-> fmt]

Pictures(p) == IF p.video = None THEN {} ELSE {Stream(p.video.pid, "video", RecordVideo(p.video.fmt))}
Sound(t) == Stream(t.pid, "audio", DvrAudio(t.fmt))

\* Faulty variant: only the track that is heard first is recorded.
Recorded_First(p) == Pictures(p) \cup {Sound(p.tracks[1])}

Recorded(p) ==
    LET others == {i \in DOMAIN p.tracks : p.tracks[i].pid # p.tracks[1].pid}
        entry(i) == Cardinality(Pictures(p)) + 1 + Cardinality({j \in others : j <= i})
    IN  Pictures(p) \cup {Sound(p.tracks[1])}
          \cup {Sound(p.tracks[i]) : i \in {i \in others : entry(i) <= MaxPids}}

-----------------------------------------------------------------------------
(* The ts player. *)

Nobody == [kind |-> "none", video |-> None, sound |-> None, muted |-> FALSE, output |-> "STEREO"]
NoPlayback == [open |-> FALSE, video |-> None, audio |-> None, state |-> "STOP", obsolete |-> 0]

Init ==
    /\ program = None /\ mode = "LIVE"
    /\ av = [shift |-> FALSE, starting |-> FALSE, mute |-> FALSE, supported |-> TRUE, lost |-> 0,
             start |-> -1, status |-> 0]
    /\ ts = Nobody
    /\ dvr = [record |-> {}, playback |-> NoPlayback, number |-> 0]
    /\ queue = <<>>
    /\ client = [track |-> None, mute |-> FALSE, output |-> "STEREO",
                 picture |-> "none", start |-> <<0, 0>>, now |-> <<0, 0>>]
    /\ seen = [picture |-> "none", refused |-> FALSE, losses |-> 0]
    /\ calls = 0 /\ events = 0

Called ==
    /\ calls < MaxCalls /\ ~av.starting /\ (Overlap \/ queue = <<>>)
    /\ calls' = calls + 1 /\ UNCHANGED <<queue, events>>
Unplayed == UNCHANGED <<program, mode, seen>>

\* StartTS up to the start of the video: the callback is registered, and the
\* client's last word on the audio is the first track.
StartTS(p) ==
    /\ ts' = [Nobody EXCEPT !.kind = "demod",
                            !.video = IF p.video = None THEN None ELSE TsVideo(p.video.fmt)]
    /\ av' = [av EXCEPT !.shift = FALSE, !.starting = TRUE, !.lost = 0]

\* Faulty variant: the mute is left to the next call of AudioSetMute.
FinishStart_NoMute ==
    /\ av.starting
    /\ ts' = [ts EXCEPT !.sound = [pid |-> client.track.pid, codec |-> TsAudio(client.track.fmt)]]
    /\ av' = [av EXCEPT !.starting = FALSE, !.supported = TRUE]
    /\ seen' = [seen EXCEPT !.refused = FALSE]
    /\ UNCHANGED <<program, mode, dvr, queue, client, calls, events>>

\* The rest of it.
FinishStart ==
    /\ av.starting
    /\ ts' = [ts EXCEPT !.muted = av.mute,
                        !.sound = [pid |-> client.track.pid, codec |-> TsAudio(client.track.fmt)]]
    /\ av' = [av EXCEPT !.starting = FALSE, !.supported = TRUE]
    /\ seen' = [seen EXCEPT !.refused = FALSE]
    /\ UNCHANGED <<program, mode, dvr, queue, client, calls, events>>

\* Faulty variant: the last start time is remembered.
StartTimeShift_KeepTime(p) ==
    /\ ts' = [Nobody EXCEPT !.kind = "memory"]
    /\ av' = [av EXCEPT !.shift = TRUE, !.lost = 0]
    /\ dvr' = [record |-> Recorded(p), number |-> dvr.number + 1,
               playback |-> [open |-> TRUE, state |-> "START", obsolete |-> 0,
                             video |-> IF p.video = None THEN None ELSE DvrVideo(p.video.fmt),
                             audio |-> [pid |-> p.tracks[1].pid, fmt |-> DvrAudio(p.tracks[1].fmt)]]]

\* startTimeShift, of a program that the recorder records.
StartTimeShift(p) ==
    /\ ts' = [Nobody EXCEPT !.kind = "memory"]
    /\ av' = [av EXCEPT !.shift = TRUE, !.lost = 0, !.start = -1]
    /\ dvr' = [record |-> Recorded(p), number |-> dvr.number + 1,
               playback |-> [open |-> TRUE, state |-> "START", obsolete |-> 0,
                             video |-> IF p.video = None THEN None ELSE DvrVideo(p.video.fmt),
                             audio |-> [pid |-> p.tracks[1].pid, fmt |-> DvrAudio(p.tracks[1].fmt)]]]

-----------------------------------------------------------------------------
(* Commands.  A program starts from its record where timeshift is enabled,   *)
(* else live, as it does on the way back from timeshift (mode TIMESHIFT) and *)
(* where there is no ts player to inject into.                               *)

Start(p, asked, way) ==
    /\ Called /\ program' = p
    /\ client' = [client EXCEPT !.track = p.tracks[1], !.output = "STEREO", !.picture = "none"]
    /\ seen' = [seen EXCEPT !.picture = "none", !.losses = 0]
    /\ CASE way = "shift" -> StartTimeShift(p) /\ mode' = "TIMESHIFT"
         [] way = "live" ->
              /\ StartTS(p) /\ mode' = IF asked = "LIVE" THEN "PLAIN" ELSE "LIVE"
              /\ dvr' = [dvr EXCEPT !.playback = NoPlayback, !.record = {}]
         [] way = "nothing" ->
              /\ ts' = Nobody /\ av' = [av EXCEPT !.shift = FALSE]
              /\ mode' = IF asked = "LIVE" THEN "PLAIN" ELSE "LIVE"
              /\ dvr' = [dvr EXCEPT !.playback = NoPlayback, !.record = {}]

PlayStart == \E p \in Programs, way \in {"shift", "live", "nothing"} : Start(p, "LIVE", way)
BackToLive ==
    /\ program # None
    /\ \E way \in {"live", "nothing"} : Start(program, "TIMESHIFT", way)

PlayStop ==
    /\ Called /\ program # None
    /\ program' = None /\ ts' = Nobody
    /\ av' = [av EXCEPT !.shift = FALSE]
    /\ dvr' = [dvr EXCEPT !.playback = NoPlayback, !.record = {}]
    /\ UNCHANGED <<mode, client, seen>>

\* SwitchTSAudio; without a ts player it fails.
switchAudioTrack ==
    /\ Called /\ program # None /\ ts.kind # "none"
    /\ \E t \in ToSet(program.tracks) :
          /\ client' = [client EXCEPT !.track = t]
          /\ IF av.shift
             THEN dvr' = [dvr EXCEPT !.playback.audio = [pid |-> t.pid, fmt |-> AvAudio(t.fmt)]]
                    /\ UNCHANGED ts
             ELSE ts' = [ts EXCEPT !.sound = [pid |-> t.pid, codec |-> TsAudio(t.fmt)]]
                    /\ UNCHANGED dvr
    /\ UNCHANGED av /\ Unplayed

\* Faulty variant: without a ts player there is nothing to mute.
AudioSetMute_Session ==
    /\ Called
    /\ \E mute \in BOOLEAN :
          /\ client' = [client EXCEPT !.mute = mute]
          /\ IF ts.kind = "none" THEN UNCHANGED <<av, ts>>
             ELSE av' = [av EXCEPT !.mute = mute] /\ ts' = [ts EXCEPT !.muted = mute]
    /\ UNCHANGED dvr /\ Unplayed

AudioSetMute ==
    /\ Called
    /\ \E mute \in BOOLEAN :
          /\ client' = [client EXCEPT !.mute = mute]
          /\ av' = [av EXCEPT !.mute = mute]
          /\ ts' = [ts EXCEPT !.muted = ts.kind # "none" /\ mute]
    /\ UNCHANGED dvr /\ Unplayed

\* Without a ts player the call does nothing, and says it did.
setAudioChannel ==
    /\ Called /\ ts.kind # "none"
    /\ \E m \in Modes :
          /\ client' = [client EXCEPT !.output = m]
          /\ ts' = [ts EXCEPT !.output = SetOutputMode(m)]
    /\ UNCHANGED <<av, dvr>> /\ Unplayed

\* pausePlay, resumePlay and setPlayParam, while in timeshift.
Speed ==
    /\ Called /\ program # None /\ mode = "TIMESHIFT" /\ dvr.playback.open
    /\ \E state \in {"START", "PAUSE", "FF", "FB"} : dvr' = [dvr EXCEPT !.playback.state = state]
    /\ UNCHANGED <<av, ts, client>> /\ Unplayed

-----------------------------------------------------------------------------
(* What decoders report. *)

Reports == {"FIRST_FRAME", "FIRST_AUDIO", "UNSUPPORT", "DECODER_LOSS", "DATA_LOSS", "RESUME", "SCRAMBLING"}
First == {"FIRST_FRAME", "FIRST_AUDIO"}

Event(type, of) == [type |-> type, status |-> 0, time |-> 0, of |-> of]

\* Faulty variant: sound, too, is taken for a sign of good pictures.
Supported_Sound(report) == report # "UNSUPPORT"

\* mIsVideoSupport.
Supported(report) == report # "UNSUPPORT" /\ (report = "FIRST_AUDIO" => av.supported)

\* How many losses in a row are taken for a scrambled program.
Losses == 3

\* check_scramble_time after a report, with the frontend in a state.
Lost(n, report, fe) ==
    CASE report = "DECODER_LOSS" /\ fe = "locked" -> n + 1
      [] report = "DECODER_LOSS" /\ fe = "timedout" -> 0
      [] OTHER -> n

\* What is posted, after that many losses, of which some are this program's.
Posted(report, lost, losses) ==
    CASE report = "DECODER_LOSS" /\ lost >= Losses -> <<Event("SCAMBLED", <<losses>>)>>
      [] report = "SCRAMBLING" -> <<Event("SCAMBLED", <<>>)>>
      [] report = "DATA_LOSS" -> <<Event("STOP", <<>>)>>
      [] report \in {"RESUME", "UNSUPPORT"} -> <<Event(report, <<>>)>>
      [] report \in First /\ Supported(report) -> <<Event("VIDEO_AVAILABLE", <<>>)>>
      [] OTHER -> <<>>

\* What a report says of the picture: sound says nothing against a refusal.
Refused(report) == report = "UNSUPPORT" \/ (report = "FIRST_AUDIO" /\ seen.refused)
Picture(report) ==
    CASE report = "UNSUPPORT" -> "refused"
      [] report \in First \cup {"RESUME"} /\ ~Refused(report) -> "shown"
      [] OTHER -> seen.picture

\* av_evt_callback_tsplayer.
av_evt_callback ==
    /\ ts.kind # "none" /\ (Overlap \/ ~av.starting) /\ events < MaxEvents
    /\ \E report \in Reports, fe \in {"locked", "timedout", "other"} :
        LET lost == Lost(av.lost, report, fe)
            losses == Lost(seen.losses, report, fe)
        IN  /\ av' = [av EXCEPT !.supported = Supported(report),
                                !.lost = IF lost >= Losses THEN 0 ELSE lost]
            /\ queue' = queue \o Posted(report, lost, losses)
            /\ seen' = [picture |-> Picture(report), refused |-> Refused(report), losses |-> losses]
    /\ events' = events + 1
    /\ UNCHANGED <<program, mode, ts, dvr, client, calls>>

\* PlayEventHandler: data again, or the times.
DataResume ==
    /\ dvr.playback.open /\ events < MaxEvents
    /\ queue' = Append(queue, Event("VIDEO_AVAILABLE", <<>>))
    /\ seen' = [seen EXCEPT !.picture = "shown"]
    /\ events' = events + 1
    /\ UNCHANGED <<program, mode, av, ts, dvr, client, calls>>

Status(state) ==
    CASE state = "START" -> 1 [] state = "STOP" -> 0 [] state = "PAUSE" -> 2 [] OTHER -> 3

NotifyTime ==
    /\ dvr.playback.open /\ events < MaxEvents
    /\ \E obsolete \in {t \in Times : t >= dvr.playback.obsolete}, current \in Times,
          state \in NotifyStates \cap {dvr.playback.state, "STOP"} :
        LET of == <<dvr.number, obsolete>>
            told(type, time) == [type |-> type, status |-> Status(state), time |-> time, of |-> of]
        IN  /\ dvr' = [dvr EXCEPT !.playback.obsolete = obsolete]
            /\ av' = [av EXCEPT !.start = obsolete, !.status = Status(state)]
            /\ queue' = queue
                 \o (IF av.start = obsolete THEN <<>> ELSE <<told("STARTTIME_CHANGE", obsolete)>>)
                 \o <<told("CURTIME_CHANGE", current + obsolete)>>
    /\ events' = events + 1
    /\ UNCHANGED <<program, mode, ts, client, seen, calls>>

-----------------------------------------------------------------------------
(* CTv::onEvent(AVEvent) and CDTVTvPlayer::onPlayUpdate, on the message      *)
(* thread.  Times are lost while no player exists, and the end of the data   *)
(* is while one plays; a scrambled program is told of if clients called it   *)
(* that, and changes nothing here.                                           *)

Moving == 1 .. 3

Handle ==
    /\ queue # <<>>
    /\ LET ev == Head(queue)
           timed == program # None /\ ev.status \in Moving
       IN  client' =
             CASE ev.type \in {"VIDEO_AVAILABLE", "RESUME"} -> [client EXCEPT !.picture = "shown"]
               [] ev.type = "UNSUPPORT" -> [client EXCEPT !.picture = "refused"]
               [] ev.type = "STOP" /\ program = None -> [client EXCEPT !.picture = "none"]
               [] ev.type = "STARTTIME_CHANGE" /\ timed -> [client EXCEPT !.start = <<ev.of[1], ev.time>>]
               [] ev.type = "CURTIME_CHANGE" /\ timed -> [client EXCEPT !.now = ev.of]
               [] OTHER -> client
    /\ queue' = Tail(queue)
    /\ UNCHANGED <<program, mode, av, ts, dvr, seen, calls, events>>

Next ==
    \/ PlayStart \/ BackToLive \/ PlayStop \/ FinishStart
    \/ switchAudioTrack \/ AudioSetMute \/ setAudioChannel \/ Speed
    \/ av_evt_callback \/ DataResume \/ NotifyTime \/ Handle

Spec == Init /\ [][Next]_vars

-----------------------------------------------------------------------------
(* Properties. *)

\* Formats of which live and timeshift mean the same.
CarriedVideo == {"H264", "H264MVC", "HEVC", "VP9"}
CarriedAudio == {"MPEG", "AAC", "AAC_LATM", "AC3", "EAC3", "DTS"}

\* The sound is that of the track that was asked for last, decoded as what it
\* is.  Live it is muted if clients said so, before this program or since; in
\* timeshift it was recorded, as what it is played as (but for AC4, of which
\* CTvRecord has no format).
SoundAsAsked ==
    /\ ts.kind = "demod" /\ ~av.starting =>
          /\ ts.sound = [pid |-> client.track.pid, codec |-> TsAudio(client.track.fmt)]
          /\ ts.muted = client.mute
          /\ GetOutputMode(ts.output) = client.output
    /\ av.shift =>
          LET heard == dvr.playback.audio
          IN  /\ heard.pid = client.track.pid
              /\ client.track.fmt \in CarriedAudio => DecoderOf(heard.fmt) = TsAudio(client.track.fmt)
              /\ client.track.fmt # "AC4" => Stream(heard.pid, "audio", heard.fmt) \in dvr.record
              /\ program.video # None /\ program.video.fmt \in CarriedVideo =>
                    DecoderOf(dvr.playback.video) = TsVideo(program.video.fmt)

\* What clients believe of the picture is what decoders made of it, once all is
\* told; and a program is called scrambled for its own losses only.
PictureTold ==
    /\ program # None /\ queue = <<>> /\ ~av.starting => client.picture = seen.picture
    /\ \A ev \in Range(queue) : ev.type = "SCAMBLED" /\ ev.of # <<>> => ev.of[1] >= Losses

\* A client that is told how far a record has played knows where it starts now.
TimesTold == client.now[1] = dvr.number /\ queue = <<>> => client.now = client.start
=============================================================================
