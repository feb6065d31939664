-------------------------------- MODULE Parts --------------------------------
(***************************************************************************)
(* Eleven parts of the service that share no state: each keeps its own     *)
(* variables, and a behaviour is one of one part, while the others stay as *)
(* they are when the set starts.  The service lists are those of ScanList. *)
(***************************************************************************)
EXTENDS ScanList

CONSTANTS Threads,                  \* binder threads
          Numbers, Lockable, Fills, \* Settings; Sources
          Addresses, Codes, Keys,   \* KeyData; HdcpKeys
          Configs, Cables, Askable, \* Ports
          Foreign,                  \* VideoPath
          Sinks, Fps, Formats,      \* DisplayMode
          Programs, Times, States,  \* TsPlay; NotifyStates
          PipSources, Fmts,         \* Pip
          Payloads, Requests,       \* Recording and its Events
          Sections, Regions,        \* Alerts
          Failures,                 \* of a part, by its name: what may fail
          Bounds                    \* of a part, by its name: how much of it

VARIABLE part   \* the part that moves

VARIABLES ssm, fill, mask, setting, enabled, saving, saved, locks, crossed, saves
settings == <<ssm, fill, mask, setting, enabled, saving, saved, locks, crossed, saves>>

Setting == INSTANCE Settings WITH
    Sources <- Lockable, MaxCalls <- Bounds.settings, todo <- saving, told <- saved, calls <- saves

\* Four bytes each.
Words == [1..4 -> 0..255]
ASSUME SettingsAssumption == Numbers \subseteq Words /\ Fills \subseteq 0..255 /\ Setting!Restorer \notin Threads

VARIABLES keycfg, keys, selected, keyfile, receiver, keyop, address, turnOn, worker, eth, kept, handed,
          strayed, unheard, keycalls
keydata == <<keycfg, keys, selected, keyfile, receiver, keyop, address, turnOn, worker, eth, kept, handed,
             strayed, unheard, keycalls>>

Key == INSTANCE KeyData WITH
    HdcpKeys <- Keys, Failing <- Failures.keydata, MaxCalls <- Bounds.keydata,
    None <- Nothing, cfg <- keycfg, file <- keyfile, op <- keyop, calls <- keycalls

ASSUME KeysAssumption == \A v \in Addresses : v = [low |-> v.low, high |-> v.high]

VARIABLES map, hdmi, avin, edges, started, hdmiKnown, avinKnown, handling, connected, untold, plugs
ports == <<map, hdmi, avin, edges, started, hdmiKnown, avinKnown, handling, connected, untold, plugs>>

Port == INSTANCE Ports WITH MaxPlugs <- Bounds.ports, told <- connected

\* A configuration may leave out HDMI inputs, gives no two sources the same port
\* and the AV inputs none of HDMI; SPDIF is no picture's source.
ASSUME PortsAssumption ==
    /\ Cables \subseteq 1..4
    /\ \A config \in Configs :
      LET to == Port!SourceInputToPortMap(config) IN
      /\ \A s \in {"TV", "AV1", "AV2", "YPBPR1", "YPBPR2", "VGA"} : to[s] # "TVIN_PORT_NULL"
      /\ \A s, t \in DOMAIN to \ {"SPDIF"} : to[s] = to[t] /\ to[s] # "TVIN_PORT_NULL" => s = t
      /\ \A s \in Port!AvSources, n \in 1..4 : to[s] # Port!HdmiPorts[n]

VARIABLES conf, paths, active, held, building, refused, whole, starts, others
path == <<conf, paths, active, held, building, refused, whole, starts, others>>

Path == INSTANCE VideoPath WITH MaxStarts <- Bounds.starts, MaxOthers <- Bounds.others, todo <- building

\* Other processes build no path of their own that the test for a whole one takes
\* for whole: Tvin_CheckVideoPathComplete looks for these modules by name only.
ASSUME PathAssumption == \A p \in Foreign : ~({"decoder", "deinterlace", "ppmgr"} \subseteq ToSet(p))

VARIABLES sink, mode, priority, was, need, given
display == <<sink, mode, priority, was, need, given>>

Display == INSTANCE DisplayMode WITH NoMode <- Nothing

Modes == [lines : Nat, scan : {"p", "i"}, freq : Nat]

ASSUME SinksAssumption == \A s \in Sinks : s.modes \subseteq Modes /\ IsFiniteSet(s.modes)
ASSUME FpsAssumption == Fps \subseteq Nat

\* The formats of the receivers for CVBS and component signals (tvin_sig_fmt_t).
ASSUME FormatsAssumption ==
    \A f \in Formats : f[1] # "HDMI" =>
      f \in {"CVBS"} \X {"PAL_I", "NTSC_50", "PAL_CN", "SECAM"} \X {"i"} \X {50}
            \cup {"CVBS"} \X {"PAL_60", "PAL_M", "NTSC_M", "NTSC_443"} \X {"i"} \X {60}
            \cup {"COMP"} \X {"576", "1080"} \X {"p", "i"} \X {50}
            \cup {<<"COMP", "720", "p", 50>>, <<"COMP", "1080", "p", 24>>, <<"COMP", "1080", "p", 25>>}
            \cup {"COMP"} \X {"480", "720", "1080"} \X {"p", "i"} \X {30, 47, 48, 59, 60}

VARIABLES watched, how, fields, decoder, playback, posted, viewer, decoded, commands, reports
tsplay == <<watched, how, fields, decoder, playback, posted, viewer, decoded, commands, reports>>

Player == INSTANCE TsPlay WITH
    NotifyStates <- States, Overlap <- FALSE,
    MaxPids <- Bounds.pids, MaxCalls <- Bounds.tsplay, MaxEvents <- Bounds.reports, None <- Nothing,
    program <- watched, mode <- how, av <- fields, ts <- decoder, dvr <- playback,
    queue <- posted, client <- viewer, seen <- decoded, calls <- commands, events <- reports

\* Every stream of a program has a pid of its own, and all have entries in the
\* record's table (DVR_MAX_RECORD_PIDS_COUNT); libdvr notifies no time of what
\* it has stopped.
ASSUME PlayerAssumption ==
    /\ Nothing \notin Programs /\ Bounds.pids \in Nat
    /\ \A p \in Programs :
          /\ \E n \in 1 .. Bounds.pids - 1 : DOMAIN p.tracks = 1..n
          /\ \A i, j \in DOMAIN p.tracks : p.tracks[i].pid = p.tracks[j].pid => p.tracks[i] = p.tracks[j]
    /\ Times \subseteq Nat /\ States \subseteq {"START", "PAUSE", "FF", "FB"}

VARIABLES asked, running, tvin2, signal, device, opened, polling, pending, looking, shown, refusals,
          switches, changes
pip == <<asked, running, tvin2, signal, device, opened, polling, pending, looking, shown, refusals,
         switches, changes>>

Second == INSTANCE Pip WITH
    Sources <- PipSources, Failing <- Failures.pip,
    Overlap <- FALSE, MaxCalls <- Bounds.pip, MaxChanges <- Bounds.changes, None <- Nothing,
    source <- asked, started <- running, param <- tvin2, sig <- signal, vdin2 <- device, fd <- opened,
    polled <- polling, edge <- pending, reading <- looking, told <- shown, failed <- refusals,
    calls <- switches

\* The driver stops the decoder when it is told to, and says what signal it has.
ASSUME PipAssumption == "stop" \notin Failures.pip /\ "info" \notin Failures.pip

VARIABLES written, waiting, infos, reported, heard, recorders, records, orders
recording == <<written, waiting, infos, reported, heard, recorders, records, orders>>

Recorder == INSTANCE Recording WITH
    MaxEvents <- Bounds.events, MaxCalls <- Bounds.recording, None <- Nothing,
    buffer <- written, queue <- waiting, told <- heard, rec <- recorders, dvr <- records, calls <- orders

\* A recorder is for records or for timeshift, whatever else is asked of it: the
\* player names its own, for timeshift, and a client names the others.
ASSUME RecordingAssumption ==
    /\ "timeshifting" \in DOMAIN Requests
    /\ \A id \in DOMAIN Requests : \A a, b \in Requests[id] :
          a.timeshift \in BOOLEAN /\ a.video \in BOOLEAN /\ a.audio \in BOOLEAN /\ a.timeshift = b.timeshift

VARIABLES refs, closed, dmx, handle, alert, words, sent, rated, listed, tunes
alerts == <<refs, closed, dmx, handle, alert, words, sent, rated, listed, tunes>>

Alert == INSTANCE Alerts WITH
    Failing <- Failures.alerts, Slots <- Bounds.slots, MaxCalls <- Bounds.alerts,
    event <- alert, told <- words, calls <- tunes

\* Where demux 2 can be opened and an EPG handle made; an alert's lists fit in the
\* event's arrays, and a rating region is told of a dimension once in a list.
IsList(x) == Len(x) \in Nat /\ x = [i \in 1..Len(x) |-> x[i]]
ASSUME AlertsAssumption ==
    /\ "open" \notin Failures.alerts /\ "create" \notin Failures.alerts
    /\ Bounds.slots \in Nat
    /\ \A list \in Sections :
          /\ \A entries \in {Head(list).codes, Head(list).locations, Head(list).exceptions} :
                IsList(entries) /\ Len(entries) <= Bounds.slots
          /\ IsList(Head(list).texts) /\ IsList(Head(list).descriptors)
    /\ \A list \in Regions : \A m, n \in DOMAIN list :
          \A c \in DOMAIN list[m].dimensions, d \in DOMAIN list[n].dimensions :
            list[m].region = list[n].region /\ list[m].dimensions[c].name = list[n].dimensions[d].name
              => m = n /\ c = d

VARIABLES event, audios, subtitles, ints, strings, done
parcel == <<event, audios, subtitles, ints, strings, done>>

Parcel == INSTANCE EventParcel WITH
    MaxStreams <- Bounds.streams, MaxData <- Bounds.data, MaxLcn <- Bounds.lcn, Unset <- Nothing,
    a <- audios, s <- subtitles

-----------------------------------------------------------------------------
PartsInit ==
    /\ part \in {"list", "settings", "ports", "path", "display", "alerts", "parcel", "tsplay",
                 "pip", "recording", "keydata"}
    /\ Init /\ Setting!Init /\ Key!Init /\ Port!Init /\ Path!Init /\ Display!Init /\ Player!Init
    /\ Second!Init /\ Recorder!Init /\ Alert!Init /\ Parcel!Init

PartsNext ==
    /\ UNCHANGED part
    /\ \/ part = "list" /\ Next
          /\ UNCHANGED <<settings, ports, path, display, alerts, parcel, tsplay, pip, recording, keydata>>
       \/ part = "settings" /\ Setting!Next
          /\ UNCHANGED <<vars, ports, path, display, alerts, parcel, tsplay, pip, recording, keydata>>
       \/ part = "ports" /\ Port!Next
          /\ UNCHANGED <<vars, settings, path, display, alerts, parcel, tsplay, pip, recording, keydata>>
       \/ part = "path" /\ Path!Next
          /\ UNCHANGED <<vars, settings, ports, display, alerts, parcel, tsplay, pip, recording, keydata>>
       \/ part = "display" /\ Display!Next
          /\ UNCHANGED <<vars, settings, ports, path, alerts, parcel, tsplay, pip, recording, keydata>>
       \/ part = "alerts" /\ Alert!Next
          /\ UNCHANGED <<vars, settings, ports, path, display, parcel, tsplay, pip, recording, keydata>>
       \/ part = "parcel" /\ Parcel!Next
          /\ UNCHANGED <<vars, settings, ports, path, display, alerts, tsplay, pip, recording, keydata>>
       \/ part = "tsplay" /\ Player!Next
          /\ UNCHANGED <<vars, settings, ports, path, display, alerts, parcel, pip, recording, keydata>>
       \/ part = "pip" /\ Second!Next
          /\ UNCHANGED <<vars, settings, ports, path, display, alerts, parcel, tsplay, recording, keydata>>
       \/ part = "recording" /\ Recorder!Next
          /\ UNCHANGED <<vars, settings, ports, path, display, alerts, parcel, tsplay, pip, keydata>>
       \/ part = "keydata" /\ Key!Next
          /\ UNCHANGED <<vars, settings, ports, path, display, alerts, parcel, tsplay, pip, recording>>

partsVars == <<vars, settings, ports, path, display, alerts, parcel, tsplay, pip, recording, keydata, part>>

PartsSpec == PartsInit /\ [][PartsNext]_partsVars

-----------------------------------------------------------------------------
\* Numbers, locks and keys are read as they were saved, after a restart too,
\* and the address that was set last is the interface's.
SettingsKept ==
    /\ part = "settings" => Setting!SettingsKept
    /\ part = "keydata" => Key!KeysKept

\* Frames of the tuner and of DTV come to the screen, in a mode for their rate,
\* and the second picture is the one that was asked for.
OutputFits ==
    /\ part = "path" => Path!FramesComeThrough
    /\ part = "display" => Display!ModeFits
    /\ part = "pip" => Second!SecondPicture

\* Clients know what is plugged in, of every source, and get what an alert or a
\* region says, the sound and the record they asked for, what decoders and libdvr
\* report, and every event in the order of the reports.
ClientsTold ==
    /\ part = "ports" => Port!ConnectKnown
    /\ part = "alerts" => Alert!AlertsTold
    /\ part = "tsplay" => Player!SoundAsAsked /\ Player!PictureTold /\ Player!TimesTold
    /\ part = "recording" => Recorder!RecordAsAsked /\ Recorder!EventsTold /\ Recorder!RecordingsTold

\* An event crosses the binder with each of its fields in its place.
ParcelsInPlace == part = "parcel" => Parcel!FieldsInPlace
=============================================================================
