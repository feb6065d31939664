------------------------------- MODULE MCParts -------------------------------
(* The parts on small instances; the service lists are those of MCScanList.  *)
(* The parts that do not move stay in one initial state.                     *)
EXTENDS Parts, MCScanList

MCThreads == {"t1", "t2"}

\* Settings: numbers of one byte, of two, and all ones; sources at both ends
\* of the mask, and two that are none.
MCNumbers == {<<1, 0, 0, 0>>, <<200, 1, 0, 0>>, <<255, 255, 255, 255>>}
MCLockable == {-1, 0, 31, 32}

\* The keys of the set: two addresses that differ in both words.
MCAddresses == {[low |-> 1, high |-> 2], [low |-> 3, high |-> 4]}
MCCodes == {[code |-> 1]}
MCKeys == {[key |-> "new"]}

\* Ports: one configuration that names ports in the order of the sources, and
\* one that does not.
Straight == "HDMI1" :> "TVIN_PORT_HDMI0" @@ "HDMI2" :> "TVIN_PORT_HDMI1"
              @@ "HDMI3" :> "TVIN_PORT_HDMI2" @@ "HDMI4" :> "TVIN_PORT_HDMI3"
Crossed == "HDMI1" :> "TVIN_PORT_HDMI2" @@ "HDMI2" :> "TVIN_PORT_HDMI0" @@ "HDMI3" :> "TVIN_PORT_HDMI1"
MCConfigs == {Straight, Crossed}

MCForeign == {<<>>, <<"decoder", "amvideo">>, <<"decoder", "ppmgr", "amvideo">>}

\* The modes of a display, and the signals they are set for.
Mode(lines, scan, freq) == [lines |-> lines, scan |-> scan, freq |-> freq]
Common == {Mode(480, "p", 60), Mode(576, "p", 50), Mode(720, "p", 50), Mode(720, "p", 60)}
            \cup {Mode(1080, "i", freq) : freq \in {50, 60}}
            \cup {Mode(1080, "p", freq) : freq \in {24, 25, 50, 60}}
MCSinks == {[kind |-> "tx", modes |-> Common],
            [kind |-> "tx", modes |-> Common \cup {Mode(2160, "p", freq) : freq \in {24, 30, 50}}],
            [kind |-> "tx", modes |-> {Mode(1080, "p", 50), Mode(720, "p", 60), Mode(480, "i", 60)}],
            [kind |-> "lvds", modes |-> {Mode(2160, "p", 50), Mode(1080, "p", 60), Mode(2160, "p", 48)}],
            [kind |-> "out", modes |-> {Mode(576, "i", 50)}]}
MCFps == {23, 24, 25, 30, 49, 50, 51, 59, 60, 61, 100, 120}
MCFormats == {<<"CVBS", name, "i", 50>> : name \in {"PAL_I", "NTSC_50", "PAL_CN", "SECAM"}}
               \cup {<<"CVBS", name, "i", 60>> : name \in {"PAL_60", "PAL_M", "NTSC_M", "NTSC_443"}}
               \cup {<<"COMP", "1080", "i", freq>> : freq \in {48, 50, 60}}
               \cup {<<"COMP", "1080", "p", freq>> : freq \in {24, 25, 30, 50, 60}}
               \cup {<<"COMP", "720", "p", freq>> : freq \in {50, 60}}
               \cup {<<"COMP", "480", "i", 60>>, <<"COMP", "576", "i", 50>>, <<"COMP", "576", "p", 50>>}

\* A program live and from its record: one with pictures, and a radio one that
\* names a track twice.
Track(pid, fmt) == [pid |-> pid, fmt |-> fmt]
MCPrograms == {[video |-> Track(10, "H264"), tracks |-> <<Track(1, "AC3"), Track(2, "AAC_LATM")>>],
               [video |-> Nothing, tracks |-> <<Track(3, "MPEG"), Track(3, "MPEG"), Track(4, "AC4")>>]}

\* A client's record and the player's, with what else is told on the same queue.
Request(timeshift, video) == [timeshift |-> timeshift, path |-> "data", video |-> video, audio |-> TRUE]
MCPayloads == [SCAN |-> {1}, RRT |-> {1, 2}, EAS |-> {1}, TVIN_RES |-> {1}, SOURCE_VALID |-> {1}]
MCRequests == "r1" :> {Request(FALSE, TRUE), Request(FALSE, FALSE)} @@ "timeshifting" :> {Request(TRUE, TRUE)}

\* Alerts, sections with and without each part.
Cea(id, codes, locations, exceptions, texts, descriptors) ==
    [id |-> id, codes |-> codes, locations |-> locations, exceptions |-> exceptions,
     texts |-> texts, descriptors |-> descriptors]
Dimension(name, values) == [name |-> name, values |-> values]
MCSections == {<<Cea(1, <<5, 6>>, <<7>>, <<>>, <<<<8>>>>, <<<<9, 10>>>>)>>,
               <<Cea(2, <<11>>, <<12, 13>>, <<14>>, <<<<>>>>, <<>>), Cea(9, <<>>, <<>>, <<>>, <<>>, <<>>)>>,
               <<Cea(3, <<>>, <<>>, <<15, 16>>, <<>>, <<<<17>>>>)>>,
               <<Cea(4, <<18>>, <<>>, <<>>, <<<<19>>, <<20, 21>>>>, <<<<22>>, <<>>>>)>>}
MCRegions == {<<[region |-> 1, dimensions |-> <<Dimension("MPAA", <<0, 1, 2>>), Dimension("TV", <<0>>)>>]>>,
              <<[region |-> 1, dimensions |-> <<Dimension("MPAA", <<0, 3>>)>>],
                [region |-> 5, dimensions |-> <<Dimension("MPAA", <<0, 4, 5>>), Dimension("X", <<0, 1>>)>>]>>}

MCFailures == [keydata |-> {"write", "read"}, pip |-> {"open", "start"}, alerts |-> {"user", "mode"}]
MCBounds == [settings |-> 2, keydata |-> 3, ports |-> 2, starts |-> 2, others |-> 3,
             pids |-> 4, tsplay |-> 3, reports |-> 3, pip |-> 3, changes |-> 5, events |-> 3, recording |-> 4,
             slots |-> 2, alerts |-> 4, streams |-> 2, data |-> 3, lcn |-> 4]

-----------------------------------------------------------------------------
\* PartsInit, with the parts that do not move in one state, and of the cables and
\* the keys' configurations some.
MCInit ==
    /\ part \in {"list", "settings", "ports", "path", "display", "alerts", "parcel", "tsplay",
                 "pip", "recording", "keydata"}
    /\ Init
    /\ part # "list" => [air |-> air, set |-> set] = CHOOSE scan \in Scans : TRUE
    /\ Setting!Init
    /\ part # "settings" => fill = 0
    /\ Port!Init
    /\ (hdmi = {}) = (avin[1] = "IN")
    /\ part # "ports" => map = Port!SourceInputToPortMap(Straight) /\ hdmi = {}
    /\ Path!Init
    /\ part # "path" => conf = {} /\ paths["default"] = <<>>
    /\ Display!Init
    /\ part # "display" => sink.kind = "out" /\ priority
    /\ Alert!Init
    /\ Parcel!Init
    /\ part # "parcel" => event = "VGA"
    /\ Player!Init
    /\ Second!Init
    /\ part # "pip" => device.present /\ ~running
    /\ Recorder!Init
    /\ Key!Init
    /\ keycfg.startWork # keycfg.demo /\ (keycfg.hdcp \/ keyfile = Nothing)
    /\ part # "keydata" => keyfile = Nothing /\ keycfg = [startWork |-> TRUE, hdcp |-> TRUE, demo |-> FALSE]

MCSpec == MCInit /\ [][PartsNext]_partsVars
=============================================================================
