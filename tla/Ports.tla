-------------------------------- MODULE Ports --------------------------------
(***************************************************************************)
(* Which port a source is on, and who learns that something was plugged in *)
(* (CTvin.cpp, Tvin_LoadSourceInputToPortMap and the conversions;          *)
(* CDevicesPollStatusDetect.cpp).                                          *)
(*                                                                         *)
(* The poll thread compares what a device says with what it said last, and *)
(* tells the sources that differ.  A client that asks for one source reads *)
(* the device too, on its own thread and whenever it likes, and what it    *)
(* reads becomes what the poll thread remembers: of a change that it finds *)
(* there of another source nobody is told.                                 *)
(***************************************************************************)
EXTENDS Integers, FiniteSets, Sequences

CONSTANTS Configs,  \* the ports that a configuration may name for sources
          Cables,   \* the HDMI ports where somebody plugs, of 1..4
          Askable,  \* the sources that clients ask for
          MaxPlugs  \* how often somebody plugs something in or out

HdmiSources == <<"HDMI1", "HDMI2", "HDMI3", "HDMI4">>
AvSources == {"AV1", "AV2"}
HdmiPorts == <<"TVIN_PORT_HDMI0", "TVIN_PORT_HDMI1", "TVIN_PORT_HDMI2", "TVIN_PORT_HDMI3">>

\* tv_source_input_t in its order.
Sources == <<"TV", "AV1", "AV2", "YPBPR1", "YPBPR2", "HDMI1", "HDMI2", "HDMI3", "HDMI4", "VGA",
             "MPEG", "DTV", "SVIDEO", "IPTV", "DUMMY", "SPDIF">>

\* Tvin_TransPortStringToValue
Named == {"TVIN_PORT_CVBS0", "TVIN_PORT_CVBS1", "TVIN_PORT_CVBS2", "TVIN_PORT_CVBS3",
          "TVIN_PORT_COMP0", "TVIN_PORT_COMP1", "TVIN_PORT_VGA0",
          "TVIN_PORT_HDMI0", "TVIN_PORT_HDMI1", "TVIN_PORT_HDMI2", "TVIN_PORT_HDMI3"}
PortOfString(str) == IF str \in Named THEN str ELSE "TVIN_PORT_NULL"

\* Where the configuration is silent.
Defaults ==
    [TV |-> "TVIN_PORT_CVBS3", AV1 |-> "TVIN_PORT_CVBS1", AV2 |-> "TVIN_PORT_CVBS2",
     YPBPR1 |-> "TVIN_PORT_COMP0", YPBPR2 |-> "TVIN_PORT_COMP1", VGA |-> "TVIN_PORT_VGA0",
     HDMI1 |-> "", HDMI2 |-> "", HDMI3 |-> "", HDMI4 |-> ""]

Fixed == [MPEG |-> "TVIN_PORT_MPEG0", DTV |-> "TVIN_PORT_DTV", IPTV |-> "TVIN_PORT_BT656",
          SPDIF |-> "TVIN_PORT_CVBS3", SVIDEO |-> "TVIN_PORT_NULL", DUMMY |-> "TVIN_PORT_NULL"]

\* Tvin_LoadSourceInputToPortMap
SourceInputToPortMap(config) ==
    [s \in DOMAIN Fixed \cup DOMAIN Defaults |->
       IF s \in DOMAIN Fixed THEN Fixed[s]
       ELSE PortOfString(IF s \in DOMAIN config THEN config[s] ELSE Defaults[s])]

-----------------------------------------------------------------------------
VARIABLES map,       \* mSourceInputToPortMap
          hdmi,      \* the ports with a cable's power
          avin,      \* the status of both AV channels
          edges,     \* devices that epoll has to report
          started,   \* the thread has read the devices for the first time
          hdmiKnown, \* m_hdmi_status
          avinKnown, \* m_avin_status
          handling,  \* the device that the thread has read, or none, and what it read
          told,      \* what a client was told last of a source
          untold,    \* history: the ports and channels of which a change was remembered for
                     \* another's question, or when the thread began, and told nobody, or
                     \* answered and not remembered
          plugs      \* how often somebody plugged
vars == <<map, hdmi, avin, edges, started, hdmiKnown, avinKnown, handling, told, untold, plugs>>

NoSource == "MAX"
Nobody == [device |-> "none", read |-> {}]

\* Tvin_PortToSourceInput: the first of the sources.
PortToSourceInput(port) ==
    LET on == {n \in DOMAIN Sources : map[Sources[n]] = port}
    IN  IF on = {} THEN NoSource ELSE Sources[CHOOSE n \in on : \A o \in on : n <= o]

\* Tvin_GetHdmiPortIDBySourceInput: 5 is HDMI_PORT_MAX.
HdmiPortID(s) ==
    IF \E n \in 1..4 : map[s] = HdmiPorts[n] THEN CHOOSE n \in 1..4 : map[s] = HdmiPorts[n] ELSE 5

\* Tvin_SourceInputToSourceInputType
Type(s) ==
    CASE s \in {"TV", "VGA", "DTV", "IPTV", "SPDIF"} -> s
      [] s \in AvSources -> "AV"
      [] s \in {"YPBPR1", "YPBPR2"} -> "COMPONENT"
      [] s \in {"HDMI1", "HDMI2", "HDMI3", "HDMI4"} -> "HDMI"
      [] OTHER -> "MPEG"

\* Tvin_GetSourcePortBySourceType: that of its first source.
PortOfType(type) ==
    map[CASE type = "AV" -> "AV1" [] type = "COMPONENT" -> "YPBPR1" [] type = "HDMI" -> "HDMI1" [] OTHER -> type]

\* SourceInputMaptoChipHdmiPort: the bit of a port, that of the first where it is on none.
ChipHdmiPort(s) ==
    IF \E n \in 1..4 : map[s] = HdmiPorts[n] THEN CHOOSE n \in 1..4 : map[s] = HdmiPorts[n] ELSE 1

\* Faulty variant: the source of the same number is taken for that of the port.
ChipHdmiPortMaptoSourceInput_Plain(bit) == HdmiSources[bit]

ChipHdmiPortMaptoSourceInput(bit) == PortToSourceInput(HdmiPorts[bit])

-----------------------------------------------------------------------------
Init ==
    /\ \E config \in Configs : map = SourceInputToPortMap(config)
    /\ hdmi \in {{}, {1, 3}} /\ avin \in {<<"IN", "OUT">>, <<"OUT", "UNKNOWN">>}
    /\ edges = {} /\ started = FALSE
    /\ hdmiKnown = {} /\ avinKnown = <<"IN", "IN">>
    /\ handling = Nobody /\ told = <<>> /\ plugs = 0
    /\ untold = [hdmi |-> {}, avin |-> {}]

\* Somebody plugs in or out (external); epoll reports an edge.
PlugHdmi(bit) ==
    /\ plugs < MaxPlugs /\ plugs' = plugs + 1
    /\ hdmi' = (IF bit \in hdmi THEN hdmi \ {bit} ELSE hdmi \cup {bit})
    /\ edges' = edges \cup {"hdmi"}
    /\ UNCHANGED <<map, avin, started, hdmiKnown, avinKnown, handling, told, untold>>

PlugAv(n, status) ==
    /\ plugs < MaxPlugs /\ plugs' = plugs + 1
    /\ avin[n] # status /\ avin' = [avin EXCEPT ![n] = status]
    /\ edges' = edges \cup {"avin"}
    /\ UNCHANGED <<map, hdmi, started, hdmiKnown, avinKnown, handling, told, untold>>

\* What the device says and the thread does not remember.
Differing == {b \in 1..4 : (b \in hdmi) # (b \in hdmiKnown)}
Opposed == {n \in 1..2 : (avin[n] = "IN") # (avinKnown[n] = "IN")}

\* threadLoop, up to its loop.
StartDetect ==
    /\ ~started /\ started' = TRUE
    /\ hdmiKnown' = hdmi /\ avinKnown' = avin
    /\ untold' = [hdmi |-> untold.hdmi \cup Differing, avin |-> untold.avin \cup Opposed]
    /\ UNCHANGED <<map, hdmi, avin, edges, handling, told, plugs>>

\* epoll_wait returns and the device is read.
PollRead(device) ==
    /\ started /\ handling.device = "none" /\ device \in edges
    /\ edges' = edges \ {device}
    /\ handling' = [device |-> device, read |-> IF device = "hdmi" THEN hdmi ELSE avin]
    /\ UNCHANGED <<map, hdmi, avin, started, hdmiKnown, avinKnown, told, untold, plugs>>

Plug(isIn) == IF isIn THEN "PLUG_IN" ELSE "PLUG_OUT"

\* onSourceConnect for the ports of the set.
ToldHdmi(bits) ==
    LET sources == {ChipHdmiPortMaptoSourceInput(b) : b \in bits}
    IN  [s \in sources \cup DOMAIN told |->
           IF s \in sources
           THEN Plug(\E b \in handling.read : ChipHdmiPortMaptoSourceInput(b) = s)
           ELSE told[s]]

TellHdmi ==
    /\ handling.device = "hdmi" /\ handling' = Nobody
    /\ LET changed == {b \in 1..4 : (b \in handling.read) # (b \in hdmiKnown)}
       IN  told' = ToldHdmi(changed) /\ untold' = [untold EXCEPT !.hdmi = @ \ changed]
    /\ hdmiKnown' = handling.read
    /\ UNCHANGED <<map, hdmi, avin, edges, started, avinKnown, plugs>>

\* The channels come in their order.
AvSource(n) == IF n = 1 THEN "AV1" ELSE "AV2"

ToldAvin(channels) ==
    LET sources == {AvSource(n) : n \in channels}
    IN  [s \in sources \cup DOMAIN told |->
           IF s \in sources THEN Plug(handling.read[IF s = "AV1" THEN 1 ELSE 2] = "IN") ELSE told[s]]

\* Faulty variant: what was told is not remembered.
TellAvin_Forget ==
    /\ handling.device = "avin" /\ handling' = Nobody
    /\ LET changed == {n \in 1..2 : handling.read[n] # avinKnown[n]}
       IN  told' = ToldAvin(changed) /\ untold' = [untold EXCEPT !.avin = @ \ changed]
    /\ UNCHANGED <<map, hdmi, avin, edges, started, hdmiKnown, avinKnown, plugs>>

TellAvin ==
    /\ handling.device = "avin" /\ handling' = Nobody
    /\ LET changed == {n \in 1..2 : handling.read[n] # avinKnown[n]}
       IN  told' = ToldAvin(changed) /\ untold' = [untold EXCEPT !.avin = @ \ changed]
    /\ avinKnown' = handling.read
    /\ UNCHANGED <<map, hdmi, avin, edges, started, hdmiKnown, plugs>>

Handled(device) == started /\ device \notin edges /\ handling.device # device

\* What the client that asked has then been told.
Answered(source, isIn) ==
    [s \in {source} \cup DOMAIN told |-> IF s = source THEN Plug(isIn) ELSE told[s]]

\* GetSourceConnectStatus on a client's thread (also from GetCurrentSignalInfo).
\* For AV2 the loop remembers the entry of AV1 before it comes to its own; what
\* it answers is not remembered.
AskHdmi(s) ==
    /\ told' = Answered(s, ChipHdmiPort(s) \in hdmi)
    /\ hdmiKnown' = hdmi
    /\ untold' = [untold EXCEPT !.hdmi = (@ \cup Differing) \ {HdmiPortID(s)}]
    /\ UNCHANGED <<map, hdmi, avin, edges, started, avinKnown, handling, plugs>>

AskAv(n) ==
    /\ told' = Answered(AvSource(n), avin[n] = "IN")
    /\ avinKnown' = (IF n = 2 THEN [avinKnown EXCEPT ![1] = avin[1]] ELSE avinKnown)
    /\ untold' = [untold EXCEPT !.avin = (@ \ {n}) \cup (Opposed \cap 1..n)]
    /\ UNCHANGED <<map, hdmi, avin, edges, started, hdmiKnown, handling, plugs>>

Next ==
    \/ \E bit \in Cables : PlugHdmi(bit)
    \/ \E n \in 1..2, status \in {"IN", "OUT", "UNKNOWN"} : PlugAv(n, status)
    \/ StartDetect
    \/ \E device \in {"hdmi", "avin"} : PollRead(device)
    \/ TellHdmi
    \/ TellAvin
    \/ \E n \in 1..4 : HdmiSources[n] \in Askable /\ AskHdmi(HdmiSources[n])
    \/ \E n \in 1..2 : AvSource(n) \in Askable /\ AskAv(n)

Spec == Init /\ [][Next]_vars

-----------------------------------------------------------------------------
\* The port of a source leads back to it, and so does that of a type to one of
\* its sources; the audio source SPDIF has the port of the tuner.
RoundTrip ==
    \A n \in DOMAIN Sources :
      LET s == Sources[n] IN
      map[s] # "TVIN_PORT_NULL" /\ s # "SPDIF" =>
        /\ PortToSourceInput(map[s]) = s
        /\ PortToSourceInput(PortOfType(Type(s))) # NoSource => Type(PortToSourceInput(PortOfType(Type(s)))) = Type(s)
        /\ Type(s) = "HDMI" /\ ChipHdmiPort(s) = HdmiPortID(s) => ChipHdmiPortMaptoSourceInput(ChipHdmiPort(s)) = s

\* Once every change is handled, what a client was told last of a source that
\* has a port is what the device says, whether the thread told it or the client
\* asked, and whatever the configuration connects; but for a port of which a
\* client's question took the change away before the thread could tell it.
ConnectKnown ==
    /\ RoundTrip
    /\ Handled("hdmi") =>
         \A n \in 1..4 : LET s == HdmiSources[n] IN
           s \in DOMAIN told /\ map[s] \in {HdmiPorts[k] : k \in 1..4} /\ HdmiPortID(s) \notin untold.hdmi
             => told[s] = Plug(HdmiPortID(s) \in hdmi)
    /\ Handled("avin") =>
         \A n \in (1..2) \ untold.avin : AvSource(n) \in DOMAIN told => told[AvSource(n)] = Plug(avin[n] = "IN")
=============================================================================
