-------------------------------- MODULE Vdin --------------------------------
(***************************************************************************)
(* CTvin (libtv/tvin/CTvin.cpp): the port and the decoder of vdin, and the *)
(* resources of the resource manager that they are used under.  Operators  *)
(* on a record v: what CTvin believes and what the devices do are separate *)
(* fields, for every ioctl and every request may be refused.  bad is the   *)
(* set of the calls that are refused during one operation:                 *)
(*   "OPEN", "START", "STOP"          an ioctl on the vdin device          *)
(*   "ADC_PLL", "AMVIDEO", "CODEC_MM" a request to the resource manager    *)
(*   "PATH"                           the video path stays active          *)
(*                                                                         *)
(* The resource manager is supported (mSupportResman); it keeps a set of   *)
(* resources per client.  Closing the port does not fail.                  *)
(***************************************************************************)
EXTENDS FiniteSets

Refusals == {"OPEN", "START", "STOP", "ADC_PLL", "AMVIDEO", "CODEC_MM", "PATH"}

Resources == {"ADC_PLL", "AMVIDEO", "CODEC_MM"}

\* What the decoder runs under.
DecoderResources == {"AMVIDEO", "CODEC_MM"}

Ports == {"TV", "HDMI"}

\* The ports TVIN_PORT_CVBS0..7, which need the analog PLL.
Analog(port) == port = "TV"

VdinInit == [opened   |-> FALSE,   \* mPortOpened
             port     |-> "none",  \* m_tvin_param.port
             device   |-> "none",  \* the port the device has open
             started  |-> FALSE,   \* mDecoderStarted
             decoding |-> FALSE,   \* the device decodes
             held     |-> {},      \* the resources granted and not freed
             snow     |-> FALSE]   \* m_snow_status and the snow itself

VdinType == [opened : BOOLEAN, port : Ports \cup {"none"}, device : Ports \cup {"none"},
             started : BOOLEAN, decoding : BOOLEAN, held : SUBSET Resources, snow : BOOLEAN]

\* VDIN_OpenPort.  A refused ioctl leaves a port that counts as open; a refused
\* PLL an open port that counts as closed.
OpenPort(v, port, bad) ==
    IF v.opened THEN v
    ELSE LET d == [v EXCEPT !.device = IF "OPEN" \in bad THEN @ ELSE port, !.port = port]
         IN  IF "OPEN" \in bad \/ ~Analog(port) THEN [d EXCEPT !.opened = TRUE]
             ELSE IF "ADC_PLL" \in bad THEN d
             ELSE [d EXCEPT !.held = @ \cup {"ADC_PLL"}, !.opened = TRUE]

\* Faulty variant: the ADC PLL stays with the server.
ClosePort_KeepPll(v) ==
    IF ~v.opened THEN v
    ELSE [v EXCEPT !.port = "none", !.device = "none", !.opened = FALSE]

\* VDIN_ClosePort.
ClosePort(v) ==
    IF ~v.opened THEN v
    ELSE [v EXCEPT !.held = IF Analog(v.port) THEN @ \ {"ADC_PLL"} ELSE @,
                   !.port = "none", !.device = "none", !.opened = FALSE]

\* Faulty variant: a refused CODEC_MM does not end the start.
StartDecoder_Anyway(v, bad) ==
    IF v.started \/ "AMVIDEO" \in bad \/ "START" \in bad THEN v
    ELSE [v EXCEPT !.held = @ \cup (DecoderResources \ bad),
                   !.decoding = TRUE, !.started = TRUE]

\* Tvin_StartDecoder and VDIN_StartDec: a refused CODEC_MM keeps AMVIDEO.
StartDecoder(v, bad) ==
    IF v.started \/ "AMVIDEO" \in bad THEN v
    ELSE IF "CODEC_MM" \in bad THEN [v EXCEPT !.held = @ \cup {"AMVIDEO"}]
    ELSE IF "START" \in bad THEN [v EXCEPT !.held = @ \ DecoderResources]
    ELSE [v EXCEPT !.held = @ \cup DecoderResources, !.decoding = TRUE, !.started = TRUE]

\* Tvin_StopDecoder and VDIN_StopDec.
StopDecoder(v, bad) ==
    IF ~v.started \/ "STOP" \in bad THEN v
    ELSE [v EXCEPT !.held = @ \ DecoderResources, !.decoding = FALSE, !.started = FALSE]

\* Tvin_WaitPathInactive: AMVIDEO is asked for, to have other processes give up
\* the video, and freed at once.
WaitPathInactive(v, bad) == IF "AMVIDEO" \in bad THEN v ELSE [v EXCEPT !.held = @ \ {"AMVIDEO"}]

\* SwitchPort fails when the decoder does not stop or the path stays active,
\* and not when the port does not open.
PortSwitched(v, bad) == ~(v.started /\ "STOP" \in bad) /\ "PATH" \notin bad

SwitchPort(v, port, bad) ==
    IF v.started /\ "STOP" \in bad THEN v
    ELSE LET w == WaitPathInactive(ClosePort(StopDecoder(v, bad)), bad)
         IN  IF "PATH" \in bad THEN w ELSE OpenPort(w, port, bad)

\* Resman_Release: the handle is closed and everything granted with it.
Release(v) == [v EXCEPT !.held = {}]

\* SwitchSnow.
SwitchSnow(v, enable) == [v EXCEPT !.snow = enable]
=============================================================================
