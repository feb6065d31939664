----------------------------- MODULE DisplayMode -----------------------------
(***************************************************************************)
(* The mode of the display after the frame rate of the signal (CTvin.cpp,  *)
(* VDIN_SetDisplayVFreq and what it calls): what the set asks for, what    *)
(* the sink supports, and the nearest of the two.                          *)
(*                                                                         *)
(* A mode is its lines, p or i, and its frequency; the code keeps it as a  *)
(* string such as 1080p60hz, and searches it for others.                   *)
(***************************************************************************)
EXTENDS Integers, AnalogStd

CONSTANTS Sinks,   \* what is connected: its kind and the modes it supports
          Fps,     \* rates that the HDMI receiver measures
          Formats, \* formats of other signals
          NoMode

Best(S) == CHOOSE x \in S : \A y \in S : y <= x

VARIABLES sink,     \* what is connected now
          mode,     \* /sys/class/display/mode
          priority, \* mbResolutionPriority
          was,      \* the mode before it was set last
          need,     \* the frequency for which that was; 0 is none
          given     \* the signal for which that was
vars == <<sink, mode, priority, was, need, given>>

\* Tvin_is50HzFrameRateFmt: a format is its input, lines or standard, scan and rate.
FiftyHz ==
    {"COMP"} \X {"576", "1080"} \X {"p", "i"} \X {50}
      \cup {<<"COMP", "720", "p", 50>>, <<"COMP", "1080", "p", 24>>, <<"COMP", "1080", "p", 25>>}
      \cup {"HDMI"} \X {"576", "1080"} \X {"p", "i"} \X {50}
      \cup {<<"HDMI", "720", "p", 50>>, <<"HDMI", "288", "p", 50>>}
      \cup {"CVBS"} \X {"PAL_I", "NTSC_50", "PAL_CN", "SECAM"} \X {"i"} \X {50}

\* Faulty variant: the rates between are taken for the next higher.
HdmiRate_Wide(fps) ==
    CASE fps \in 24..30 -> 30 [] fps \in 31..51 -> 50 [] fps \in 52..61 -> 60 [] OTHER -> fps

\* getHDMIFrameRate
HdmiRate(fps) ==
    CASE fps \in 49..51 -> 50 [] fps \in 59..61 -> 60 [] OTHER -> fps

\* The condition of the best mode is searched for in the whole string.
Mentions(m, freq) == m.freq = freq \/ m.lines % 100 = freq \/ (m.lines \div 10) % 100 = freq \/ m.lines \div 100 = freq

Zero(S) == IF S = {} THEN {0} ELSE S

\* Faulty variant: the first condition of the two is taken for both.
BestMode_Rate(timing, freq) ==
    [lines |-> Best(Zero({m.lines : m \in {n \in sink.modes : Mentions(n, freq)}})), scan |-> "p", freq |-> freq]

\* VDIN_GetBestDisplayMode, with the condition that mbResolutionPriority picks.
BestMode(timing, freq) ==
    IF priority
    THEN [timing EXCEPT !.freq =
            Best(Zero({m.freq : m \in {n \in sink.modes : n.lines = timing.lines /\ n.scan = timing.scan}}))]
    ELSE [lines |-> Best(Zero({m.lines : m \in {n \in sink.modes : Mentions(n, freq)}})), scan |-> "p", freq |-> freq]

\* VDIN_GetDisplayVFreq: the mode to change to, or the one there is.
DisplayVFreq(current, freq) ==
    CASE sink.kind = "lvds" -> [current EXCEPT !.freq = IF freq \in {24, 30, 60} THEN 60 ELSE 50]
      [] sink.kind = "tx" ->
           IF [current EXCEPT !.freq = freq] \in sink.modes
           THEN [current EXCEPT !.freq = freq] ELSE BestMode(current, freq)
      [] OTHER -> current    \* plugged out, or the list is not there to read

Init ==
    /\ sink \in Sinks /\ mode \in sink.modes /\ priority \in BOOLEAN
    /\ was = NoMode /\ need = 0 /\ given = NoMode

\* Another sink is connected (external), in one of its modes.
Connect(s) ==
    /\ sink' = s /\ mode' \in s.modes
    /\ was' = NoMode /\ need' = 0 /\ given' = NoMode
    /\ UNCHANGED priority

\* VDIN_SetDisplayVFreq
SetDisplayVFreq(freq, signal) ==
    /\ mode' = DisplayVFreq(mode, freq)
    /\ was' = mode /\ need' = freq /\ given' = signal
    /\ UNCHANGED <<sink, priority>>

\* onSigToStable: of an HDMI source, and of a tuner, AV or component source.
HdmiStable(fps) == SetDisplayVFreq(HdmiRate(fps), <<"HDMI", "", "", fps>>)
OtherStable(fmt) == SetDisplayVFreq(IF fmt \in FiftyHz THEN 50 ELSE 60, fmt)

\* Analog channels: the bits of the picture, and the standard that clients name
\* with them; a picture of 60 fields, or of PAL N, comes with the sound of M.
Channels ==
    LET names == {enumToStdAndColor(v, a) : v \in Videos \ {"AUTO"}, a \in Audios}
    IN  {<<name, name>> : name \in names}
          \cup {<<{"PAL", lines}, enumToStdAndColor("PAL", "M")>> : lines \in {"PAL_60", "PAL_Nc"}}
          \cup {<<{"NTSC", "NTSC_443"}, enumToStdAndColor("NTSC", a)>> : a \in Audios}
Fields(vfmt) == IF "NTSC" \in vfmt \/ ("PAL" \in vfmt /\ vfmt \cap {"PAL_M", "PAL_60"} # {}) THEN 60 ELSE 50

\* setFrontEnd sets the format of the decoder, which is that of its signal then.
AtvStable(channel) ==
    LET fmt == stdEnumToCvbsFmt(channel[1], channel[2])
        freq == IF <<"CVBS", fmt, "i", 50>> \in FiftyHz THEN 50 ELSE 60
    IN  SetDisplayVFreq(freq, <<"CVBS", fmt, "i", Fields(channel[1])>>)

\* EVENT_AV_VIDEO_AVAILABLE
DtvVideo == SetDisplayVFreq(50, NoMode)

Next ==
    \/ \E s \in Sinks : Connect(s)
    \/ \E fps \in Fps : HdmiStable(fps)
    \/ \E fmt \in {f \in Formats : f[1] # "HDMI"} : OtherStable(fmt)
    \/ \E channel \in Channels : AtvStable(channel)
    \/ DtvVideo

Spec == Init /\ [][Next]_vars

-----------------------------------------------------------------------------
\* The best mode by rate is guessed well: the tallest mode that mentions the
\* rate is progressive and has it.
Guessed ==
    LET m == [lines |-> Best(Zero({n.lines : n \in {o \in sink.modes : Mentions(o, need)}})), scan |-> "p", freq |-> need]
    IN  m \in sink.modes

Distance(m) == IF m.freq < need THEN need - m.freq ELSE m.freq - need

\* After a change for the rate of a signal the sink shows a mode it supports,
\* that of the rate wherever there is one with the picture as it was; if there
\* is none, resolution or rate is kept, whichever comes first; the same signal
\* again changes nothing; and a picture at a multiple or a part of 50 Hz is not
\* shown at 60, nor the other way around, where the signal is not one of HDMI.
ModeFits ==
    need # 0 =>
      /\ sink.kind = "tx" /\ (priority \/ Guessed) =>
           /\ mode \in sink.modes
           /\ [was EXCEPT !.freq = need] \in sink.modes => mode = [was EXCEPT !.freq = need]
           /\ priority => mode.lines = was.lines /\ mode.scan = was.scan
           /\ ~priority => mode.freq = need
           /\ DisplayVFreq(mode, need) = mode
      /\ sink.kind = "lvds" => mode.freq \in {50, 60} /\ mode.lines = was.lines /\ DisplayVFreq(mode, need) = mode
      /\ sink.kind = "out" => mode = was
      /\ given # NoMode =>
           IF given[1] = "HDMI" THEN need \in given[4] - 1 .. given[4] + 1
           ELSE (need = 50) = (given[4] \in {24, 25, 50})
=============================================================================
