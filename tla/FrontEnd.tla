------------------------------ MODULE FrontEnd ------------------------------
(***************************************************************************)
(* CFrontEnd (libtv/tv/CFrontEnd.cpp): the DTV demodulator and the analog  *)
(* tuner ("VL"), with the modes and parameters CFrontEnd believes them to  *)
(* have.  It skips what it believes to be done already, so what it         *)
(* believes must be true.                                                  *)
(*                                                                         *)
(* Each method holds CFrontEnd::mLock and is one step; an operation of CTv *)
(* is a sequence of calls.  CTv::mLock keeps the operations of "locked"    *)
(* apart; resetFrontEndPara and operateDeviceForScan ("unlocked") do not   *)
(* take it and run between any two calls.                                  *)
(*                                                                         *)
(* Parameters are a mode, a frequency, a standard (videoStd and audioStd)  *)
(* and vfmt ("fmt"), which only one of the two comparisons of analog ones  *)
(* looks at; soundsys, afc, fine tuning and properties are left out.       *)
(***************************************************************************)
EXTENDS AnalogStd, Naturals, Sequences, SequencesExt

CONSTANTS Paras,    \* what the tuners are asked for
          Digital,  \* the modes of the demodulator
          None

Modes == Digital \cup {"ANALOG", "AUTO"}
Devices == {"dtv", "atv"}
Threads == {"locked", "unlocked"}
Dev(p) == IF p.mode = "ANALOG" THEN "atv" ELSE "dtv"

Parameters == [mode : Digital \cup {"ANALOG"}, freq : Nat,
               std : [video : Videos, audio : Audios], fmt : Nat]

ASSUME FrontEndAssumption ==
    /\ Paras \subseteq Parameters /\ None \notin Parameters
    /\ Digital \cap {"ANALOG", "AUTO", "none", "closed"} = {}
    \* no digital channel has an analog channel's frequency
    /\ \A p, q \in Paras : Dev(p) # Dev(q) => p.freq # q.freq

VARIABLES f,        \* CFrontEnd and the two devices
          todo,     \* the calls each thread has yet to make
          scanning  \* TV_ACTION_SCANNING

vars == <<f, todo, scanning>>

Init ==
    /\ f = [open   |-> [d \in Devices |-> FALSE],     \* mbFEOpened, mbVLFEOpened
            mode   |-> [d \in Devices |-> "none"],    \* mCurMode, mVLCurMode
            paras  |-> None,                          \* mFEParas
            chip   |-> [d \in Devices |-> "closed"],  \* the device's mode
            tuned  |-> [d \in Devices |-> None],      \* what it is tuned to
            failed |-> FALSE]                         \* the last tuning failed (history)
    /\ todo = [t \in Threads |-> <<>>]
    /\ scanning = FALSE

-----------------------------------------------------------------------------
(* The methods.  ok says of each device whether it does as it is told.     *)

PowerUp(s, d, m) == [s EXCEPT !.open[d] = TRUE, !.mode[d] = m,
                              !.chip[d] = m, !.tuned[d] = None]

\* A device that is told the mode it is in keeps what it is tuned to.
Switch(s, d, m) ==
    [s EXCEPT !.mode[d] = m,
              !.tuned[d] = IF s.chip[d] = m THEN @ ELSE None,
              !.chip[d] = IF @ = "closed" THEN @ ELSE m]

\* Faulty variant: an open frontend takes any mode, AUTO too.
Open_AnyMode(s, m, ok) ==
    LET v == IF ~s.open["atv"]
             THEN IF m \in {"ANALOG", "AUTO"} /\ ok["atv"] THEN PowerUp(s, "atv", m) ELSE s
             ELSE IF s.mode["atv"] # m THEN Switch(s, "atv", m) ELSE s
    IN  IF ~v.open["dtv"]
        THEN IF m # "ANALOG" /\ ok["dtv"] THEN PowerUp(v, "dtv", m) ELSE v
        ELSE IF v.mode["dtv"] # m THEN Switch(v, "dtv", m) ELSE v

\* The analog tuner may fail to open; the demodulator's failure comes after 20
\* retries.
Open(s, m, ok) ==
    LET v == IF ~s.open["atv"]
             THEN IF m \in {"ANALOG", "AUTO"} /\ ok["atv"] THEN PowerUp(s, "atv", m) ELSE s
             ELSE IF s.mode["atv"] # m /\ m = "ANALOG" THEN Switch(s, "atv", m) ELSE s
    IN  IF ~v.open["dtv"]
        THEN IF m # "ANALOG" /\ ok["dtv"] THEN PowerUp(v, "dtv", m) ELSE v
        ELSE IF v.mode["dtv"] # m /\ m \in Digital THEN Switch(v, "dtv", m) ELSE v

\* Faulty variant: the parameters are kept.
Close_KeepParas(s) ==
    [s EXCEPT !.open = [d \in Devices |-> FALSE],
              !.mode = [d \in Devices |-> "none"],
              !.chip = [d \in Devices |-> "closed"],
              !.tuned = [d \in Devices |-> None]]

\* mFEParas keeps all but its frequency; no parameters equal it then.
Close(s) ==
    [s EXCEPT !.open = [d \in Devices |-> FALSE],
              !.mode = [d \in Devices |-> "none"],
              !.paras = None, !.failed = FALSE,
              !.chip = [d \in Devices |-> "closed"],
              !.tuned = [d \in Devices |-> None]]

setMode(s, m) ==
    IF \A d \in Devices : s.mode[d] = m THEN s
    ELSE IF m = "ANALOG" THEN Switch(Switch(s, "dtv", m), "atv", m)
    ELSE LET t == Switch(s, "atv", "AUTO")
         IN  IF s.mode["dtv"] # m \/ m = "AUTO" THEN Switch(t, "dtv", m) ELSE t

\* The comparisons at the head of setPara.  Analog parameters are compared a
\* second time, without mode and format and whether force is set or not.
Same(s, p, force) ==
    \/ s.paras = p /\ ~force
    \/ p.mode = "ANALOG" /\ s.paras # None /\ s.paras.freq = p.freq /\ s.paras.std = p.std

\* What saveCurrentParas and the tail of setPara believe of the modes.
Believed(p) == [d \in Devices |-> IF d = Dev(p) THEN p.mode
                                  ELSE IF d = "dtv" THEN "ANALOG" ELSE "AUTO"]

setPara(s, p, force, ok) ==
    LET d == Dev(p)
        done == ok[d] /\ s.chip[d] # "closed"
    IN  IF Same(s, p, force) THEN s
        ELSE [s EXCEPT !.paras = p,
                       !.mode = Believed(p),
                       !.failed = ~done,
                       !.chip[d] = IF done THEN p.mode ELSE @,
                       !.tuned[d] = IF done THEN p ELSE None]

-----------------------------------------------------------------------------
(* CTv's operations, as sequences of calls. *)

OpenCall(m) == [op |-> "open", mode |-> m]
ModeCall(m) == [op |-> "mode", mode |-> m]
CloseCall == [op |-> "close"]
ParaCall(p, force) == [op |-> "para", para |-> p, force |-> force]

Begin(t, calls, scans) ==
    /\ todo[t] = <<>>
    /\ todo' = [todo EXCEPT ![t] = calls]
    /\ scanning' = scans
    /\ UNCHANGED f

\* The source switch before a program is played ends a scan, and opens the
\* frontend unless the source stays.
EndScanCalls == IF scanning THEN <<CloseCall>> ELSE <<>>

playDtvProgram ==
    \E p \in Paras, same \in BOOLEAN :
        /\ p.mode \in Digital
        /\ Begin("locked",
                 EndScanCalls \o (IF same THEN <<>> ELSE <<OpenCall("AUTO")>>)
                     \o <<OpenCall(p.mode), ParaCall(p, FALSE)>>,
                 FALSE)

\* convertParas: an analog standard goes through a word of V4L2 bits.
Converted(p) == IF p.mode = "ANALOG" THEN [p EXCEPT !.std = ViaWord(@)] ELSE p

playAtvProgram ==
    \E p \in Paras :
        /\ p.mode = "ANALOG"
        /\ Begin("locked",
                 EndScanCalls \o <<OpenCall("AUTO"), OpenCall("ANALOG"),
                                   ParaCall(Converted(p), FALSE)>>,
                 FALSE)

setFrontEnd ==
    /\ ~scanning
    /\ \E p \in Paras, force \in BOOLEAN :
          Begin("locked", <<OpenCall("AUTO"), ModeCall(p.mode), ParaCall(p, force)>>, FALSE)

SetSourceSwitchInput ==
    \E tuner \in BOOLEAN :
        Begin("locked", EndScanCalls \o <<IF tuner THEN OpenCall("AUTO") ELSE CloseCall>>, FALSE)

\* Scan; dtvScan and the ATV scans make no call.
Scan ==
    \E calls \in {<<ModeCall("AUTO"), OpenCall("AUTO")>>, <<>>} : Begin("locked", calls, TRUE)

stopScan == scanning /\ Begin("locked", <<CloseCall>>, FALSE)

StopTv == Begin("locked", <<ModeCall("AUTO"), CloseCall>>, FALSE)

resetFrontEndPara ==
    /\ ~scanning
    /\ \E p \in Paras :
          Begin("unlocked", <<OpenCall("AUTO"), ParaCall(Converted(p), FALSE)>>, scanning)

operateDeviceForScan == Begin("unlocked", <<OpenCall("AUTO")>>, scanning)

Apply(c, ok) ==
    CASE c.op = "open"  -> Open(f, c.mode, ok)
      [] c.op = "mode"  -> setMode(f, c.mode)
      [] c.op = "close" -> Close(f)
      [] c.op = "para"  -> setPara(f, c.para, c.force, ok)

\* The next call of thread t.
Call(t) ==
    /\ todo[t] # <<>>
    /\ \E ok \in [Devices -> BOOLEAN] : f' = Apply(Head(todo[t]), ok)
    /\ todo' = [todo EXCEPT ![t] = Tail(@)]
    /\ UNCHANGED scanning

\* libdvb's scanner tunes the devices that are open as it likes.
ScannerTunes ==
    /\ scanning /\ todo["locked"] = <<>>
    /\ \E d \in Devices : f.open[d] /\ f' = [f EXCEPT !.tuned[d] = None]
    /\ UNCHANGED <<todo, scanning>>

Next ==
    \/ playDtvProgram \/ playAtvProgram \/ setFrontEnd
    \/ SetSourceSwitchInput \/ Scan \/ stopScan \/ StopTv
    \/ resetFrontEndPara \/ operateDeviceForScan
    \/ \E t \in Threads : Call(t)
    \/ ScannerTunes

Spec == Init /\ [][Next]_vars

-----------------------------------------------------------------------------
(* Properties. *)

States == [open : [Devices -> BOOLEAN], failed : BOOLEAN,
           mode : [Devices -> Modes \cup {"none"}],
           chip : [Devices -> Modes \cup {"closed"}],
           paras : Parameters \cup {None},
           tuned : [Devices -> Parameters \cup {None}]]

Calls == [op : {"open", "mode"}, mode : Modes] \cup [op : {"close"}]
           \cup [op : {"para"}, para : Parameters, force : BOOLEAN]

TypeOK == f \in States /\ todo \in [Threads -> Seq(Calls)] /\ scanning \in BOOLEAN

Quiet == ~scanning /\ \A t \in Threads : todo[t] = <<>>

\* Once the calls have been made, the device is tuned to the parameters that
\* setPara would skip, unless the tuner refused them: the cache survives mode
\* changes, scans and closings made by other operations in between.
CacheBacked ==
    Quiet /\ f.paras # None /\ ~f.failed => f.tuned[Dev(f.paras)] = f.paras

\* Asking again for what is tuned does not disturb the reception, whichever of
\* CTv's operations asks, although each of them opens the frontend and sets
\* its mode anew.
ReplayKeepsSignal ==
    [][\A t \in Threads :
          LET p == Last(todo[t]).para
          IN  /\ todo[t] # <<>> /\ todo'[t] # todo[t] /\ Last(todo[t]).op = "para"
              /\ ~scanning /\ \A u \in Threads \ {t} : todo[u] = <<>>
              /\ Head(todo[t]).op # "close" /\ ~Last(todo[t]).force
              /\ f.paras = p /\ f.tuned[Dev(p)] = p
              => f'.tuned[Dev(p)] = p]_vars

\* An analog channel is tuned in the standard that the client named, although
\* the standard goes through two conversions on the way.
StandardKept == \A d \in Devices : f.tuned[d] \in Paras \cup {None}
=============================================================================
