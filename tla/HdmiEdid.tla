------------------------------ MODULE HdmiEdid ------------------------------
(***************************************************************************)
(* The EDID of the HDMI ports and what depends on it: the versions the     *)
(* user chooses per port, DLG, QMS and VRR (CTv.cpp, TvKeyData.cpp,        *)
(* CTvSetting.cpp, CHDMIRxManager.cpp).                                    *)
(*                                                                         *)
(* The same choice is kept in up to five places: the SSM, which survives a *)
(* crash and a reboot; the boot environment; the hdmirx driver, which      *)
(* survives a crash of the server; what the driver shows to the sources    *)
(* after an EDID update; and fields of CTv.  Settings come on binder       *)
(* threads.  LoadEdidData, SetHdmiEdidVersion, source switches and what    *)
(* vdin reports run under CTv::mLock; the rest of the setters do not.      *)
(*                                                                         *)
(* The settings server keeps the DLG switch that tvSetDLGEnable sets in    *)
(* the SSM.  EDID files, their suffixes and Dolby Vision (fixed at run     *)
(* time) are abstracted to the two switches a file is made for.  The DLG   *)
(* property of a source, which only copies settings, is left out.          *)
(***************************************************************************)
EXTENDS Integers, FiniteSets

CONSTANTS Ports,      \* HDMI ports: HDMI_PORT_1 to HDMI_PORT_MAX - 1
          Callers,    \* binder threads
          LoadModes,  \* values of mIsLoadEdidWithPort
          Others,     \* sources that are not HDMI
          SupportDlg, \* SupportDlg(): the panel can do 4k1k and 4k2k
          MaxRaced,   \* bound: how much is remembered of races at a time
          None        \* no thread, no EDID, nothing set

ASSUME EdidAssumption ==
    /\ IsFiniteSet(Ports) /\ Ports \cap Others = {}
    /\ LoadModes \subseteq BOOLEAN /\ LoadModes # {}
    /\ SupportDlg \in BOOLEAN /\ MaxRaced \in Nat
    /\ "poll" \notin Callers /\ None \notin Callers \cup {"poll"} \cup [port : Ports, version : 0..1]

VARIABLES ssm,    \* the settings: version of each port, dlg, qms, vrr
          env,    \* UBOOTENV_EDID_VERSION: the version of each port
          rx,     \* hdmirx: the EDID written for each port, the versions, VRR
          live,   \* what each port shows to its source since its last update
          tv,     \* CTv: mIsLoadEdidWithPort, mVrrStatus, mInitEdidVersion,
                  \* m_source_input
          game,   \* the picture mode is VPP_PICTURE_MODE_GAME
          mLock,  \* who holds it
          call,   \* where each thread is
          failed, \* ports whose EDID is not what the last load wanted (history)
          unsaved, \* a version that a client has set and not saved yet (history)
          raced   \* what setters that no lock keeps apart have left (history)
vars == <<ssm, env, rx, live, tv, game, mLock, call, failed, unsaved, raced>>

Poll == "poll"   \* the thread that reports vdin's events
Threads == Callers \cup {Poll}
Idle == [at |-> "idle"]
Off == [at |-> "off"]

\* Setters that no lock keeps apart may cross.  What they leave is remembered
\* until one of them is done alone: for the EDIDs, for VRR, and for the ports
\* whose version a client had set and not saved when the first load came.
Unraced == [edid |-> "no", vrr |-> "no", late |-> {}]

\* One more setter begins: it crosses another one ("now"), or it is alone after
\* a race ("before"), or there is nothing to remember ("no").
Entered(race, crossing) == IF crossing THEN "now" ELSE IF race = "now" THEN "before" ELSE race
Done(race) == IF race = "before" THEN "no" ELSE race
Remembered(r) == {k \in {"edid", "vrr", "late"} : r[k] # Unraced[k]}

\* The server is up: OpenTv has returned.
Up == call[Poll] # Off

Started(mode) == [withPort |-> mode, vrr |-> FALSE, init |-> TRUE, source |-> "INVALID"]
Versions(v) == [p \in Ports |-> v]
Defaults == [version |-> Versions(0), dlg |-> FALSE, qms |-> FALSE, vrr |-> FALSE]
Booted(e) == [edid |-> [p \in Ports |-> None], version |-> e, vrr |-> FALSE]

-----------------------------------------------------------------------------
(* The driver. *)

\* HdmiRxEdidUpdateWithPort, HdmiRxEdidUpdate: the ports in ps show what the
\* driver has been given.
Updated(l, r, ps) ==
    [p \in Ports |-> IF p \in ps THEN [edid |-> r.edid[p], version |-> r.version[p]] ELSE l[p]]

Init ==
    /\ ssm = Defaults /\ env = ssm.version
    /\ rx = Booted(env) /\ live = Updated(<<>>, rx, Ports)
    /\ \E mode \in LoadModes : tv = Started(mode)
    /\ game = FALSE /\ mLock = None
    /\ call = [t \in Threads |-> Off]
    /\ failed = Ports /\ unsaved = None /\ raced = Unraced

-----------------------------------------------------------------------------
(* Where the threads are. *)

Goto(t, c) == call' = [call EXCEPT ![t] = c]
At(t, place) == call[t].at = place
Begins(t) == Up /\ call[t] = Idle

LoadCalls == {"dlg.load", "dlg.save", "qms.read", "qms.load"}
VrrCalls == {"vrr.save", "vrr.status"}
OtherCalls == {"version.vrr", "version.status", "version.update", "sig.decide", "sig.status"}

\* Somebody is in the middle of one of these setters.
Busy(places) == \E t \in Threads : call[t].at \in places

VrrEnters(places) == [raced EXCEPT !.vrr = Entered(@, Busy(places))]
VrrDone == [raced EXCEPT !.vrr = Done(@)]

-----------------------------------------------------------------------------
(* Loading EDIDs. *)

\* SSMLoadHDMIEdidDataWithPort skips a port without files and does not look
\* at what the driver says: it always succeeds.  SSMLoadHDMIEdidData writes
\* all ports at once, zeros for a missing file, and may be refused.
Loaded(dlg, bad) ==
    [p \in Ports |-> IF p \notin bad THEN [dlg |-> dlg, qms |-> ssm.qms]
                     ELSE IF tv.withPort THEN rx.edid[p] ELSE None]

\* What a load settles.  The first one takes back a version that is not saved,
\* and crosses who sets VRR meanwhile.
Reloaded ==
    [edid |-> Done(raced.edid),
     vrr  |-> IF ~tv.init THEN raced.vrr ELSE IF Busy(VrrCalls) THEN "now" ELSE "no",
     late |-> IF tv.init /\ unsaved # None THEN {unsaved.port} ELSE raced.late]

\* Faulty variant: the versions of a new start are not given to the driver.
Load_NoVersion(dlg, bad) ==
    /\ rx' = [rx EXCEPT !.edid = Loaded(dlg, bad), !.vrr = @ /\ ~tv.init]
    /\ tv' = [tv EXCEPT !.init = FALSE, !.vrr = @ /\ ~tv.init]
    /\ live' = Updated(live, rx', Ports)
    /\ failed' = bad /\ raced' = Reloaded

\* The first load that succeeds sets the versions and turns VRR off.
Load(dlg, bad) ==
    /\ rx' = [rx EXCEPT !.edid = Loaded(dlg, bad),
                        !.version = IF tv.init THEN ssm.version ELSE @,
                        !.vrr = @ /\ ~tv.init]
    /\ tv' = [tv EXCEPT !.init = FALSE, !.vrr = @ /\ ~tv.init]
    /\ live' = Updated(live, rx', Ports)
    /\ failed' = bad /\ raced' = Reloaded

Refused(missed) ==
    /\ ~tv.withPort
    /\ failed' = missed
    /\ UNCHANGED <<rx, tv, live, raced>>

-----------------------------------------------------------------------------
(* Starting and ending the server. *)

\* The process starts again, after a crash or with the whole system: the
\* constructor tells the boot loader the saved versions.
Restart(reboot, saved) ==
    /\ ssm' = saved /\ env' = saved.version
    /\ rx' = IF reboot THEN Booted(env) ELSE rx
    /\ live' = IF reboot THEN Updated(live, rx', Ports) ELSE live
    /\ tv' = Started(tv.withPort)
    /\ mLock' = None /\ call' = [t \in Threads |-> Off] /\ unsaved' = None
    /\ failed' = Ports /\ raced' = Unraced
    /\ UNCHANGED game

Crash == Up /\ Restart(FALSE, ssm)
Reboot == Up /\ Restart(TRUE, ssm)

\* Tv_SSMRestoreDefaultSetting writes the settings alone; the client that
\* asks for it restarts the system next.
RestoreDefaults == Up /\ mLock = None /\ Restart(TRUE, Defaults)

\* OpenTv, as far as EDIDs go, before the first call and the first event.
OpenTv ==
    /\ ~Up
    /\ call' = [t \in Threads |-> Idle]
    /\ \/ \E bad \in SUBSET Ports : Load(SupportDlg /\ ssm.dlg, bad)
       \/ Refused(Ports)
    /\ ssm' = [ssm EXCEPT !.dlg = SupportDlg /\ @]
    /\ UNCHANGED <<env, game, mLock, unsaved>>

-----------------------------------------------------------------------------
(* Setters on binder threads. *)

\* Tv_SetDLGEnable.
SetDlg(t, on) ==
    /\ SupportDlg /\ Begins(t)
    /\ Goto(t, [at |-> "dlg.load", on |-> on])
    /\ raced' = [raced EXCEPT !.edid = Entered(@, Busy(LoadCalls))]
    /\ UNCHANGED <<ssm, env, rx, live, tv, game, mLock, failed, unsaved>>

\* Faulty variant: the result of the load is not looked at.
DlgLoad_Unchecked(t) ==
    /\ At(t, "dlg.load") /\ mLock = None
    /\ \/ \E bad \in SUBSET Ports : Load(call[t].on, bad)
       \/ Refused(failed)
    /\ Goto(t, [call[t] EXCEPT !.at = "dlg.save"])
    /\ UNCHANGED <<ssm, env, game, mLock, unsaved>>

DlgLoad(t) ==
    /\ At(t, "dlg.load") /\ mLock = None
    /\ \/ /\ \E bad \in SUBSET Ports : Load(call[t].on, bad)
          /\ Goto(t, [call[t] EXCEPT !.at = "dlg.save"])
       \/ Refused(failed) /\ Goto(t, Idle)
    /\ UNCHANGED <<ssm, env, game, mLock, unsaved>>

DlgSave(t) ==
    /\ At(t, "dlg.save")
    /\ ssm' = [ssm EXCEPT !.dlg = call[t].on]
    /\ Goto(t, Idle)
    /\ UNCHANGED <<env, rx, live, tv, game, mLock, failed, unsaved, raced>>

\* TV_SetQMSEnable saves first and takes the DLG switch along.
SetQms(t, on) ==
    /\ Begins(t)
    /\ ssm' = [ssm EXCEPT !.qms = on]
    /\ Goto(t, [at |-> "qms.read"])
    /\ raced' = [raced EXCEPT !.edid = Entered(@, Busy(LoadCalls))]
    /\ UNCHANGED <<env, rx, live, tv, game, mLock, failed, unsaved>>

QmsRead(t) ==
    /\ At(t, "qms.read")
    /\ Goto(t, [at |-> "qms.load", on |-> ssm.dlg])
    /\ UNCHANGED <<ssm, env, rx, live, tv, game, mLock, failed, unsaved, raced>>

QmsLoad(t) ==
    /\ At(t, "qms.load") /\ mLock = None
    /\ \/ \E bad \in SUBSET Ports : Load(call[t].on, bad)
       \/ Refused(Ports)
    /\ Goto(t, Idle)
    /\ UNCHANGED <<ssm, env, game, mLock, unsaved>>

\* TV_SetVRREnable.
SetVrr(t, on) ==
    /\ Begins(t)
    /\ rx' = [rx EXCEPT !.vrr = on]
    /\ Goto(t, [at |-> "vrr.save", on |-> on])
    /\ raced' = VrrEnters(VrrCalls \cup OtherCalls)
    /\ UNCHANGED <<ssm, env, live, tv, game, mLock, failed, unsaved>>

VrrSave(t) ==
    /\ At(t, "vrr.save")
    /\ ssm' = [ssm EXCEPT !.vrr = call[t].on]
    /\ Goto(t, [call[t] EXCEPT !.at = "vrr.status"])
    /\ UNCHANGED <<env, rx, live, tv, game, mLock, failed, unsaved, raced>>

VrrStatus(t) ==
    /\ At(t, "vrr.status")
    /\ tv' = [tv EXCEPT !.vrr = call[t].on]
    /\ live' = Updated(live, rx, Ports)
    /\ Goto(t, Idle)
    /\ raced' = VrrDone
    /\ UNCHANGED <<ssm, env, rx, game, mLock, failed, unsaved>>

-----------------------------------------------------------------------------
(* The version of a port: SetHdmiEdidVersion holds mLock to its end.  A     *)
(* client sets the version of the port it watches and saves it afterwards;  *)
(* for another port, and for the version that is saved, it does nothing.    *)

SetVersion(t, p, v) ==
    /\ Begins(t) /\ mLock = None /\ unsaved = None
    /\ tv.source = p /\ ssm.version[p] # v
    /\ env' = [ssm.version EXCEPT ![p] = v]
    /\ rx' = [rx EXCEPT !.version = env']
    /\ unsaved' = [port |-> p, version |-> v]
    /\ mLock' = t
    /\ raced' = [VrrEnters(VrrCalls) EXCEPT !.late = @ \ {p}]
    /\ Goto(t, [at |-> "version.vrr", port |-> p, on |-> v = 1])
    /\ UNCHANGED <<ssm, live, tv, game, failed>>

\* Faulty variant: TV_GetVRREnable is not asked.
VersionVrr_Anyway(t) ==
    /\ At(t, "version.vrr")
    /\ IF game /\ tv.vrr # call[t].on
       THEN /\ rx' = [rx EXCEPT !.vrr = call[t].on]
            /\ Goto(t, [call[t] EXCEPT !.at = "version.status"])
       ELSE /\ Goto(t, [call[t] EXCEPT !.at = "version.update"])
            /\ UNCHANGED rx
    /\ UNCHANGED <<ssm, env, live, tv, game, mLock, failed, unsaved, raced>>

VersionVrr(t) ==
    /\ At(t, "version.vrr")
    /\ IF ssm.vrr /\ game /\ tv.vrr # call[t].on
       THEN /\ rx' = [rx EXCEPT !.vrr = call[t].on]
            /\ Goto(t, [call[t] EXCEPT !.at = "version.status"])
       ELSE /\ Goto(t, [call[t] EXCEPT !.at = "version.update"])
            /\ UNCHANGED rx
    /\ UNCHANGED <<ssm, env, live, tv, game, mLock, failed, unsaved, raced>>

VersionStatus(t) ==
    /\ At(t, "version.status")
    /\ tv' = [tv EXCEPT !.vrr = call[t].on]
    /\ Goto(t, [call[t] EXCEPT !.at = "version.update"])
    /\ raced' = VrrDone
    /\ UNCHANGED <<ssm, env, rx, live, game, mLock, failed, unsaved>>

\* Faulty variant: the port is not updated when ports are loaded one by one.
VersionUpdate_AllOnly(t) ==
    /\ At(t, "version.update")
    /\ live' = Updated(live, rx, IF tv.withPort THEN {} ELSE Ports)
    /\ mLock' = None /\ Goto(t, Idle)
    /\ UNCHANGED <<ssm, env, rx, tv, game, failed, unsaved, raced>>

VersionUpdate(t) ==
    /\ At(t, "version.update")
    /\ live' = Updated(live, rx, IF tv.withPort THEN {call[t].port} ELSE Ports)
    /\ mLock' = None /\ Goto(t, Idle)
    /\ UNCHANGED <<ssm, env, rx, tv, game, failed, unsaved, raced>>

SaveVersion(t) ==
    /\ Begins(t) /\ mLock = None /\ unsaved # None
    /\ ssm' = [ssm EXCEPT !.version[unsaved.port] = unsaved.version]
    /\ unsaved' = None
    /\ UNCHANGED <<env, rx, live, tv, game, mLock, call, failed, raced>>

-----------------------------------------------------------------------------
(* Sources and signals. *)

\* SetSourceSwitchInputLocked.
SwitchSource(t, s) ==
    /\ Begins(t) /\ mLock = None /\ s # tv.source
    /\ tv' = [tv EXCEPT !.source = s]
    /\ UNCHANGED <<ssm, env, rx, live, game, mLock, call, failed, unsaved, raced>>

\* The user, or the picture settings, at any time.
SetPqMode(on) ==
    /\ Up /\ game # on /\ game' = on
    /\ UNCHANGED <<ssm, env, rx, live, tv, mLock, call, failed, unsaved, raced>>

\* onSigToStable on an HDMI port: setPictureModeBySignal may enter the game
\* mode, and leaves it only while VRR is disabled.
SigStable ==
    /\ Begins(Poll) /\ mLock = None /\ tv.source \in Ports
    /\ game' \in {game, TRUE} \cup (IF ssm.vrr THEN {} ELSE {FALSE})
    /\ IF ssm.vrr
       THEN mLock' = Poll /\ Goto(Poll, [at |-> "sig.decide"]) /\ raced' = VrrEnters(VrrCalls)
       ELSE UNCHANGED <<mLock, call, raced>>
    /\ UNCHANGED <<ssm, env, rx, live, tv, failed, unsaved>>

\* SetVRRStatusBySignal.
SigDecide ==
    LET on == ssm.version[tv.source] = 1 /\ game
    IN  /\ At(Poll, "sig.decide")
        /\ IF on = tv.vrr
           THEN mLock' = None /\ Goto(Poll, Idle) /\ UNCHANGED rx
           ELSE /\ rx' = [rx EXCEPT !.vrr = on]
                /\ Goto(Poll, [at |-> "sig.status", on |-> on])
                /\ UNCHANGED mLock
        /\ UNCHANGED <<ssm, env, live, tv, game, failed, unsaved, raced>>

SigStatus ==
    /\ At(Poll, "sig.status")
    /\ tv' = [tv EXCEPT !.vrr = call[Poll].on]
    /\ live' = Updated(live, rx, Ports)
    /\ mLock' = None /\ Goto(Poll, Idle)
    /\ raced' = VrrDone
    /\ UNCHANGED <<ssm, env, rx, game, failed, unsaved>>

-----------------------------------------------------------------------------
Setter(t) ==
    \/ \E on \in BOOLEAN : SetDlg(t, on) \/ SetQms(t, on) \/ SetVrr(t, on)
    \/ DlgLoad(t) \/ DlgSave(t)
    \/ QmsRead(t) \/ QmsLoad(t)
    \/ VrrSave(t) \/ VrrStatus(t)
    \/ \E p \in Ports, v \in 0..1 : SetVersion(t, p, v)
    \/ VersionVrr(t) \/ VersionStatus(t) \/ VersionUpdate(t)
    \/ SaveVersion(t)
    \/ \E s \in Ports \cup Others : SwitchSource(t, s)

Step ==
    \/ OpenTv \/ Crash \/ Reboot \/ RestoreDefaults
    \/ \E t \in Callers : Setter(t)
    \/ \E on \in BOOLEAN : SetPqMode(on)
    \/ SigStable \/ SigDecide \/ SigStatus

Next == Step /\ Cardinality(Remembered(raced')) <= MaxRaced

Spec == Init /\ [][Next]_vars

-----------------------------------------------------------------------------
(* Properties. *)

\* Where a thread stands: in which setter, after which write, and with what in hand.
Steps ==
    {Off, Idle, [at |-> "qms.read"], [at |-> "sig.decide"]}
      \cup [at : {"dlg.load", "dlg.save", "qms.load", "vrr.save", "vrr.status", "sig.status"}, on : BOOLEAN]
      \cup [at : {"version.vrr", "version.status", "version.update"}, port : Ports, on : BOOLEAN]

Edids == [dlg : BOOLEAN, qms : BOOLEAN] \cup {None}

\* A port, a place of the driver and a thread each keep one record throughout.
TypeOK ==
    /\ ssm \in [version : [Ports -> 0..1], dlg : BOOLEAN, qms : BOOLEAN, vrr : BOOLEAN]
    /\ env \in [Ports -> 0..1] 
    /\ rx \in [edid : [Ports -> Edids], version : [Ports -> 0..1], vrr : BOOLEAN]
    /\ live \in [Ports -> [edid : Edids, version : 0..1]]
    /\ tv \in [withPort : BOOLEAN, vrr : BOOLEAN, init : BOOLEAN,
               source : Ports \cup Others \cup {"INVALID"}]
    /\ game \in BOOLEAN /\ mLock \in Threads \cup {None}
    /\ call \in [Threads -> Steps]
    /\ failed \in SUBSET Ports /\ unsaved \in {None} \cup [port : Ports, version : 0..1]
    /\ raced \in [edid : {"no", "before", "now"}, vrr : {"no", "before", "now"},
                  late : SUBSET Ports]

\* Nothing is under way, and a load has succeeded since the server started.
Settled == (\A t \in Threads : call[t] = Idle) /\ ~tv.init

\* Once nothing is under way every place that holds a setting agrees on it.
\*   - A port offers DLG and QMS as they are set, unless its last load failed:
\*     the two setters save in another order, either may be cut short by a
\*     crash, and each writes what it believes of the other's switch.
\*   - Boot loader, driver and settings agree on the version of each port, but
\*     for the one a client has set and not saved, and one that was not saved
\*     when the first load came, until a version is set for its port again.
\*   - CTv knows whether the driver's VRR is on, and it is on only if the user
\*     has enabled it, whoever switched it last: the setter, a version, a signal
\*     or a start.
\* Setters of DLG and QMS that crossed each other, and of VRR that crossed who
\* switches it, may leave it otherwise, until the next one that is alone.
PlacesAgree ==
    Settled =>
      /\ raced.edid = "no" =>
           \A p \in Ports \ failed : live[p].edid = [dlg |-> ssm.dlg, qms |-> ssm.qms]
      /\ \A p \in Ports \ raced.late :
           LET v == IF unsaved # None /\ unsaved.port = p THEN unsaved.version ELSE ssm.version[p]
           IN  env[p] = v /\ rx.version[p] = v /\ live[p].version = v
      /\ raced.vrr = "no" => tv.vrr = rx.vrr /\ (rx.vrr => ssm.vrr)
=============================================================================
