---------------------------- MODULE Kept_proofs ----------------------------
(***************************************************************************)
(* Proofs about what is kept in more places than one.                      *)
(*                                                                         *)
(* HdmiEdid: once nothing is under way, the settings, the boot loader, the *)
(* driver, what the ports show and CTv's own fields agree, for any number  *)
(* of ports and of binder threads, but for what setters have left that no  *)
(* lock keeps apart, until one of them is done alone.                      *)
(*                                                                         *)
(* PlacesAgree speaks of quiet moments only; the invariant says what each  *)
(* thread owes at the place where it stands.  EdidInv: the driver holds,   *)
(* and the ports show, the EDID of the saved switches, or of the switch    *)
(* that SetDlg is about to save.  VersionInv: a port shows the driver's    *)
(* version, or SetHdmiEdidVersion is on its way to update it.  VrrInv: CTv *)
(* knows the driver's VRR, or the thread that changed it is about to say   *)
(* so.  Held and Apart tell which threads may be under way together, as    *)
(* long as raced does not say that they have crossed.                      *)
(*                                                                         *)
(* Panel: what a start of CTvPanel may rely on of the files that earlier   *)
(* ones have left, for any panels and any failures.                        *)
(***************************************************************************)
EXTENDS HdmiEdid, Panel, TLAPS

VersionCalls == {"version.vrr", "version.status", "version.update"}

\* From the write of VRR to the driver until CTv knows.
VrrSet == {"vrr.save", "vrr.status", "version.status", "sig.status"}

OnCalls == {"dlg.load", "dlg.save", "qms.load", "vrr.save", "vrr.status", "sig.status"}

-----------------------------------------------------------------------------
(* The inductive invariant. *)

\* A server that is down runs no thread and holds nothing.
Down == ~Up => (\A t \in Threads : call[t] = Off) /\ mLock = None /\ unsaved = None /\ tv.init

\* SetHdmiEdidVersion and the reports of a signal hold mLock.
Held == \A t \in Threads : call[t].at \in OtherCalls => mLock = t

\* Who has not crossed another: one thread at a time loads an EDID, one sets
\* VRR, and nobody sets a version or reports a signal meanwhile.
Apart ==
    \A t, u \in Threads : t # u =>
        /\ raced.edid # "now" /\ call[t].at \in LoadCalls => call[u].at \notin LoadCalls
        /\ raced.vrr # "now" /\ call[t].at \in VrrCalls =>
             call[u].at \notin VrrCalls \cup OtherCalls

\* The driver has the EDID that the switches ask for, and the port shows it.
Offers(p, dlg) ==
    /\ rx.edid[p] = [dlg |-> dlg, qms |-> ssm.qms]
    /\ live[p].edid = [dlg |-> dlg, qms |-> ssm.qms]

EdidInv ==
    /\ raced.edid # "now" => \A t \in Threads : At(t, "qms.load") => call[t].on = ssm.dlg
    /\ raced.edid = "no" => \A p \in Ports \ failed :
         /\ (\A t \in Threads : call[t].at \notin LoadCalls \ {"dlg.load"}) => Offers(p, ssm.dlg)
         /\ \A t \in Threads : At(t, "dlg.save") => Offers(p, call[t].on)

\* The version that is meant: the one a client has set and not saved, or the saved one.
Version(p) == IF unsaved # None /\ unsaved.port = p THEN unsaved.version ELSE ssm.version[p]

VersionInv ==
    /\ \A p \in Ports : env[p] = Version(p)
    /\ tv.init => raced.late = {}
    /\ ~tv.init => \A p \in Ports \ raced.late :
         /\ rx.version[p] = env[p]
         /\ \/ live[p].version = rx.version[p]
            \/ \E t \in Threads : call[t].at \in VersionCalls /\ call[t].port = p

VrrInv ==
    /\ ~tv.init /\ raced.vrr = "no" /\ (\A t \in Threads : call[t].at \notin VrrSet) =>
         tv.vrr = rx.vrr /\ (rx.vrr => ssm.vrr)
    /\ raced.vrr # "now" => \A t \in Threads :
         /\ call[t].at \in VrrSet => rx.vrr = call[t].on
         /\ At(t, "vrr.status") => ssm.vrr = call[t].on
         /\ call[t].at \in {"version.status", "sig.decide", "sig.status"} => ssm.vrr

IInv == TypeOK /\ Down /\ Held /\ Apart /\ EdidInv /\ VersionInv /\ VrrInv

-----------------------------------------------------------------------------
(* The driver. *)

Rx == [edid : [Ports -> Edids], version : [Ports -> 0..1], vrr : BOOLEAN]
Live == [Ports -> [edid : Edids, version : 0..1]]
Tv == [withPort : BOOLEAN, vrr : BOOLEAN, init : BOOLEAN, source : Ports \cup Others \cup {"INVALID"}]
Races == {"no", "before", "now"}

\* An update gives the ports it names what the driver has, and the others nothing.
LEMMA UpdatedGives ==
    ASSUME NEW l \in Live, NEW r \in Rx, NEW ps \in SUBSET Ports
    PROVE  /\ Updated(l, r, ps) \in Live
           /\ \A p \in ps : Updated(l, r, ps)[p] = [edid |-> r.edid[p], version |-> r.version[p]]
           /\ \A p \in Ports \ ps : Updated(l, r, ps)[p] = l[p]
BY DEF Live, Rx, Updated

\* A load sets the EDID of every port that is not bad, and the versions and VRR
\* only when it is the first of a start.
LEMMA LoadGives ==
    ASSUME TypeOK, NEW dlg \in BOOLEAN, NEW bad \in SUBSET Ports, Load(dlg, bad)
    PROVE  /\ rx' \in Rx /\ tv' \in Tv /\ live' \in Live /\ failed' = bad
           /\ ~tv'.init
           /\ tv.init => rx'.version = ssm.version /\ ~rx'.vrr /\ ~tv'.vrr
           /\ ~tv.init => rx'.version = rx.version /\ rx'.vrr = rx.vrr /\ tv'.vrr = tv.vrr
           /\ \A p \in Ports : live'[p].version = rx'.version[p] /\ live'[p].edid = rx'.edid[p]
           /\ \A p \in Ports \ bad : rx'.edid[p] = [dlg |-> dlg, qms |-> ssm.qms]
           /\ raced' \in [edid : Races, vrr : Races, late : SUBSET Ports]
           /\ raced'.edid = "now" <=> raced.edid = "now"
           /\ tv.init /\ raced'.vrr # "now" => \A t \in Threads : call[t].at \notin VrrCalls
           /\ ~tv.init => raced'.vrr = raced.vrr /\ raced'.late = raced.late
           /\ tv.init => IF unsaved # None THEN raced'.late = {unsaved.port}
                                           ELSE raced'.late = raced.late
<1>1. Loaded(dlg, bad) \in [Ports -> Edids]
  BY DEF Loaded, TypeOK, Edids, Rx
<1>2. rx' \in Rx
  BY <1>1 DEF Load, TypeOK, Rx
<1>3. tv' \in Tv
  BY DEF Load, TypeOK, Tv
<1>4. live' = Updated(live, rx', Ports) /\ live \in Live
  BY DEF Load, TypeOK, Live
<1>5. live' \in Live /\ \A p \in Ports : live'[p] = [edid |-> rx'.edid[p], version |-> rx'.version[p]]
  BY <1>2, <1>4, UpdatedGives
<1>6. /\ ~tv'.init /\ failed' = bad
      /\ tv.init => rx'.version = ssm.version /\ ~rx'.vrr /\ ~tv'.vrr
      /\ ~tv.init => rx'.version = rx.version /\ rx'.vrr = rx.vrr /\ tv'.vrr = tv.vrr
  BY DEF Load, TypeOK
<1>7. \A p \in Ports \ bad : rx'.edid[p] = [dlg |-> dlg, qms |-> ssm.qms]
  <2>1. rx'.edid = Loaded(dlg, bad)
    BY DEF Load, TypeOK
  <2>. QED
    BY <2>1 DEF Loaded
<1>8. \A p \in Ports : live'[p].version = rx'.version[p] /\ live'[p].edid = rx'.edid[p]
  <2>1. ASSUME NEW p \in Ports
        PROVE  live'[p].version = rx'.version[p] /\ live'[p].edid = rx'.edid[p]
    <3>1. live'[p] = [edid |-> rx'.edid[p], version |-> rx'.version[p]]
      BY <1>5
    <3>. QED
      BY <3>1
  <2>. QED
    BY <2>1
<1>9. /\ raced' \in [edid : Races, vrr : Races, late : SUBSET Ports]
      /\ raced'.edid = "now" <=> raced.edid = "now"
      /\ tv.init /\ raced'.vrr # "now" => \A t \in Threads : call[t].at \notin VrrCalls
      /\ ~tv.init => raced'.vrr = raced.vrr /\ raced'.late = raced.late
      /\ tv.init => IF unsaved # None THEN raced'.late = {unsaved.port}
                                      ELSE raced'.late = raced.late
  BY EdidAssumption DEF Load, TypeOK, Reloaded, Done, Busy, Races
<1>. QED
  BY <1>2, <1>3, <1>5, <1>6, <1>7, <1>8, <1>9

-----------------------------------------------------------------------------
(* What is remembered of races. *)

\* A setter of DLG or QMS that crosses nobody is alone among them.
LEMMA EdidEnters ==
    ASSUME TypeOK, raced' = [raced EXCEPT !.edid = Entered(@, Busy(LoadCalls))]
    PROVE  /\ raced' \in [edid : Races, vrr : Races, late : SUBSET Ports]
           /\ raced'.vrr = raced.vrr /\ raced'.late = raced.late
           /\ raced'.edid # "now" => \A t \in Threads : call[t].at \notin LoadCalls
           /\ raced'.edid = "no" => raced.edid = "no"
BY DEF TypeOK, Entered, Busy, Races

\* So is one of VRR among those that are looked at.
LEMMA VrrEntersGives ==
    ASSUME TypeOK, NEW places, raced' = VrrEnters(places)
    PROVE  /\ raced' \in [edid : Races, vrr : Races, late : SUBSET Ports]
           /\ raced'.edid = raced.edid /\ raced'.late = raced.late
           /\ raced'.vrr # "now" => \A t \in Threads : call[t].at \notin places
           /\ raced'.vrr = "no" => raced.vrr = "no"
BY DEF TypeOK, VrrEnters, Entered, Busy, Races

\* One that is alone to its end settles VRR.
LEMMA VrrDoneGives ==
    ASSUME TypeOK, raced' = VrrDone
    PROVE  /\ raced' \in [edid : Races, vrr : Races, late : SUBSET Ports]
           /\ raced'.edid = raced.edid /\ raced'.late = raced.late
           /\ raced'.vrr = "now" <=> raced.vrr = "now"
BY DEF TypeOK, VrrDone, Done, Races

-----------------------------------------------------------------------------
(* Threads and places. *)

\* The place of a thread tells what else its record has.
LEMMA StepFields ==
    ASSUME TypeOK, NEW t \in Threads
    PROVE  /\ call[t] \in Steps
           /\ call[t].at \in OnCalls => call[t] \in [at : OnCalls, on : BOOLEAN]
           /\ call[t].at \in VersionCalls =>
                call[t] \in [at : VersionCalls, port : Ports, on : BOOLEAN]
           /\ call[t].at = "idle" => call[t] = Idle
           /\ call[t].at = "off" => call[t] = Off
BY DEF TypeOK, Steps, OnCalls, VersionCalls, Idle, Off

\* Whoever finds mLock free meets no thread in a locked call.
LEMMA NobodyLocks ==
    ASSUME IInv, mLock = None
    PROVE  \A t \in Threads : call[t].at \notin OtherCalls
BY EdidAssumption DEF IInv, Held, Threads, Poll

\* One thread goes on and the others stay.
LEMMA Moves ==
    ASSUME TypeOK, NEW t \in Threads, NEW c \in Steps, Goto(t, c)
    PROVE  /\ call' \in [Threads -> Steps] /\ call'[t] = c
           /\ \A u \in Threads \ {t} : call'[u] = call[u]
BY DEF TypeOK, Goto

\* No step of a thread takes the server down.
LEMMA StaysUp ==
    ASSUME IInv, NEW t \in Threads, call[t] # Off, NEW c, c # Off, Goto(t, c)
    PROVE  Down'
<1>1. Up /\ Poll \in Threads
  BY DEF IInv, Down, Threads
<1>2. call'[Poll] # Off
  BY <1>1 DEF IInv, TypeOK, Goto, Up
<1>. QED
  BY <1>2 DEF Down, Up

\* A load leaves the driver with the versions of the boot environment, but for
\* one that it takes back.
LEMMA VersionKept ==
    ASSUME IInv, tv.init => rx'.version = ssm.version, ~tv.init => rx'.version = rx.version,
           ~tv.init => raced'.late = raced.late,
           tv.init => IF unsaved # None THEN raced'.late = {unsaved.port}
                                       ELSE raced'.late = raced.late,
           \A p \in Ports : live'[p].version = rx'.version[p],
           UNCHANGED <<ssm, env, unsaved>>, ~tv'.init
    PROVE  VersionInv'
<1>1. \A p \in Ports : env'[p] = Version(p)'
  BY DEF IInv, VersionInv, Version
<1>2. ASSUME NEW p \in Ports \ raced'.late
      PROVE  rx'.version[p] = env'[p]
  <2>1. CASE tv.init
    <3>1. unsaved # None => p # unsaved.port
      BY <2>1, <1>2
    <3>. QED
      BY <2>1, <3>1 DEF IInv, VersionInv, Version
  <2>2. CASE ~tv.init
    BY <2>2, <1>2 DEF IInv, VersionInv
  <2>. QED
    BY <2>1, <2>2
<1>. QED
  BY <1>1, <1>2 DEF VersionInv

\* A new start, whatever the settings that survive.
LEMMA RestartKeeps ==
    ASSUME IInv, NEW reboot \in BOOLEAN, 
           NEW saved \in [version : [Ports -> 0..1], dlg : BOOLEAN, qms : BOOLEAN, vrr : BOOLEAN],
           Restart(reboot, saved)
    PROVE  IInv'
<1>1. /\ ssm' = saved /\ env' = saved.version /\ tv' = Started(tv.withPort)
      /\ mLock' = None /\ call' = [t \in Threads |-> Off] /\ unsaved' = None
      /\ failed' = Ports /\ raced' = Unraced /\ UNCHANGED game
  BY DEF Restart
<1>2. TypeOK /\ rx \in Rx /\ live \in Live
  BY DEF IInv, TypeOK, Rx, Live
<1>3. rx' \in Rx
  BY <1>2 DEF Restart, Booted, Rx, Edids, TypeOK
<1>4. live' \in Live
  BY <1>2, <1>3, UpdatedGives DEF Restart
<1>5. TypeOK'
  BY <1>1, <1>2, <1>3, <1>4 DEF TypeOK, Started, Steps, Rx, Live, Unraced
<1>6. \A t \in Threads : call'[t] = Off /\ call'[t].at = "off"
  BY <1>1 DEF Off
<1>7. tv'.init
  BY <1>1 DEF Started
<1>8. Down' /\ Held' /\ Apart'
  BY <1>1, <1>6, <1>7 DEF Down, Held, Apart, OtherCalls, LoadCalls, VrrCalls
<1>9. EdidInv'
  BY <1>1, <1>6 DEF EdidInv, At
<1>10. VersionInv'
  BY <1>1, <1>7 DEF VersionInv, Version, Unraced
<1>11. VrrInv'
  BY <1>6, <1>7 DEF VrrInv, VrrSet, At
<1>. QED
  BY <1>5, <1>8, <1>9, <1>10, <1>11 DEF IInv

\* An update takes no EDID away that a port offers.
LEMMA UpdateGives ==
    ASSUME TypeOK, NEW ps \in SUBSET Ports, live' = Updated(live, rx, ps),
           rx' = rx, ssm' = ssm
    PROVE  /\ live' \in Live
           /\ \A p \in ps : live'[p].edid = rx.edid[p] /\ live'[p].version = rx.version[p]
           /\ \A p \in Ports \ ps : live'[p] = live[p]
           /\ \A p \in Ports, dlg \in BOOLEAN : Offers(p, dlg) => Offers(p, dlg)'
<1>0. rx \in Rx /\ live \in Live
  BY DEF TypeOK, Rx, Live
<1>1. /\ live' \in Live
      /\ \A p \in ps : live'[p] = [edid |-> rx.edid[p], version |-> rx.version[p]]
      /\ \A p \in Ports \ ps : live'[p] = live[p]
  BY <1>0, UpdatedGives
<1>2. ASSUME NEW p \in ps
      PROVE  live'[p].edid = rx.edid[p] /\ live'[p].version = rx.version[p]
  <2>1. live'[p] = [edid |-> rx.edid[p], version |-> rx.version[p]]
    BY <1>1
  <2>. QED
    BY <2>1
<1>3. ASSUME NEW p \in Ports, NEW dlg \in BOOLEAN, Offers(p, dlg)
      PROVE  Offers(p, dlg)'
  BY <1>1, <1>2, <1>3 DEF Offers
<1>. QED
  BY <1>1, <1>2, <1>3

\* EdidInv survives every step that loads nothing, keeps the switches and what
\* the ports offer, and moves only threads that are not amid a load.
LEMMA EdidKept ==
    ASSUME IInv, UNCHANGED <<ssm, failed>>, raced'.edid = raced.edid,
           \A p \in Ports, dlg \in BOOLEAN : Offers(p, dlg) => Offers(p, dlg)',
           \A t \in Threads : \/ call'[t] = call[t]
                              \/ /\ call[t].at \notin LoadCalls \ {"dlg.load"}
                                 /\ call'[t].at \notin LoadCalls \ {"dlg.load"}
    PROVE  EdidInv'
<1>1. ASSUME NEW t \in Threads, call'[t].at = "qms.load", raced.edid # "now"
      PROVE  call'[t].on = ssm'.dlg
  BY <1>1 DEF IInv, EdidInv, At, LoadCalls
<1>2. ASSUME NEW p \in Ports \ failed, raced.edid = "no",
             \A t \in Threads : call'[t].at \notin LoadCalls \ {"dlg.load"}
      PROVE  Offers(p, ssm.dlg)'
  <2>1. \A t \in Threads : call[t].at \notin LoadCalls \ {"dlg.load"}
    BY <1>2
  <2>2. Offers(p, ssm.dlg) /\ ssm.dlg \in BOOLEAN
    BY <1>2, <2>1 DEF IInv, EdidInv, TypeOK
  <2>. QED
    BY <2>2
<1>3. ASSUME NEW p \in Ports \ failed, raced.edid = "no", NEW t \in Threads, call'[t].at = "dlg.save"
      PROVE  Offers(p, call[t].on)' /\ call'[t] = call[t]
  <2>1. call'[t] = call[t] /\ call[t].at = "dlg.save"
    BY <1>3 DEF LoadCalls
  <2>2. call[t].on \in BOOLEAN
    BY <2>1, StepFields DEF IInv, OnCalls
  <2>3. Offers(p, call[t].on)
    BY <1>3, <2>1 DEF IInv, EdidInv, At
  <2>4. \A dlg \in BOOLEAN : Offers(p, dlg) => Offers(p, dlg)'
    OBVIOUS
  <2>. QED
    BY <2>1, <2>2, <2>3, <2>4 DEF Offers
<1>. QED
  BY <1>1, <1>2, <1>3 DEF EdidInv, At

-----------------------------------------------------------------------------
(* Starting and ending the server. *)

\* The first load of a start, which may be refused.
LEMMA OpenTvKeeps ==
    ASSUME IInv, OpenTv
    PROVE  IInv'
<1>0. Poll \in Threads /\ Callers \subseteq Threads /\ TypeOK
  BY DEF Threads, IInv
<1>a. ~Up /\ call' = [t \in Threads |-> Idle] /\ ssm' = [ssm EXCEPT !.dlg = SupportDlg /\ @]
      /\ UNCHANGED <<env, game, mLock, unsaved>>
  BY DEF OpenTv
<1>b. mLock = None /\ unsaved = None /\ tv.init /\ \A p \in Ports : env[p] = ssm.version[p]
  BY <1>a DEF IInv, Down, VersionInv, Version
<1>c. ASSUME NEW bad \in SUBSET Ports, Load(SupportDlg /\ ssm.dlg, bad)
      PROVE  IInv'
  <2>1. (SupportDlg /\ ssm.dlg) \in BOOLEAN
    BY <1>0, EdidAssumption DEF TypeOK
  <2>. DEFINE dlg == SupportDlg /\ ssm.dlg
  <2>2. dlg \in BOOLEAN /\ Load(dlg, bad)
    BY <2>1, <1>c
  <2>. HIDE DEF dlg
  <2>3. /\ rx' \in Rx /\ tv' \in Tv /\ live' \in Live /\ failed' = bad
        /\ ~tv'.init /\ rx'.version = ssm.version /\ ~rx'.vrr /\ ~tv'.vrr
        /\ \A p \in Ports : live'[p].version = rx'.version[p] /\ live'[p].edid = rx'.edid[p]
        /\ \A p \in Ports \ bad : rx'.edid[p] = [dlg |-> dlg, qms |-> ssm.qms]
        /\ raced' \in [edid : Races, vrr : Races, late : SUBSET Ports] /\ raced'.late = raced.late
    BY <2>2, <1>0, <1>b, LoadGives
  <2>4. ssm' = [ssm EXCEPT !.dlg = dlg]
    BY <1>a DEF dlg
  <2>5. TypeOK'
    BY <2>2, <2>3, <2>4, <1>0, <1>a DEF TypeOK, Steps, Idle, Rx, Tv, Live, Races
  <2>6. \A t \in Threads : call'[t].at = "idle"
    BY <1>a DEF Idle
  <2>7. Down' /\ Held' /\ Apart'
    BY <1>0, <1>a, <2>6 DEF Down, Up, Idle, Off, Held, Apart, LoadCalls, VrrCalls, OtherCalls
  <2>8. ssm'.dlg = dlg /\ ssm'.qms = ssm.qms /\ ssm'.version = ssm.version
    BY <2>4, <1>0 DEF TypeOK
  <2>9. EdidInv'
    BY <2>3, <2>6, <2>8 DEF EdidInv, Offers, At
  <2>10. rx'.version = env'
    BY <1>0, <1>a, <1>b, <2>3 DEF TypeOK
  <2>11. VersionInv'
    BY <1>a, <1>b, <2>3, <2>8, <2>10 DEF IInv, VersionInv, Version
  <2>12. VrrInv'
    BY <2>3, <2>6 DEF VrrInv, VrrSet, At, Rx, Tv
  <2>. QED
    BY <2>5, <2>7, <2>9, <2>11, <2>12 DEF IInv
<1>d. ASSUME Refused(Ports)
      PROVE  IInv'
  <2>1. failed' = Ports /\ UNCHANGED <<rx, tv, live, raced>>
    BY <1>d DEF Refused
  <2>2. TypeOK'
    BY <2>1, <1>0, <1>a, EdidAssumption DEF TypeOK, Steps, Idle
  <2>3. \A t \in Threads : call'[t].at = "idle"
    BY <1>a DEF Idle
  <2>4. Down' /\ Held' /\ Apart'
    BY <1>0, <1>a, <2>3 DEF Down, Up, Idle, Off, Held, Apart, LoadCalls, VrrCalls, OtherCalls
  <2>5. EdidInv'
    BY <2>1, <2>3 DEF EdidInv, At
  <2>6. ssm'.version = ssm.version
    BY <1>a, <1>0 DEF TypeOK
  <2>7. VersionInv'
    BY <1>a, <1>b, <2>1, <2>6 DEF IInv, VersionInv, Version
  <2>8. VrrInv'
    BY <1>b, <2>1, <2>3 DEF VrrInv, VrrSet, At
  <2>. QED
    BY <2>2, <2>4, <2>5, <2>7, <2>8 DEF IInv
<1>. QED
  BY <1>c, <1>d DEF OpenTv

\* A crash keeps the settings and what the driver has.
LEMMA CrashKeeps ==
    ASSUME IInv, Crash
    PROVE  IInv'
<1>0. Poll \in Threads /\ Callers \subseteq Threads /\ TypeOK
  BY DEF Threads, IInv
<1>1. ssm \in [version : [Ports -> 0..1], dlg : BOOLEAN, qms : BOOLEAN, vrr : BOOLEAN]
  BY <1>0 DEF TypeOK, Defaults, Versions
<1>. QED
  BY <1>1, RestartKeeps DEF Crash

\* A reboot empties the driver.
LEMMA RebootKeeps ==
    ASSUME IInv, Reboot
    PROVE  IInv'
<1>0. Poll \in Threads /\ Callers \subseteq Threads /\ TypeOK
  BY DEF Threads, IInv
<1>1. ssm \in [version : [Ports -> 0..1], dlg : BOOLEAN, qms : BOOLEAN, vrr : BOOLEAN]
  BY <1>0 DEF TypeOK, Defaults, Versions
<1>. QED
  BY <1>1, RestartKeeps DEF Reboot

\* The defaults, and the restart that follows.
LEMMA RestoreDefaultsKeeps ==
    ASSUME IInv, RestoreDefaults
    PROVE  IInv'
<1>0. Poll \in Threads /\ Callers \subseteq Threads /\ TypeOK
  BY DEF Threads, IInv
<1>1. Defaults \in [version : [Ports -> 0..1], dlg : BOOLEAN, qms : BOOLEAN, vrr : BOOLEAN]
  BY <1>0 DEF TypeOK, Defaults, Versions
<1>. QED
  BY <1>1, RestartKeeps DEF RestoreDefaults

-----------------------------------------------------------------------------
(* The setters. *)

\* From here the new DLG switch is neither loaded nor saved.
LEMMA SetDlgKeeps ==
    ASSUME IInv, NEW t \in Callers, NEW on \in BOOLEAN, SetDlg(t, on)
    PROVE  IInv'
<1>0. Poll \in Threads /\ Callers \subseteq Threads /\ TypeOK
  BY DEF Threads, IInv
<1>r. /\ raced' \in [edid : Races, vrr : Races, late : SUBSET Ports]
      /\ raced'.vrr = raced.vrr /\ raced'.late = raced.late
      /\ raced'.edid # "now" => \A u \in Threads : call[u].at \notin LoadCalls
      /\ raced'.edid = "no" => raced.edid = "no"
  BY <1>0, EdidEnters DEF SetDlg
<1>1. TypeOK'
  BY <1>0, <1>r DEF TypeOK, SetDlg, Begins, Goto, Steps, Races
<1>2. Down'
  BY <1>0, StaysUp DEF SetDlg, At, Begins, Idle, Off
<1>3. Held'
  BY <1>0 DEF IInv, Held, OtherCalls, SetDlg, Begins, Goto
<1>4. Apart'
  BY <1>0, <1>r DEF IInv, Apart, LoadCalls, VrrCalls, OtherCalls, SetDlg, Begins, Goto
<1>5. EdidInv'
  BY <1>0, <1>r DEF IInv, EdidInv, Offers, At, LoadCalls, SetDlg, Begins, Goto
<1>6. VersionInv'
  BY <1>0, <1>r DEF IInv, VersionInv, Version, VersionCalls, SetDlg, Begins, Goto, Idle, Off
<1>7. VrrInv'
  BY <1>0, <1>r DEF IInv, VrrInv, VrrSet, At, SetDlg, Begins, Goto, Idle, Off
<1>. QED
  BY <1>1, <1>2, <1>3, <1>4, <1>5, <1>6, <1>7 DEF IInv

\* Saved first: the ports owe the new switch until the load.
LEMMA SetQmsKeeps ==
    ASSUME IInv, NEW t \in Callers, NEW on \in BOOLEAN, SetQms(t, on)
    PROVE  IInv'
<1>0. Poll \in Threads /\ Callers \subseteq Threads /\ TypeOK
  BY DEF Threads, IInv
<1>r. /\ raced' \in [edid : Races, vrr : Races, late : SUBSET Ports]
      /\ raced'.vrr = raced.vrr /\ raced'.late = raced.late
      /\ raced'.edid # "now" => \A u \in Threads : call[u].at \notin LoadCalls
      /\ raced'.edid = "no" => raced.edid = "no"
  BY <1>0, EdidEnters DEF SetQms
<1>1. TypeOK'
  BY <1>0, <1>r DEF TypeOK, SetQms, Begins, Goto, Steps, Races
<1>2. Down'
  BY <1>0, StaysUp DEF SetQms, At, Begins, Idle, Off
<1>3. Held'
  BY <1>0 DEF IInv, Held, OtherCalls, SetQms, Begins, Goto
<1>4. Apart'
  BY <1>0, <1>r DEF IInv, Apart, LoadCalls, VrrCalls, OtherCalls, SetQms, Begins, Goto
<1>5. EdidInv'
  BY <1>0, <1>r, EdidAssumption DEF IInv, EdidInv, Offers, At, LoadCalls, SetQms, Begins, Goto, Idle,
      Off, TypeOK, Steps
<1>6. VersionInv'
  BY <1>0, <1>r DEF IInv, VersionInv, Version, VersionCalls, SetQms, Begins, Goto, Idle, Off
<1>7. VrrInv'
  BY <1>0, <1>r DEF IInv, VrrInv, VrrSet, At, SetQms, Begins, Goto, Idle, Off
<1>. QED
  BY <1>1, <1>2, <1>3, <1>4, <1>5, <1>6, <1>7 DEF IInv

\* The driver is ahead of CTv.
LEMMA SetVrrKeeps ==
    ASSUME IInv, NEW t \in Callers, NEW on \in BOOLEAN, SetVrr(t, on)
    PROVE  IInv'
<1>0. Poll \in Threads /\ Callers \subseteq Threads /\ TypeOK
  BY DEF Threads, IInv
<1>r. /\ raced' \in [edid : Races, vrr : Races, late : SUBSET Ports]
      /\ raced'.edid = raced.edid /\ raced'.late = raced.late
      /\ raced'.vrr # "now" => \A u \in Threads : call[u].at \notin VrrCalls \cup OtherCalls
      /\ raced'.vrr = "no" => raced.vrr = "no"
  BY <1>0, VrrEntersGives DEF SetVrr
<1>a. /\ call[t] = Idle /\ Up /\ rx' = [rx EXCEPT !.vrr = on]
      /\ Goto(t, [at |-> "vrr.save", on |-> on])
      /\ UNCHANGED <<ssm, env, live, tv, game, mLock, failed, unsaved>>
  BY DEF SetVrr, Begins
<1>b. t \in Threads /\ [at |-> "vrr.save", on |-> on] \in Steps
  BY <1>0 DEF Steps
<1>d. /\ call' \in [Threads -> Steps] /\ call'[t] = [at |-> "vrr.save", on |-> on]
      /\ \A u \in Threads \ {t} : call'[u] = call[u]
  BY <1>a, <1>b, <1>0, Moves
<1>e. rx' \in Rx /\ rx'.edid = rx.edid /\ rx'.version = rx.version /\ rx'.vrr = on
  BY <1>0, <1>a DEF TypeOK, Rx
<1>1. TypeOK'
  BY <1>0, <1>r, <1>a, <1>d, <1>e DEF TypeOK, Rx, Races
<1>2. Down'
  BY <1>0, StaysUp DEF SetVrr, At, Begins, Idle, Off
<1>3. Held'
  BY <1>0 DEF IInv, Held, OtherCalls, SetVrr, Begins, Goto
<1>4. Apart'
  BY <1>a, <1>d, <1>r DEF IInv, Apart, LoadCalls, VrrCalls, OtherCalls
<1>5. EdidInv'
  <2>1. \A p \in Ports, dlg \in BOOLEAN : Offers(p, dlg) => Offers(p, dlg)'
    BY <1>a, <1>e DEF Offers
  <2>. QED
    BY <2>1, <1>a, <1>d, <1>r, EdidKept DEF LoadCalls, Idle
<1>6. VersionInv'
  BY <1>a, <1>b, <1>d, <1>e, <1>r DEF IInv, VersionInv, Version, VersionCalls, Idle
<1>7. VrrInv'
  <2>1. call'[t].at = "vrr.save" /\ call'[t].on = on /\ t \in Threads
    BY <1>b, <1>d
  <2>2. raced'.vrr # "now" => \A u \in Threads \ {t} : call'[u].at \notin VrrCalls \cup OtherCalls
    BY <1>d, <1>r
  <2>. QED
    BY <1>e, <2>1, <2>2 DEF VrrInv, VrrSet, VrrCalls, OtherCalls, At
<1>. QED
  BY <1>1, <1>2, <1>3, <1>4, <1>5, <1>6, <1>7 DEF IInv

\* The EDID of the new switch, which is saved next; a refused load changes nothing.
LEMMA DlgLoadKeeps ==
    ASSUME IInv, NEW t \in Callers, DlgLoad(t)
    PROVE  IInv'
<1>0. Poll \in Threads /\ Callers \subseteq Threads /\ TypeOK
  BY DEF Threads, IInv
<1>a. /\ call[t].at = "dlg.load" /\ mLock = None
      /\ UNCHANGED <<ssm, env, game, mLock, unsaved>>
  BY DEF DlgLoad, At
<1>b. t \in Threads /\ t # Poll /\ call[t] \in [at : OnCalls, on : BOOLEAN] /\ call[t].on \in BOOLEAN
  BY <1>0, <1>a, StepFields, EdidAssumption DEF OnCalls, Poll
<1>c. /\ \A u \in Threads : call[u].at \notin OtherCalls
      /\ raced.edid # "now" => \A u \in Threads \ {t} : call[u].at \notin LoadCalls
  BY <1>0, <1>a, <1>b, NobodyLocks DEF IInv, Apart, LoadCalls, VrrCalls, OtherCalls
<1>d. Up
  BY <1>a, <1>b DEF IInv, Down, Off, OnCalls
<1>e. ASSUME NEW bad \in SUBSET Ports, Load(call[t].on, bad), Goto(t, [call[t] EXCEPT !.at = "dlg.save"])
      PROVE  IInv'
  <2>1. /\ rx' \in Rx /\ tv' \in Tv /\ live' \in Live /\ failed' = bad
        /\ ~tv'.init
        /\ tv.init => rx'.version = ssm.version /\ ~rx'.vrr /\ ~tv'.vrr
        /\ ~tv.init => rx'.version = rx.version /\ rx'.vrr = rx.vrr /\ tv'.vrr = tv.vrr
        /\ \A p \in Ports : live'[p].version = rx'.version[p] /\ live'[p].edid = rx'.edid[p]
        /\ \A p \in Ports \ bad : rx'.edid[p] = [dlg |-> call[t].on, qms |-> ssm.qms]
        /\ raced' \in [edid : Races, vrr : Races, late : SUBSET Ports]
        /\ raced'.edid = "now" <=> raced.edid = "now"
        /\ tv.init /\ raced'.vrr # "now" => \A u \in Threads : call[u].at \notin VrrCalls
        /\ ~tv.init => raced'.vrr = raced.vrr /\ raced'.late = raced.late
        /\ tv.init => IF unsaved # None THEN raced'.late = {unsaved.port}
                                        ELSE raced'.late = raced.late
    BY <1>0, <1>b, <1>e, LoadGives
  <2>2. /\ call'[t] = [at |-> "dlg.save", on |-> call[t].on]
        /\ \A u \in Threads \ {t} : call'[u] = call[u]
        /\ call' \in [Threads -> Steps]
    BY <1>0, <1>a, <1>b, <1>e DEF TypeOK, Goto, Steps, Idle
  <2>3. TypeOK'
    BY <2>1, <2>2, <1>0, <1>a DEF TypeOK, Rx, Tv, Live, Races
  <2>4. /\ \A u \in Threads : call'[u].at \notin OtherCalls
        /\ raced.edid # "now" => \A u \in Threads \ {t} : call'[u].at \notin LoadCalls
        /\ \A u \in Threads : call'[u].at \in VrrCalls => call'[u] = call[u]
        /\ call'[t].at = "dlg.save" /\ call'[t].on = call[t].on
    BY <2>2, <1>c DEF OtherCalls, VrrCalls, LoadCalls, Idle
  <2>5. Down' /\ Held'
    BY <1>b, <1>d, <2>2, <2>4, <1>0 DEF Down, Up, Held
  <2>10. Apart'
    BY <1>0, <1>b, <2>1, <2>2, <2>4 DEF IInv, Apart, VrrCalls
  <2>6. EdidInv'
    BY <1>0, <1>a, <2>1, <2>2, <2>4, <1>b DEF EdidInv, Offers, At, LoadCalls
  <2>8. VersionInv'
    BY <1>a, <2>1, VersionKept
  <2>9. VrrInv'
    <3>1. \A u \in Threads : call'[u].at \in VrrSet => call'[u] = call[u] /\ call[u].at \in VrrCalls
      BY <2>4 DEF VrrSet, VrrCalls, OtherCalls
    <3>2. \A u \in Threads : call'[u].at \notin {"version.status", "sig.decide", "sig.status"}
      BY <2>4 DEF OtherCalls
    <3>3. (\A u \in Threads : call'[u].at \notin VrrSet) =>
             \A u \in Threads : call[u].at \notin VrrSet
      BY <1>a, <1>c, <2>2 DEF VrrSet, OtherCalls
    <3>. QED
      BY <1>a, <2>1, <3>1, <3>2, <3>3 DEF IInv, VrrInv, VrrSet, At, Rx, Tv
  <2>. QED
    BY <2>3, <2>5, <2>10, <2>6, <2>8, <2>9 DEF IInv
<1>f. ASSUME Refused(failed), Goto(t, Idle)
      PROVE  IInv'
  <2>1. failed' = failed /\ UNCHANGED <<rx, tv, live, raced>>
    BY <1>f DEF Refused
  <2>2. /\ call'[t] = Idle
        /\ \A u \in Threads \ {t} : call'[u] = call[u]
        /\ call' \in [Threads -> Steps]
    BY <1>0, <1>b, <1>f DEF TypeOK, Goto, Steps
  <2>3. TypeOK'
    BY <2>1, <2>2, <1>0, <1>a, EdidAssumption DEF TypeOK
  <2>4. /\ \A u \in Threads : call'[u].at \notin OtherCalls
        /\ raced.edid # "now" => \A u \in Threads : call'[u].at \notin LoadCalls
        /\ \A u \in Threads : call'[u].at \in VrrCalls => call'[u] = call[u]
    BY <2>2, <1>c DEF OtherCalls, VrrCalls, LoadCalls, Idle
  <2>5. Down' /\ Held'
    BY <1>b, <1>d, <2>2, <2>4, <1>0 DEF Down, Up, Held
  <2>10. Apart'
    BY <1>0, <1>b, <2>1, <2>2, <2>4 DEF IInv, Apart, VrrCalls
  <2>6. EdidInv'
    BY <1>a, <1>c, <2>1, <2>4, <1>0 DEF IInv, EdidInv, Offers, At, LoadCalls
  <2>7. VersionInv'
    BY <1>a, <1>c, <2>1 DEF IInv, VersionInv, Version, VersionCalls, OtherCalls
  <2>8. VrrInv'
    <3>1. \A u \in Threads : call'[u].at \in VrrSet => call'[u] = call[u] /\ call[u].at \in VrrCalls
      BY <2>4 DEF VrrSet, VrrCalls, OtherCalls
    <3>2. \A u \in Threads : call'[u].at \notin {"version.status", "sig.decide", "sig.status"}
      BY <2>4 DEF OtherCalls
    <3>3. (\A u \in Threads : call'[u].at \notin VrrSet) =>
             \A u \in Threads : call[u].at \notin VrrSet
      BY <1>a, <1>c, <2>2 DEF VrrSet, OtherCalls
    <3>. QED
      BY <1>a, <2>1, <3>1, <3>2, <3>3 DEF IInv, VrrInv, VrrSet, At, Rx, Tv
  <2>. QED
    BY <2>3, <2>5, <2>10, <2>6, <2>7, <2>8 DEF IInv
<1>. QED
  BY <1>e, <1>f DEF DlgLoad

\* The saved switch catches up with the EDID.
LEMMA DlgSaveKeeps ==
    ASSUME IInv, NEW t \in Callers, DlgSave(t)
    PROVE  IInv'
<1>0. Poll \in Threads /\ Callers \subseteq Threads /\ TypeOK
  BY DEF Threads, IInv
<1>1. TypeOK'
  BY <1>0, EdidAssumption DEF TypeOK, DlgSave, At, Goto, Idle, Steps, Off, Up
<1>2. Down'
  BY <1>0, StaysUp DEF DlgSave, At, Begins, Idle, Off
<1>3. Held'
  BY <1>0 DEF IInv, Held, OtherCalls, DlgSave, At, Goto, Idle
<1>4. Apart'
  BY <1>0 DEF IInv, Apart, LoadCalls, VrrCalls, OtherCalls, DlgSave, At, Goto, Idle
<1>5. EdidInv'
  BY <1>0 DEF IInv, EdidInv, Offers, At, LoadCalls, DlgSave, Goto, Idle, Off, Apart, VrrCalls,
      OtherCalls
<1>6. VersionInv'
  BY <1>0 DEF IInv, VersionInv, Version, VersionCalls, DlgSave, At, Goto, Idle
<1>7. VrrInv'
  BY <1>0 DEF IInv, VrrInv, VrrSet, At, DlgSave, Goto, Idle
<1>. QED
  BY <1>1, <1>2, <1>3, <1>4, <1>5, <1>6, <1>7 DEF IInv

\* The DLG switch read here is still the saved one when it is loaded.
LEMMA QmsReadKeeps ==
    ASSUME IInv, NEW t \in Callers, QmsRead(t)
    PROVE  IInv'
<1>0. Poll \in Threads /\ Callers \subseteq Threads /\ TypeOK
  BY DEF Threads, IInv
<1>1. TypeOK'
  BY <1>0 DEF TypeOK, QmsRead, At, Goto, Steps
<1>2. Down'
  BY <1>0, StaysUp DEF QmsRead, At, Begins, Idle, Off
<1>3. Held'
  BY <1>0 DEF IInv, Held, OtherCalls, QmsRead, At, Goto
<1>4. Apart'
  BY <1>0 DEF IInv, Apart, LoadCalls, VrrCalls, OtherCalls, QmsRead, At, Goto
<1>5. EdidInv'
  BY <1>0 DEF IInv, EdidInv, Offers, At, LoadCalls, QmsRead, Goto
<1>6. VersionInv'
  BY <1>0 DEF IInv, VersionInv, Version, VersionCalls, QmsRead, At, Goto
<1>7. VrrInv'
  BY <1>0 DEF IInv, VrrInv, VrrSet, At, QmsRead, Goto
<1>. QED
  BY <1>1, <1>2, <1>3, <1>4, <1>5, <1>6, <1>7 DEF IInv

\* The EDID of both saved switches, or all ports count as missed.
LEMMA QmsLoadKeeps ==
    ASSUME IInv, NEW t \in Callers, QmsLoad(t)
    PROVE  IInv'
<1>0. Poll \in Threads /\ Callers \subseteq Threads /\ TypeOK
  BY DEF Threads, IInv
<1>a. /\ call[t].at = "qms.load" /\ mLock = None
      /\ UNCHANGED <<ssm, env, game, mLock, unsaved>>
  BY DEF QmsLoad, At
<1>b. t \in Threads /\ t # Poll /\ call[t] \in [at : OnCalls, on : BOOLEAN] /\ call[t].on \in BOOLEAN
  BY <1>0, <1>a, StepFields, EdidAssumption DEF OnCalls, Poll
<1>c. /\ \A u \in Threads : call[u].at \notin OtherCalls
      /\ raced.edid # "now" => \A u \in Threads \ {t} : call[u].at \notin LoadCalls
  BY <1>0, <1>a, <1>b, NobodyLocks DEF IInv, Apart, LoadCalls, VrrCalls, OtherCalls
<1>d. Up
  BY <1>a, <1>b DEF IInv, Down, Off, OnCalls
<1>e. ASSUME NEW bad \in SUBSET Ports, Load(call[t].on, bad), Goto(t, Idle)
      PROVE  IInv'
  <2>1. /\ rx' \in Rx /\ tv' \in Tv /\ live' \in Live /\ failed' = bad
        /\ ~tv'.init
        /\ tv.init => rx'.version = ssm.version /\ ~rx'.vrr /\ ~tv'.vrr
        /\ ~tv.init => rx'.version = rx.version /\ rx'.vrr = rx.vrr /\ tv'.vrr = tv.vrr
        /\ \A p \in Ports : live'[p].version = rx'.version[p] /\ live'[p].edid = rx'.edid[p]
        /\ \A p \in Ports \ bad : rx'.edid[p] = [dlg |-> call[t].on, qms |-> ssm.qms]
        /\ raced' \in [edid : Races, vrr : Races, late : SUBSET Ports]
        /\ raced'.edid = "now" <=> raced.edid = "now"
        /\ tv.init /\ raced'.vrr # "now" => \A u \in Threads : call[u].at \notin VrrCalls
        /\ ~tv.init => raced'.vrr = raced.vrr /\ raced'.late = raced.late
        /\ tv.init => IF unsaved # None THEN raced'.late = {unsaved.port}
                                        ELSE raced'.late = raced.late
    BY <1>0, <1>b, <1>e, LoadGives
  <2>2. /\ call'[t] = Idle
        /\ \A u \in Threads \ {t} : call'[u] = call[u]
        /\ call' \in [Threads -> Steps]
    BY <1>0, <1>a, <1>b, <1>e DEF TypeOK, Goto, Steps, Idle
  <2>3. TypeOK'
    BY <2>1, <2>2, <1>0, <1>a DEF TypeOK, Rx, Tv, Live, Races
  <2>4. /\ \A u \in Threads : call'[u].at \notin OtherCalls
        /\ raced.edid # "now" => \A u \in Threads \ {t} : call'[u].at \notin LoadCalls
        /\ \A u \in Threads : call'[u].at \in VrrCalls => call'[u] = call[u]
        /\ call'[t].at = "idle"
    BY <2>2, <1>c DEF OtherCalls, VrrCalls, LoadCalls, Idle
  <2>5. Down' /\ Held'
    BY <1>b, <1>d, <2>2, <2>4, <1>0 DEF Down, Up, Held
  <2>10. Apart'
    BY <1>0, <1>b, <2>1, <2>2, <2>4 DEF IInv, Apart, VrrCalls
  <2>6. EdidInv'
    BY <1>0, <1>a, <2>1, <2>2, <2>4, <1>b DEF IInv, EdidInv, Offers, At, LoadCalls
  <2>8. VersionInv'
    BY <1>a, <2>1, VersionKept
  <2>9. VrrInv'
    <3>1. \A u \in Threads : call'[u].at \in VrrSet => call'[u] = call[u] /\ call[u].at \in VrrCalls
      BY <2>4 DEF VrrSet, VrrCalls, OtherCalls
    <3>2. \A u \in Threads : call'[u].at \notin {"version.status", "sig.decide", "sig.status"}
      BY <2>4 DEF OtherCalls
    <3>3. (\A u \in Threads : call'[u].at \notin VrrSet) =>
             \A u \in Threads : call[u].at \notin VrrSet
      BY <1>a, <1>c, <2>2 DEF VrrSet, OtherCalls
    <3>. QED
      BY <1>a, <2>1, <3>1, <3>2, <3>3 DEF IInv, VrrInv, VrrSet, At, Rx, Tv
  <2>. QED
    BY <2>3, <2>5, <2>10, <2>6, <2>8, <2>9 DEF IInv
<1>f. ASSUME Refused(Ports), Goto(t, Idle)
      PROVE  IInv'
  <2>1. failed' = Ports /\ UNCHANGED <<rx, tv, live, raced>>
    BY <1>f DEF Refused
  <2>2. /\ call'[t] = Idle
        /\ \A u \in Threads \ {t} : call'[u] = call[u]
        /\ call' \in [Threads -> Steps]
    BY <1>0, <1>b, <1>f DEF TypeOK, Goto, Steps
  <2>3. TypeOK'
    BY <2>1, <2>2, <1>0, <1>a, EdidAssumption DEF TypeOK
  <2>4. /\ \A u \in Threads : call'[u].at \notin OtherCalls
        /\ raced.edid # "now" => \A u \in Threads : call'[u].at \notin LoadCalls
        /\ \A u \in Threads : call'[u].at \in VrrCalls => call'[u] = call[u]
    BY <2>2, <1>c DEF OtherCalls, VrrCalls, LoadCalls, Idle
  <2>5. Down' /\ Held'
    BY <1>b, <1>d, <2>2, <2>4, <1>0 DEF Down, Up, Held
  <2>10. Apart'
    BY <1>0, <1>b, <2>1, <2>2, <2>4 DEF IInv, Apart, VrrCalls
  <2>6. EdidInv'
    BY <1>a, <1>c, <2>1, <2>4, <1>0 DEF IInv, EdidInv, Offers, At, LoadCalls
  <2>7. VersionInv'
    BY <1>a, <1>c, <2>1 DEF IInv, VersionInv, Version, VersionCalls, OtherCalls
  <2>8. VrrInv'
    <3>1. \A u \in Threads : call'[u].at \in VrrSet => call'[u] = call[u] /\ call[u].at \in VrrCalls
      BY <2>4 DEF VrrSet, VrrCalls, OtherCalls
    <3>2. \A u \in Threads : call'[u].at \notin {"version.status", "sig.decide", "sig.status"}
      BY <2>4 DEF OtherCalls
    <3>3. (\A u \in Threads : call'[u].at \notin VrrSet) =>
             \A u \in Threads : call[u].at \notin VrrSet
      BY <1>a, <1>c, <2>2 DEF VrrSet, OtherCalls
    <3>. QED
      BY <1>a, <2>1, <3>1, <3>2, <3>3 DEF IInv, VrrInv, VrrSet, At, Rx, Tv
  <2>. QED
    BY <2>3, <2>5, <2>10, <2>6, <2>7, <2>8 DEF IInv
<1>. QED
  BY <1>e, <1>f DEF QmsLoad

\* The saved switch is ahead of CTv, too.
LEMMA VrrSaveKeeps ==
    ASSUME IInv, NEW t \in Callers, VrrSave(t)
    PROVE  IInv'
<1>0. Poll \in Threads /\ Callers \subseteq Threads /\ TypeOK
  BY DEF Threads, IInv
<1>1. TypeOK'
  <2>1. t \in Threads /\ call[t] \in [at : OnCalls, on : BOOLEAN]
    BY <1>0, StepFields DEF VrrSave, At, OnCalls
  <2>2. [call[t] EXCEPT !.at = "vrr.status"] \in Steps
    BY <2>1 DEF Steps, OnCalls
  <2>3. call' \in [Threads -> Steps]
    BY <1>0, <2>1, <2>2, Moves DEF VrrSave
  <2>4. ssm' \in [version : [Ports -> 0..1], dlg : BOOLEAN, qms : BOOLEAN, vrr : BOOLEAN]
    BY <1>0, <2>1 DEF TypeOK, VrrSave
  <2>5. UNCHANGED <<env, rx, live, tv, game, mLock, failed, unsaved, raced>>
    BY DEF VrrSave
  <2>. QED
    BY <1>0, <2>3, <2>4, <2>5 DEF TypeOK
<1>2. Down'
  BY <1>0, StaysUp DEF VrrSave, At, Begins, Idle, Off
<1>3. Held'
  BY <1>0 DEF IInv, Held, OtherCalls, VrrSave, At, Goto
<1>4. Apart'
  BY <1>0 DEF IInv, Apart, LoadCalls, VrrCalls, OtherCalls, VrrSave, At, Goto
<1>5. EdidInv'
  BY <1>0 DEF IInv, EdidInv, Offers, At, LoadCalls, VrrSave, Goto
<1>6. VersionInv'
  BY <1>0 DEF IInv, VersionInv, Version, VersionCalls, VrrSave, At, Goto
<1>7. VrrInv'
  BY <1>0 DEF IInv, VrrInv, VrrSet, At, VrrSave, Goto, Idle, Off, Apart, LoadCalls, VrrCalls,
      OtherCalls
<1>. QED
  BY <1>1, <1>2, <1>3, <1>4, <1>5, <1>6, <1>7 DEF IInv

\* CTv knows, and the ports are updated.
LEMMA VrrStatusKeeps ==
    ASSUME IInv, NEW t \in Callers, VrrStatus(t)
    PROVE  IInv'
<1>0. Poll \in Threads /\ Callers \subseteq Threads /\ TypeOK
  BY DEF Threads, IInv
<1>a. /\ call[t].at = "vrr.status" /\ live' = Updated(live, rx, Ports) /\ Goto(t, Idle)
      /\ tv' = [tv EXCEPT !.vrr = call[t].on]
      /\ UNCHANGED <<ssm, env, rx, game, mLock, failed, unsaved>>
  BY DEF VrrStatus, At
<1>b. t \in Threads /\ Idle \in Steps
  BY <1>0 DEF Steps
<1>c. (Ports) \in SUBSET Ports
  BY <1>a, <1>b, <1>0, StepFields DEF VersionCalls
<1>d. /\ live' \in Live
      /\ \A p \in (Ports) : live'[p].edid = rx.edid[p] /\ live'[p].version = rx.version[p]
      /\ \A p \in Ports \ (Ports) : live'[p] = live[p]
      /\ \A p \in Ports, dlg \in BOOLEAN : Offers(p, dlg) => Offers(p, dlg)'
  BY <1>0, <1>a, <1>c, UpdateGives
<1>e. /\ call' \in [Threads -> Steps] /\ call'[t] = Idle
      /\ \A u \in Threads \ {t} : call'[u] = call[u]
  BY <1>a, <1>b, <1>0, Moves
<1>r. /\ raced' \in [edid : Races, vrr : Races, late : SUBSET Ports]
      /\ raced'.edid = raced.edid /\ raced'.late = raced.late
      /\ raced'.vrr = "now" <=> raced.vrr = "now"
  BY <1>0, VrrDoneGives DEF VrrStatus
<1>1. TypeOK'
  BY <1>a, <1>b, <1>d, <1>e, <1>r, <1>0, StepFields, EdidAssumption DEF TypeOK, Live, OnCalls, Races
<1>2. Down'
  BY <1>0, StaysUp DEF VrrStatus, At, Begins, Idle, Off
<1>3. Held'
  BY <1>0 DEF IInv, Held, OtherCalls, VrrStatus, At, Goto, Idle
<1>4. Apart'
  BY <1>r, <1>0 DEF IInv, Apart, LoadCalls, VrrCalls, OtherCalls, VrrStatus, At, Goto, Idle
<1>5. EdidInv'
  BY <1>r, <1>0, <1>a, <1>b, <1>d, <1>e, EdidKept DEF LoadCalls, Idle
<1>6. VersionInv'
  BY <1>r, <1>a, <1>b, <1>d, <1>e DEF IInv, VersionInv, Version, VersionCalls, Idle
<1>7. VrrInv'
  BY <1>r, <1>0 DEF IInv, VrrInv, VrrSet, At, VrrStatus, Goto, Idle
<1>. QED
  BY <1>1, <1>2, <1>3, <1>4, <1>5, <1>6, <1>7 DEF IInv

-----------------------------------------------------------------------------
(* The version of a port. *)

\* Boot loader and driver have the new version at once; the port owes it.
LEMMA SetVersionKeeps ==
    ASSUME IInv, NEW t \in Callers, NEW p \in Ports, NEW v \in 0..1, SetVersion(t, p, v)
    PROVE  IInv'
<1>0. Poll \in Threads /\ Callers \subseteq Threads /\ TypeOK
  BY DEF Threads, IInv
<1>a. /\ mLock = None /\ unsaved = None /\ mLock' = t
      /\ env' = [ssm.version EXCEPT ![p] = v] /\ rx' = [rx EXCEPT !.version = env']
      /\ unsaved' = [port |-> p, version |-> v]
      /\ Goto(t, [at |-> "version.vrr", port |-> p, on |-> v = 1])
      /\ UNCHANGED <<ssm, live, tv, game, failed>>
  BY DEF SetVersion
<1>b. t \in Threads /\ [at |-> "version.vrr", port |-> p, on |-> v = 1] \in Steps
  BY <1>0 DEF Steps
<1>c. \A u \in Threads : call[u].at \notin OtherCalls
  BY <1>a, NobodyLocks
<1>d. /\ call' \in [Threads -> Steps] /\ call'[t] = [at |-> "version.vrr", port |-> p, on |-> v = 1]
      /\ \A u \in Threads \ {t} : call'[u] = call[u]
  BY <1>a, <1>b, <1>0, Moves
<1>r. /\ raced' \in [edid : Races, vrr : Races, late : SUBSET Ports]
      /\ raced'.edid = raced.edid /\ raced'.late = raced.late \ {p}
      /\ raced'.vrr # "now" => \A u \in Threads : call[u].at \notin VrrCalls
      /\ raced'.vrr = "no" => raced.vrr = "no"
  BY <1>0 DEF SetVersion, VrrEnters, Entered, Busy, Races, TypeOK
<1>1. TypeOK'
  <2>1. env' \in [Ports -> 0..1]
    BY <1>0, <1>a DEF TypeOK
  <2>2. rx' \in Rx
    BY <1>0, <1>a, <2>1 DEF TypeOK, Rx
  <2>. QED
    BY <1>0, <1>a, <1>b, <1>d, <1>r, <2>1, <2>2 DEF TypeOK, Rx, Races
<1>2. Down'
  BY <1>0, StaysUp DEF SetVersion, At, Begins, Idle, Off
<1>3. Held'
  BY <1>a, <1>c, <1>d DEF Held
<1>4. Apart'
  BY <1>0, <1>c, <1>r DEF IInv, Apart, LoadCalls, VrrCalls, OtherCalls, SetVersion, Begins, Goto
<1>5. EdidInv'
  BY <1>0, <1>r DEF IInv, EdidInv, Offers, At, LoadCalls, SetVersion, Begins, Goto, Idle, Off
<1>6. VersionInv'
  <2>1. \A q \in Ports : env'[q] = IF q = p THEN v ELSE ssm.version[q]
    BY <1>a, <1>0 DEF TypeOK
  <2>2. rx'.version = env'
    BY <1>a, <1>0 DEF TypeOK
  <2>3. ~tv.init => \A q \in Ports \ raced.late :
           env[q] = ssm.version[q] /\ rx.version[q] = env[q] /\ live[q].version = rx.version[q]
    BY <1>a, <1>c DEF IInv, VersionInv, Version, VersionCalls, OtherCalls
  <2>4. unsaved'.port = p /\ unsaved'.version = v /\ unsaved' # None
    BY <1>a, EdidAssumption
  <2>5. call'[t].at = "version.vrr" /\ call'[t].port = p
    BY <1>d
  <2>6. \A q \in Ports : env'[q] = Version(q)'
    BY <1>a, <2>1, <2>4 DEF Version
  <2>7. ~tv.init => \A q \in Ports \ raced'.late :
                         \/ live'[q].version = rx'.version[q]
                         \/ \E u \in Threads : call'[u].at \in VersionCalls /\ call'[u].port = q
    BY <1>a, <1>b, <1>r, <2>1, <2>2, <2>3, <2>5 DEF VersionCalls
  <2>. QED
    BY <1>a, <1>r, <2>2, <2>6, <2>7 DEF IInv, VersionInv
<1>7. VrrInv'
  BY <1>0, <1>c, <1>r DEF IInv, VrrInv, OtherCalls, VrrCalls, VrrSet, At, SetVersion, Begins, Goto, Idle, Off
<1>. QED
  BY <1>1, <1>2, <1>3, <1>4, <1>5, <1>6, <1>7 DEF IInv

\* VRR follows the version, when the user has it enabled.
LEMMA VersionVrrKeeps ==
    ASSUME IInv, NEW t \in Callers, VersionVrr(t)
    PROVE  IInv'
<1>0. Poll \in Threads /\ Callers \subseteq Threads /\ TypeOK
  BY DEF Threads, IInv
<1>a. /\ call[t].at = "version.vrr" /\ UNCHANGED <<ssm, env, live, tv, game, mLock, failed, unsaved, raced>>
      /\ \/ rx' = [rx EXCEPT !.vrr = call[t].on] /\ Goto(t, [call[t] EXCEPT !.at = "version.status"])
         \/ rx' = rx /\ Goto(t, [call[t] EXCEPT !.at = "version.update"])
  BY DEF VersionVrr, At
<1>b. t \in Threads /\ call[t] \in [at : VersionCalls, port : Ports, on : BOOLEAN]
  BY <1>0, <1>a, StepFields DEF VersionCalls
<1>c. \A at \in VersionCalls : [call[t] EXCEPT !.at = at] \in Steps
  BY <1>b DEF Steps, VersionCalls
<1>d. /\ call' \in [Threads -> Steps] /\ \A u \in Threads \ {t} : call'[u] = call[u]
      /\ call'[t].at \in {"version.status", "version.update"} /\ call'[t].port = call[t].port
  <2>1. PICK at \in {"version.status", "version.update"} : Goto(t, [call[t] EXCEPT !.at = at])
    BY <1>a
  <2>2. [call[t] EXCEPT !.at = at] \in Steps
    BY <1>c DEF VersionCalls
  <2>3. /\ call' \in [Threads -> Steps] /\ call'[t] = [call[t] EXCEPT !.at = at]
        /\ \A u \in Threads \ {t} : call'[u] = call[u]
    BY <1>0, <1>b, <2>1, <2>2, Moves
  <2>4. call'[t].at = at /\ call'[t].port = call[t].port
    BY <1>b, <2>3
  <2>. QED
    BY <2>3, <2>4
<1>e. rx' \in Rx /\ rx'.edid = rx.edid /\ rx'.version = rx.version
  BY <1>0, <1>a, <1>b DEF TypeOK, Rx
<1>1. TypeOK'
  BY <1>0, <1>a, <1>d, <1>e DEF TypeOK, Rx
<1>2. Down'
  BY <1>0, StaysUp DEF VersionVrr, At, Begins, Idle, Off
<1>3. Held'
  BY <1>0, EdidAssumption DEF IInv, Held, OtherCalls, VersionVrr, At, Goto, Idle, Off, TypeOK,
      Steps
<1>4. Apart'
  BY <1>a, <1>b, <1>d DEF IInv, Apart, LoadCalls, VrrCalls, OtherCalls
<1>5. EdidInv'
  <2>1. \A p \in Ports, dlg \in BOOLEAN : Offers(p, dlg) => Offers(p, dlg)'
    BY <1>a, <1>e DEF Offers
  <2>. QED
    BY <2>1, <1>a, <1>b, <1>d, EdidKept DEF LoadCalls
<1>6. VersionInv'
  BY <1>a, <1>b, <1>d, <1>e DEF IInv, VersionInv, Version, VersionCalls
<1>7. VrrInv'
  <2>1. mLock = t
    BY <1>a, <1>b DEF IInv, Held, OtherCalls
  <2>2. raced.vrr # "now" => \A u \in Threads \ {t} : call[u].at \notin VrrSet \cup {"sig.decide"}
    BY <1>a, <1>b, <2>1 DEF IInv, Apart, Held, VrrCalls, OtherCalls, VrrSet
  <2>3. CASE rx' = rx /\ Goto(t, [call[t] EXCEPT !.at = "version.update"])
    <3>1. call'[t].at = "version.update"
      BY <1>0, <1>b, <1>c, <2>3, Moves DEF VersionCalls
    <3>. QED
      BY <1>a, <1>b, <1>d, <2>2, <2>3, <3>1 DEF IInv, VrrInv, VrrSet, At
  <2>4. CASE /\ rx' = [rx EXCEPT !.vrr = call[t].on] /\ ssm.vrr
             /\ Goto(t, [call[t] EXCEPT !.at = "version.status"])
    <3>1. call'[t] = [call[t] EXCEPT !.at = "version.status"]
      BY <1>0, <1>b, <1>c, <2>4, Moves DEF VersionCalls
    <3>2. call'[t].at = "version.status" /\ call'[t].on = call[t].on
      BY <1>b, <3>1
    <3>3. rx'.vrr = call[t].on
      BY <1>0, <2>4 DEF TypeOK
    <3>4. call'[t].at \in VrrSet /\ call'[t].at # "vrr.status"
      BY <3>2 DEF VrrSet
    <3>5. raced.vrr # "now" => \A u \in Threads \ {t} :
             /\ call'[u].at \notin VrrSet
             /\ call'[u].at \notin {"vrr.status", "version.status", "sig.decide", "sig.status"}
      BY <1>d, <2>2 DEF VrrSet
    <3>6. ssm'.vrr
      BY <1>a, <2>4
    <3>. QED
      BY <1>a, <1>b, <3>2, <3>3, <3>4, <3>5, <3>6 DEF VrrInv, At
  <2>. QED
    BY <2>3, <2>4 DEF VersionVrr
<1>. QED
  BY <1>1, <1>2, <1>3, <1>4, <1>5, <1>6, <1>7 DEF IInv

\* CTv knows.
LEMMA VersionStatusKeeps ==
    ASSUME IInv, NEW t \in Callers, VersionStatus(t)
    PROVE  IInv'
<1>0. Poll \in Threads /\ Callers \subseteq Threads /\ TypeOK
  BY DEF Threads, IInv
<1>r. /\ raced' \in [edid : Races, vrr : Races, late : SUBSET Ports]
      /\ raced'.edid = raced.edid /\ raced'.late = raced.late
      /\ raced'.vrr = "now" <=> raced.vrr = "now"
  BY <1>0, VrrDoneGives DEF VersionStatus
<1>1. TypeOK'
  <2>1. /\ call[t].at = "version.status" /\ tv' = [tv EXCEPT !.vrr = call[t].on]
        /\ Goto(t, [call[t] EXCEPT !.at = "version.update"])
        /\ UNCHANGED <<ssm, env, rx, live, game, mLock, failed, unsaved>>
    BY DEF VersionStatus, At
  <2>2. call[t] \in [at : VersionCalls, port : Ports, on : BOOLEAN]
    BY <1>0, <2>1, StepFields DEF VersionCalls
  <2>3. [call[t] EXCEPT !.at = "version.update"] \in Steps
    BY <2>2 DEF Steps, VersionCalls
  <2>4. call' \in [Threads -> Steps]
    BY <1>0, <2>1, <2>3, Moves
  <2>5. tv' \in Tv
    BY <1>0, <2>1, <2>2 DEF TypeOK, Tv
  <2>. QED
    BY <1>0, <1>r, <2>1, <2>4, <2>5 DEF TypeOK, Tv, Races
<1>2. Down'
  BY <1>0, StaysUp DEF VersionStatus, At, Begins, Idle, Off
<1>3. Held'
  BY <1>0 DEF IInv, Held, OtherCalls, VersionStatus, At, Goto
<1>4. Apart'
  BY <1>r, <1>0 DEF IInv, Apart, LoadCalls, VrrCalls, OtherCalls, VersionStatus, At, Goto
<1>5. EdidInv'
  BY <1>r, <1>0 DEF IInv, EdidInv, Offers, At, LoadCalls, VersionStatus, Goto
<1>6. VersionInv'
  BY <1>r, <1>0 DEF IInv, VersionInv, Version, VersionCalls, VersionStatus, At, Goto
<1>7. VrrInv'
  BY <1>r, <1>0 DEF IInv, VrrInv, VrrSet, At, VersionStatus, Goto
<1>. QED
  BY <1>1, <1>2, <1>3, <1>4, <1>5, <1>6, <1>7 DEF IInv

\* The port shows the new version.
LEMMA VersionUpdateKeeps ==
    ASSUME IInv, NEW t \in Callers, VersionUpdate(t)
    PROVE  IInv'
<1>0. Poll \in Threads /\ Callers \subseteq Threads /\ TypeOK
  BY DEF Threads, IInv
<1>. DEFINE ps == IF tv.withPort THEN {call[t].port} ELSE Ports
<1>a. /\ call[t].at = "version.update" /\ live' = Updated(live, rx, ps) /\ Goto(t, Idle)
      /\ mLock' = None /\ UNCHANGED <<ssm, env, rx, tv, game, failed, unsaved, raced>>
  BY DEF VersionUpdate, At
<1>b. t \in Threads /\ Idle \in Steps
  BY <1>0 DEF Steps
<1>c. ps \in SUBSET Ports
  BY <1>a, <1>b, <1>0, StepFields DEF VersionCalls
<1>d. /\ live' \in Live
      /\ \A p \in ps : live'[p].edid = rx.edid[p] /\ live'[p].version = rx.version[p]
      /\ \A p \in Ports \ ps : live'[p] = live[p]
      /\ \A p \in Ports, dlg \in BOOLEAN : Offers(p, dlg) => Offers(p, dlg)'
  BY <1>0, <1>a, <1>c, UpdateGives
<1>e. /\ call' \in [Threads -> Steps] /\ call'[t] = Idle
      /\ \A u \in Threads \ {t} : call'[u] = call[u]
  BY <1>a, <1>b, <1>0, Moves
<1>1. TypeOK'
  <2>1. mLock' = None /\ UNCHANGED <<ssm, env, rx, tv, game, failed, unsaved, raced>>
    BY DEF VersionUpdate
  <2>. QED
    BY <2>1, <1>d, <1>e, <1>0 DEF TypeOK, Live
<1>2. Down'
  BY <1>0, StaysUp DEF VersionUpdate, At, Begins, Idle, Off
<1>3. Held'
  BY <1>0, EdidAssumption DEF IInv, Held, OtherCalls, VersionUpdate, At, Goto, Idle, Off,
      TypeOK, Steps
<1>4. Apart'
  BY <1>0 DEF IInv, Apart, LoadCalls, VrrCalls, OtherCalls, VersionUpdate, At, Goto, Idle
<1>5. EdidInv'
  BY <1>0, <1>a, <1>b, <1>d, <1>e, EdidKept DEF LoadCalls, Idle
<1>6. VersionInv'
  <2>1. ASSUME NEW p \in Ports \ raced.late, ~tv.init, live[p].version # rx.version[p],
               p \notin ps
        PROVE  \E u \in Threads : call'[u].at \in VersionCalls /\ call'[u].port = p
    <3>1. PICK u \in Threads : call[u].at \in VersionCalls /\ call[u].port = p
      BY <2>1 DEF IInv, VersionInv
    <3>2. u # t
      BY <2>1, <3>1
    <3>. QED
      BY <3>1, <3>2, <1>e
  <2>2. \A p \in Ports \ raced.late : ~tv.init => \/ live'[p].version = rx.version[p]
           \/ \E u \in Threads : call'[u].at \in VersionCalls /\ call'[u].port = p
    BY <2>1, <1>d
  <2>. QED
    BY <2>2, <1>a DEF IInv, VersionInv, Version
<1>7. VrrInv'
  BY <1>0 DEF IInv, VrrInv, VrrSet, At, VersionUpdate, Goto, Idle
<1>. QED
  BY <1>1, <1>2, <1>3, <1>4, <1>5, <1>6, <1>7 DEF IInv

\* What was meant is saved.
LEMMA SaveVersionKeeps ==
    ASSUME IInv, NEW t \in Callers, SaveVersion(t)
    PROVE  IInv'
<1>0. Poll \in Threads /\ Callers \subseteq Threads /\ TypeOK
  BY DEF Threads, IInv
<1>1. TypeOK'
  <2>1. ssm' \in [version : [Ports -> 0..1], dlg : BOOLEAN, qms : BOOLEAN, vrr : BOOLEAN]
    BY <1>0 DEF TypeOK, SaveVersion
  <2>. QED
    BY <1>0, <2>1 DEF TypeOK, SaveVersion
<1>2. Down'
  BY <1>0 DEF IInv, Down, Up, SaveVersion, Begins
<1>3. Held'
  BY <1>0 DEF IInv, Held, OtherCalls, SaveVersion, Begins
<1>4. Apart'
  BY <1>0 DEF IInv, Apart, LoadCalls, VrrCalls, OtherCalls, SaveVersion, Begins
<1>5. EdidInv'
  BY <1>0 DEF IInv, EdidInv, Offers, At, LoadCalls, SaveVersion, Begins
<1>6. VersionInv'
  <2>1. /\ ssm' = [ssm EXCEPT !.version[unsaved.port] = unsaved.version] /\ unsaved' = None
        /\ unsaved # None /\ UNCHANGED <<env, rx, live, tv, call, raced>>
    BY DEF SaveVersion
  <2>2. unsaved \in [port : Ports, version : 0..1]
    BY <2>1, <1>0 DEF TypeOK
  <2>3. \A p \in Ports : ssm'.version[p] = IF p = unsaved.port THEN unsaved.version ELSE ssm.version[p]
    BY <2>1, <2>2, <1>0 DEF TypeOK
  <2>4. \A p \in Ports : Version(p)' = Version(p)
    BY <2>1, <2>3 DEF Version
  <2>. QED
    BY <2>1, <2>4 DEF IInv, VersionInv
<1>7. VrrInv'
  BY <1>0 DEF IInv, VrrInv, VrrSet, At, SaveVersion, Begins
<1>. QED
  BY <1>1, <1>2, <1>3, <1>4, <1>5, <1>6, <1>7 DEF IInv

-----------------------------------------------------------------------------
(* Sources and signals. *)

\* Only CTv's source moves.
LEMMA SwitchSourceKeeps ==
    ASSUME IInv, NEW t \in Callers, NEW s \in Ports \cup Others, SwitchSource(t, s)
    PROVE  IInv'
<1>0. Poll \in Threads /\ Callers \subseteq Threads /\ TypeOK
  BY DEF Threads, IInv
<1>a. /\ UNCHANGED <<ssm, env, rx, live, game, mLock, call, failed, unsaved, raced>>
      /\ tv' \in Tv /\ tv'.init = tv.init /\ tv'.vrr = tv.vrr
  <2>1. tv \in Tv /\ tv' = [tv EXCEPT !.source = s]
    BY <1>0 DEF TypeOK, Tv, SwitchSource
  <2>. QED
    BY <2>1 DEF Tv, SwitchSource
<1>1. TypeOK'
  BY <1>0, <1>a DEF TypeOK, Tv
<1>2. Down'
  BY <1>0 DEF IInv, Down, Up, SwitchSource, Begins
<1>3. Held'
  BY <1>0 DEF IInv, Held, OtherCalls, SwitchSource, Begins
<1>4. Apart'
  BY <1>0 DEF IInv, Apart, LoadCalls, VrrCalls, OtherCalls, SwitchSource, Begins
<1>5. EdidInv'
  BY <1>0 DEF IInv, EdidInv, Offers, At, LoadCalls, SwitchSource, Begins
<1>6. VersionInv'
  BY <1>a DEF IInv, VersionInv, Version, At
<1>7. VrrInv'
  BY <1>a DEF IInv, VrrInv, Version, At
<1>. QED
  BY <1>1, <1>2, <1>3, <1>4, <1>5, <1>6, <1>7 DEF IInv

\* The picture mode alone.
LEMMA SetPqModeKeeps ==
    ASSUME IInv, NEW on \in BOOLEAN, SetPqMode(on)
    PROVE  IInv'
<1>0. Poll \in Threads /\ Callers \subseteq Threads /\ TypeOK
  BY DEF Threads, IInv
<1>1. TypeOK'
  BY <1>0 DEF TypeOK, SetPqMode, Up, Steps
<1>2. Down'
  BY <1>0 DEF IInv, Down, Up, SetPqMode
<1>3. Held'
  BY <1>0 DEF IInv, Held, OtherCalls, SetPqMode, Up
<1>4. Apart'
  BY <1>0 DEF IInv, Apart, LoadCalls, VrrCalls, OtherCalls, SetPqMode, Up
<1>5. EdidInv'
  BY <1>0 DEF IInv, EdidInv, Offers, At, LoadCalls, SetPqMode, Up
<1>6. VersionInv'
  BY <1>0 DEF IInv, VersionInv, Version, VersionCalls, SetPqMode, Up
<1>7. VrrInv'
  BY <1>0 DEF IInv, VrrInv, VrrSet, At, SetPqMode, Up
<1>. QED
  BY <1>1, <1>2, <1>3, <1>4, <1>5, <1>6, <1>7 DEF IInv

\* A report begins under mLock, and only while VRR is enabled.
LEMMA SigStableKeeps ==
    ASSUME IInv, SigStable
    PROVE  IInv'
<1>0. Poll \in Threads /\ Callers \subseteq Threads /\ TypeOK
  BY DEF Threads, IInv
<1>a. /\ mLock = None /\ tv.source \in Ports /\ game' \in {game, TRUE, FALSE}
      /\ UNCHANGED <<ssm, env, rx, live, tv, failed, unsaved>>
      /\ call[Poll] = Idle /\ Up
  BY DEF SigStable, Begins
<1>b. \/ ssm.vrr /\ mLock' = Poll /\ Goto(Poll, [at |-> "sig.decide"])
      \/ mLock' = mLock /\ call' = call
  BY DEF SigStable
<1>c. [at |-> "sig.decide"] \in Steps
  BY DEF Steps
<1>d. call' \in [Threads -> Steps]
  BY <1>0, <1>b, <1>c, Moves DEF TypeOK
<1>e. \A u \in Threads \ {Poll} : call'[u] = call[u]
  BY <1>0, <1>b, <1>c, Moves DEF TypeOK
<1>f. \A u \in Threads : call[u].at \notin OtherCalls
  BY <1>a, NobodyLocks
<1>g. call'[Poll] = call[Poll] \/ (call'[Poll] = [at |-> "sig.decide"] /\ mLock' = Poll)
  <2>1. CASE mLock' = Poll /\ Goto(Poll, [at |-> "sig.decide"])
    BY <1>0, <1>c, <2>1, Moves
  <2>2. CASE mLock' = mLock /\ call' = call
    BY <2>2
  <2>. QED
    BY <1>b, <2>1, <2>2
<1>r. /\ raced' \in [edid : Races, vrr : Races, late : SUBSET Ports]
      /\ raced'.edid = raced.edid /\ raced'.late = raced.late
      /\ raced'.vrr # "now" => call' = call \/ \A u \in Threads : call[u].at \notin VrrCalls
      /\ raced'.vrr = "now" \/ raced'.vrr = raced.vrr \/ raced.vrr = "now"
      /\ raced'.vrr = "no" => raced.vrr = "no"
      /\ call' = call => raced'.vrr = raced.vrr
  <2>1. CASE raced' = VrrEnters(VrrCalls) /\ Goto(Poll, [at |-> "sig.decide"])
    BY <1>0, <1>a, <2>1 DEF VrrEnters, Entered, Busy, Races, TypeOK, Goto, Idle
  <2>2. CASE raced' = raced /\ call' = call
    BY <1>0, <2>2 DEF TypeOK, Races
  <2>. QED
    BY <2>1, <2>2 DEF SigStable
<1>1. TypeOK'
  <2>1. game' \in BOOLEAN /\ mLock' \in Threads \cup {None}
    BY <1>0, <1>a, <1>b DEF TypeOK
  <2>. QED
    BY <1>0, <1>a, <1>d, <1>r, <2>1 DEF TypeOK, Races
<1>2. Down'
  BY <1>a, <1>g DEF Down, Up, Off, Idle
<1>3. Held'
  BY <1>e, <1>f, <1>g DEF Held
<1>4. Apart'
  BY <1>a, <1>e, <1>f, <1>g, <1>r DEF IInv, Apart, LoadCalls, VrrCalls, OtherCalls, Idle
<1>5. EdidInv'
  <2>1. \A p \in Ports, dlg \in BOOLEAN : Offers(p, dlg) => Offers(p, dlg)'
    BY <1>a DEF Offers
  <2>. QED
    BY <2>1, <1>a, <1>e, <1>g, <1>r, EdidKept DEF LoadCalls, Idle
<1>6. VersionInv'
  BY <1>a, <1>e, <1>f, <1>g, <1>r DEF IInv, VersionInv, Version, VersionCalls, OtherCalls
<1>7. VrrInv'
  <2>1. CASE ssm.vrr /\ call'[Poll] = [at |-> "sig.decide"]
    <3>1. call[Poll].at \notin VrrSet /\ call'[Poll].at = "sig.decide" /\ call'[Poll].at \notin VrrSet
      BY <1>a, <2>1 DEF VrrSet, Idle
    <3>2. \A u \in Threads : u = Poll \/ call'[u] = call[u]
      BY <1>e
    <3>. QED
      BY <1>0, <1>a, <1>f, <1>r, <2>1, <3>1, <3>2 DEF IInv, VrrInv, At, VrrSet, VrrCalls, OtherCalls, Idle
  <2>2. CASE call' = call
    BY <1>a, <1>r, <2>2 DEF IInv, VrrInv, At
  <2>. QED
    BY <1>0, <1>b, <1>c, <2>1, <2>2, Moves
<1>. QED
  BY <1>1, <1>2, <1>3, <1>4, <1>5, <1>6, <1>7 DEF IInv

\* VRR as the version and the picture mode ask for.
LEMMA SigDecideKeeps ==
    ASSUME IInv, SigDecide
    PROVE  IInv'
<1>0. Poll \in Threads /\ Callers \subseteq Threads /\ TypeOK
  BY DEF Threads, IInv
<1>a. /\ call[Poll] = [at |-> "sig.decide"] /\ UNCHANGED <<ssm, env, live, tv, game, failed, unsaved, raced>>
  BY <1>0, StepFields DEF SigDecide, At, Steps, Idle, Off
<1>b. PICK on \in BOOLEAN :
        \/ on = tv.vrr /\ mLock' = None /\ Goto(Poll, Idle) /\ rx' = rx
        \/ /\ on # tv.vrr /\ rx' = [rx EXCEPT !.vrr = on]
           /\ Goto(Poll, [at |-> "sig.status", on |-> on]) /\ UNCHANGED mLock
  BY DEF SigDecide
<1>c. Idle \in Steps /\ [at |-> "sig.status", on |-> on] \in Steps
  BY DEF Steps
<1>d. /\ call' \in [Threads -> Steps] /\ \A u \in Threads \ {Poll} : call'[u] = call[u]
      /\ call'[Poll].at \in {"idle", "sig.status"}
  BY <1>0, <1>b, <1>c DEF TypeOK, Goto, Idle
<1>e. rx' \in Rx /\ rx'.edid = rx.edid /\ rx'.version = rx.version
  BY <1>0, <1>b DEF TypeOK, Rx
<1>1. TypeOK'
  <2>1. mLock' \in Threads \cup {None}
    BY <1>0, <1>b DEF TypeOK
  <2>. QED
    BY <1>0, <1>a, <1>d, <1>e, <2>1 DEF TypeOK, Rx
<1>2. Down'
  BY <1>0, StaysUp DEF SigDecide, At, Begins, Idle, Off
<1>3. Held'
  BY <1>0, EdidAssumption DEF IInv, Held, OtherCalls, SigDecide, At, Goto, Idle, Off, TypeOK,
      Steps
<1>4. Apart'
  BY <1>0, EdidAssumption DEF IInv, Apart, LoadCalls, VrrCalls, OtherCalls, SigDecide, At,
      Goto, Idle, Off, TypeOK, Steps
<1>5. EdidInv'
  <2>1. \A p \in Ports, dlg \in BOOLEAN : Offers(p, dlg) => Offers(p, dlg)'
    BY <1>a, <1>e DEF Offers
  <2>. QED
    BY <2>1, <1>a, <1>d, EdidKept DEF LoadCalls
<1>6. VersionInv'
  BY <1>a, <1>d, <1>e DEF IInv, VersionInv, Version, VersionCalls
<1>7. VrrInv'
  <2>1. /\ mLock = Poll
        /\ raced.vrr # "now" => ssm.vrr /\ \A u \in Threads : call[u].at \notin VrrSet
    <3>1. mLock = Poll /\ (raced.vrr # "now" => ssm.vrr)
      BY <1>0, <1>a DEF IInv, Held, VrrInv, OtherCalls
    <3>2. raced.vrr # "now" => \A u \in Threads \ {Poll} : call[u].at \notin VrrCalls \cup OtherCalls
      BY <1>0, <1>a, <3>1 DEF IInv, Held, Apart, VrrCalls, OtherCalls
    <3>. QED
      BY <1>0, <1>a, <3>1, <3>2 DEF VrrSet, VrrCalls, OtherCalls
  <2>2. raced.vrr # "now" => \A u \in Threads \ {Poll} : call'[u].at \notin VrrSet \cup {"sig.decide"}
    BY <1>d, <2>1, <1>a DEF IInv, Held, OtherCalls, VrrSet
  <2>3. CASE on = tv.vrr /\ mLock' = None /\ Goto(Poll, Idle) /\ rx' = rx
    <3>1. call'[Poll].at = "idle"
      BY <1>0, <1>c, <2>3, Moves DEF Idle
    <3>. QED
      BY <1>a, <2>1, <2>2, <2>3, <3>1 DEF IInv, VrrInv, VrrSet, At
  <2>4. CASE rx' = [rx EXCEPT !.vrr = on] /\ Goto(Poll, [at |-> "sig.status", on |-> on])
    <3>1. call'[Poll].at = "sig.status" /\ call'[Poll].on = on
      BY <1>0, <1>c, <2>4, Moves
    <3>2. rx'.vrr = on
      BY <1>0, <2>4 DEF TypeOK
    <3>. QED
      BY <1>0, <1>a, <2>1, <2>2, <3>1, <3>2 DEF VrrInv, VrrSet, At
  <2>. QED
    BY <1>b, <2>3, <2>4
<1>. QED
  BY <1>1, <1>2, <1>3, <1>4, <1>5, <1>6, <1>7 DEF IInv

\* CTv knows, and the ports are updated.
LEMMA SigStatusKeeps ==
    ASSUME IInv, SigStatus
    PROVE  IInv'
<1>0. Poll \in Threads /\ Callers \subseteq Threads /\ TypeOK
  BY DEF Threads, IInv
<1>a. /\ call[Poll].at = "sig.status" /\ live' = Updated(live, rx, Ports) /\ Goto(Poll, Idle)
      /\ tv' = [tv EXCEPT !.vrr = call[Poll].on] /\ mLock' = None
      /\ UNCHANGED <<ssm, env, rx, game, failed, unsaved>>
  BY DEF SigStatus, At
<1>b. Poll \in Threads /\ Idle \in Steps
  BY <1>0 DEF Steps
<1>c. (Ports) \in SUBSET Ports
  BY <1>a, <1>b, <1>0, StepFields DEF VersionCalls
<1>d. /\ live' \in Live
      /\ \A p \in (Ports) : live'[p].edid = rx.edid[p] /\ live'[p].version = rx.version[p]
      /\ \A p \in Ports \ (Ports) : live'[p] = live[p]
      /\ \A p \in Ports, dlg \in BOOLEAN : Offers(p, dlg) => Offers(p, dlg)'
  BY <1>0, <1>a, <1>c, UpdateGives
<1>e. /\ call' \in [Threads -> Steps] /\ call'[Poll] = Idle
      /\ \A u \in Threads \ {Poll} : call'[u] = call[u]
  BY <1>a, <1>b, <1>0, Moves
<1>r. /\ raced' \in [edid : Races, vrr : Races, late : SUBSET Ports]
      /\ raced'.edid = raced.edid /\ raced'.late = raced.late
      /\ raced'.vrr = "now" <=> raced.vrr = "now"
  BY <1>0, VrrDoneGives DEF SigStatus
<1>1. TypeOK'
  BY <1>a, <1>b, <1>d, <1>e, <1>r, <1>0, StepFields, EdidAssumption DEF TypeOK, Live, OnCalls, Races
<1>2. Down'
  BY <1>0, StaysUp DEF SigStatus, At, Begins, Idle, Off
<1>3. Held'
  BY <1>0, EdidAssumption DEF IInv, Held, OtherCalls, SigStatus, At, Goto, Idle, Off, TypeOK,
      Steps
<1>4. Apart'
  BY <1>r, <1>0 DEF IInv, Apart, LoadCalls, VrrCalls, OtherCalls, SigStatus, At, Goto, Idle
<1>5. EdidInv'
  BY <1>r, <1>0, <1>a, <1>b, <1>d, <1>e, EdidKept DEF LoadCalls, Idle
<1>6. VersionInv'
  BY <1>r, <1>a, <1>b, <1>d, <1>e DEF IInv, VersionInv, Version, VersionCalls, Idle
<1>7. VrrInv'
  BY <1>r, <1>0 DEF IInv, VrrInv, VrrSet, At, SigStatus, Goto, Idle
<1>. QED
  BY <1>1, <1>2, <1>3, <1>4, <1>5, <1>6, <1>7 DEF IInv

\* The first start.
LEMMA InitKept == Init => IInv
<1>. SUFFICES ASSUME Init  PROVE IInv
  OBVIOUS
<1>1. /\ ssm = Defaults /\ env = ssm.version /\ rx = Booted(env)
      /\ game = FALSE /\ mLock = None /\ failed = Ports /\ unsaved = None /\ raced = Unraced
      /\ call = [t \in Threads |-> Off]
  BY DEF Init
<1>2. rx \in Rx
  BY <1>1 DEF Defaults, Versions, Booted, Rx, Edids
<1>3. live \in Live
  BY <1>2 DEF Init, Updated, Live, Rx
<1>4. tv \in Tv /\ tv.init
  BY EdidAssumption DEF Init, Started, Tv
<1>5. TypeOK
  <2>1. Defaults \in [version : [Ports -> 0..1], dlg : BOOLEAN, qms : BOOLEAN, vrr : BOOLEAN]
    BY DEF Defaults, Versions
  <2>2. env \in [Ports -> 0..1]
    BY <1>1, <2>1
  <2>3. call \in [Threads -> Steps]
    BY <1>1 DEF Steps
  <2>. QED
    BY <1>1, <1>2, <1>3, <1>4, <2>1, <2>2, <2>3 DEF TypeOK, Rx, Live, Tv, Unraced
<1>6. \A t \in Threads : call[t] = Off /\ call[t].at = "off"
  BY <1>1 DEF Off
<1>7. Down /\ Held /\ Apart /\ EdidInv /\ VersionInv /\ VrrInv
  BY <1>1, <1>4, <1>6 DEF Down, Held, Apart, EdidInv, VersionInv, Version, VrrInv, VrrSet, At,
     OtherCalls, LoadCalls, VrrCalls, Unraced
<1>. QED
  BY <1>5, <1>7 DEF IInv

\* Every step of a setter keeps the invariant.
LEMMA SetterKeeps ==
    ASSUME IInv, NEW t \in Callers, Setter(t)
    PROVE  IInv'
BY SetDlgKeeps, SetQmsKeeps, SetVrrKeeps, DlgLoadKeeps, DlgSaveKeeps, QmsReadKeeps, QmsLoadKeeps,
   VrrSaveKeeps, VrrStatusKeeps, SetVersionKeeps, VersionVrrKeeps, VersionStatusKeeps,
   VersionUpdateKeeps, SaveVersionKeeps, SwitchSourceKeeps DEF Setter

\* So does every step at all.
LEMMA StepKeeps ==
    ASSUME IInv, [Next]_vars
    PROVE  IInv'
<1>1. CASE Next
  BY <1>1, OpenTvKeeps, CrashKeeps, RebootKeeps, RestoreDefaultsKeeps, SetterKeeps, SetPqModeKeeps,
     SigStableKeeps, SigDecideKeeps, SigStatusKeeps DEF Next, Step
<1>2. CASE UNCHANGED vars
  BY <1>2 DEF vars, IInv, TypeOK, Down, Up, Held, Apart, EdidInv, Offers, At, VersionInv, Version, VrrInv
<1>. QED
  BY <1>1, <1>2

\* When every thread is idle nobody owes anything.
LEMMA AgreeBySteps ==
    ASSUME IInv
    PROVE  PlacesAgree
<1>. SUFFICES ASSUME Settled  PROVE PlacesAgree
  BY DEF PlacesAgree
<1>1. ~tv.init /\ \A t \in Threads : call[t].at = "idle"
  BY DEF Settled, Idle
<1>2. raced.edid = "no" =>
        \A p \in Ports \ failed : live[p].edid = [dlg |-> ssm.dlg, qms |-> ssm.qms]
  BY <1>1 DEF IInv, EdidInv, Offers, LoadCalls
<1>3. \A p \in Ports \ raced.late : env[p] = Version(p) /\ rx.version[p] = Version(p) /\ live[p].version = Version(p)
  BY <1>1 DEF IInv, VersionInv, VersionCalls
<1>4. raced.vrr = "no" => tv.vrr = rx.vrr /\ (rx.vrr => ssm.vrr)
  BY <1>1 DEF IInv, VrrInv, VrrSet
<1>. QED
  BY <1>2, <1>3, <1>4 DEF PlacesAgree, Version

-----------------------------------------------------------------------------
(* The theorems. *)

\* Every variable keeps its type, wherever setters, reports and restarts meet.
THEOREM TypeCorrect == Spec => []TypeOK
<1>1. IInv /\ [Next]_vars => IInv'
  BY StepKeeps
<1>2. IInv => TypeOK
  BY DEF IInv
<1>. QED
  BY <1>1, <1>2, InitKept, PTL DEF Spec

\* Whatever crashed or was refused, a quiet server's places agree: EDIDs with
\* the switches, versions everywhere, VRR with the driver and the user's wish.
THEOREM PlacesAgreeHolds == Spec => []PlacesAgree
<1>1. IInv /\ [Next]_vars => IInv'
  BY StepKeeps
<1>. QED
  BY <1>1, InitKept, AgreeBySteps, PTL DEF Spec

-----------------------------------------------------------------------------
(* Panel: where a start is, and what it has to remove yet. *)

Points == {"off", "check", "remove", "acc", "lut", "set", "crc", "flicker",
           "sdcCheck", "gamma", "done"}

\* What PANEL_REMOVE_BIN_FILE(0) may still have to remove.
Removals == {<<"lut", "set", "gamma", "acc", "crc">>, <<"set", "gamma", "acc", "crc">>,
             <<"gamma", "acc", "crc">>, <<"acc", "crc">>, <<"crc">>}

PanelTypeOK ==
    /\ panel \in known /\ known \subseteq Panels
    /\ files \in [Files -> known \cup {NoFile, Torn}]
    /\ dvr \in known \cup {NoFile}
    /\ pc \in Points
    /\ left \in Removals \cup {<<>>} /\ (pc = "remove" => left # <<>>)
    /\ clean \in BOOLEAN /\ trouble \in {"none", "some", "check"}

-----------------------------------------------------------------------------
(* The inductive invariant. *)

Compared == F.kind \in CrcKinds /\ trouble # "check"
Made == files.lut = panel /\ files.set = panel

\* The check file names the attached panel only after the other two files were
\* made from it, and none of them is touched while it does.
CheckLast ==
    Compared =>
      /\ files.crc = panel => Made /\ Usable(F)
      /\ pc \in {"remove", "lut", "set", "crc"} => files.crc # panel
      /\ pc \in {"set", "crc"} => files.lut = panel /\ Usable(F)
      /\ pc = "crc" => files.set = panel

\* The CRC at the end of the gamma file comes with the data before it.
KeyLast == trouble # "check" => (files.gammaKey = panel => files.gamma = panel)

\* In a start without failures the old table is gone before new data are looked
\* at, and whatever comes after the conversion finds what it should have made.
Repaired ==
    Compared /\ clean =>
      /\ pc = "remove" /\ left # <<"lut", "set", "gamma", "acc", "crc">> => files.lut = NoFile
      /\ pc = "lut" => ~AllThere
      /\ pc \in {"gamma", "done"} /\ F.kind \in SureKinds =>
           IF Usable(F) THEN Made /\ files.crc = panel ELSE ~AllThere

AccRight == files.acc = IF F.acc THEN panel ELSE NoFile
SdcRight == AccRight /\ (Usable(F) => Made)

\* While nothing has failed the check file of a 55SDC panel is as good as the
\* others'.
SdcChecked ==
    F.kind = "55SDC" /\ trouble = "none" =>
      /\ files.crc = panel => SdcRight
      /\ pc \in {"remove", "acc", "lut", "set"} => files.crc # panel
      /\ pc \in {"lut", "set"} => AccRight
      /\ pc = "set" => files.lut = panel
      /\ pc \in {"flicker", "sdcCheck", "gamma", "done"} => SdcRight

GammaRight ==
    pc = "done" /\ clean /\ trouble # "check" /\ F.gammaKind # "none" =>
      files.gamma = IF F.gamma THEN panel ELSE NoFile

\* Which panels come to which points.
OwnPoints ==
    /\ pc \in {"acc", "flicker", "sdcCheck"} => F.kind = "55SDC"
    /\ pc = "crc" => F.kind # "55SDC"
    /\ pc \in {"check", "remove", "lut", "set", "crc"} => F.kind # "other"

PanelIInv == PanelTypeOK /\ CheckLast /\ KeyLast /\ Repaired /\ SdcChecked /\ GammaRight /\ OwnPoints

-----------------------------------------------------------------------------
(* The steps. *)

LEMMA FilesAre == Files = {"lut", "set", "acc", "crc", "gamma", "gammaKey"}
  BY DEF Files

\* Neither an absent file nor a torn one is a panel's.
LEMMA NoPanel == \A p \in Panels : p # NoFile /\ p # Torn
  BY PanelAssumption DEF PanelAssumption

\* Whatever is still to be removed, the table goes first and the check file last.
LEMMA Suffixes ==
  ASSUME NEW l \in Removals
  PROVE  /\ l # <<>> /\ Head(l) \in {"lut", "set", "gamma", "acc", "crc"}
         /\ l = <<"lut", "set", "gamma", "acc", "crc">> <=> Head(l) = "lut"
         /\ Tail(l) \in Removals \cup {<<>>}
         /\ Tail(l) # <<"lut", "set", "gamma", "acc", "crc">>
  <1>1. CASE l = <<"crc">>
    <2>1. Tail(l) = <<>> BY <1>1
    <2> QED BY <1>1, <2>1
  <1>2. CASE l = <<"acc", "crc">>
    <2>1. Tail(l) = <<"crc">> BY <1>2
    <2> QED BY <1>2, <2>1 DEF Removals
  <1>3. CASE l = <<"gamma", "acc", "crc">>
    <2>1. Tail(l) = <<"acc", "crc">> BY <1>3
    <2> QED BY <1>3, <2>1 DEF Removals
  <1>4. CASE l = <<"set", "gamma", "acc", "crc">>
    <2>1. Tail(l) = <<"gamma", "acc", "crc">> BY <1>4
    <2> QED BY <1>4, <2>1 DEF Removals
  <1>5. CASE l = <<"lut", "set", "gamma", "acc", "crc">>
    <2>1. Tail(l) = <<"set", "gamma", "acc", "crc">> BY <1>5
    <2> QED BY <1>5, <2>1 DEF Removals
  <1> QED BY <1>1, <1>2, <1>3, <1>4, <1>5 DEF Removals

LEMMA AllToRemove == Outdated => left' \in Removals /\ left' # <<>> /\ pc' = "remove"
  <1>1. <<"lut", "set", "gamma", "acc", "crc">> \in Removals BY DEF Removals
  <1> QED BY <1>1, Suffixes DEF Outdated

LEMMA InitIInv == PanelInit => PanelIInv
  <1> SUFFICES ASSUME PanelInit PROVE PanelIInv OBVIOUS
  <1>1. panel \in Panels /\ panel # NoFile BY NoPanel DEF PanelInit
  <1>2. PanelTypeOK BY DEF PanelInit, PanelTypeOK, Points, Files
  <1>3. CheckLast /\ KeyLast /\ SdcChecked
    BY <1>1 DEF PanelInit, CheckLast, KeyLast, SdcChecked, Compared, Files
  <1>4. Repaired /\ GammaRight /\ OwnPoints
    BY DEF PanelInit, Repaired, GammaRight, OwnPoints, Compared
  <1> QED BY <1>2, <1>3, <1>4 DEF PanelIInv

LEMMA StepPowerOn == PanelIInv /\ PowerOn => PanelIInv'
  <1> SUFFICES ASSUME PanelIInv, PowerOn PROVE PanelIInv' OBVIOUS
  <1> USE DEF Compared, Made, Files, SureKinds
  <1>1. panel' = panel /\ F' = F BY DEF PowerOn, F
  <1>2. panel # NoFile /\ panel # Torn BY NoPanel DEF PanelIInv, PanelTypeOK
  <1>3. PanelTypeOK' BY <1>1, <1>2, FilesAre DEF PanelIInv, PanelTypeOK, Points, Causes, PowerOn
  <1>4. CheckLast'
    BY <1>1, <1>2 DEF PanelIInv, PanelTypeOK, CheckLast, AllThere, OwnPoints, CrcKinds, PowerOn
  <1>5. KeyLast'
    BY <1>1, <1>2 DEF PanelIInv, PanelTypeOK, KeyLast, PowerOn
  <1>6. Repaired'
    BY <1>1, <1>2
    DEF PanelIInv, PanelTypeOK, Repaired, CheckLast, AllThere, OwnPoints, CrcKinds, PowerOn
  <1>7. SdcChecked'
    BY <1>1, <1>2
    DEF PanelIInv, PanelTypeOK, SdcChecked, SdcRight, AccRight, OwnPoints, CrcKinds, PowerOn
  <1>8. GammaRight' /\ OwnPoints'
    BY <1>1, <1>2 DEF PanelIInv, PanelTypeOK, GammaRight, KeyLast, OwnPoints, CrcKinds, PowerOn
  <1> QED BY <1>3, <1>4, <1>5, <1>6, <1>7, <1>8 DEF PanelIInv

LEMMA StepNoKey == PanelIInv /\ NoKey => PanelIInv'
  <1> SUFFICES ASSUME PanelIInv, NoKey PROVE PanelIInv' OBVIOUS
  <1> USE DEF Compared, Made, Files, SureKinds
  <1>1. panel' = panel /\ F' = F BY DEF NoKey, F
  <1>2. panel # NoFile /\ panel # Torn BY NoPanel DEF PanelIInv, PanelTypeOK
  <1>3. PanelTypeOK' BY <1>1, <1>2, FilesAre DEF PanelIInv, PanelTypeOK, Points, Causes, NoKey, Fails
  <1>4. CheckLast'
    BY <1>1, <1>2 DEF PanelIInv, PanelTypeOK, CheckLast, AllThere, OwnPoints, CrcKinds, NoKey, Fails
  <1>5. KeyLast'
    BY <1>1, <1>2 DEF PanelIInv, PanelTypeOK, KeyLast, NoKey, Fails
  <1>6. Repaired'
    BY <1>1, <1>2
    DEF PanelIInv, PanelTypeOK, Repaired, CheckLast, AllThere, OwnPoints, CrcKinds, NoKey, Fails
  <1>7. SdcChecked'
    BY <1>1, <1>2
    DEF PanelIInv, PanelTypeOK, SdcChecked, SdcRight, AccRight, OwnPoints, CrcKinds, NoKey, Fails
  <1>8. GammaRight' /\ OwnPoints'
    BY <1>1, <1>2 DEF PanelIInv, PanelTypeOK, GammaRight, KeyLast, OwnPoints, CrcKinds, NoKey, Fails
  <1> QED BY <1>3, <1>4, <1>5, <1>6, <1>7, <1>8 DEF PanelIInv

LEMMA StepPowerOff == PanelIInv /\ PowerOff => PanelIInv'
  <1> SUFFICES ASSUME PanelIInv, PowerOff PROVE PanelIInv' OBVIOUS
  <1> USE DEF Compared, Made, Files, SureKinds
  <1>1. panel' = panel /\ F' = F BY DEF PowerOff, F
  <1>2. panel # NoFile /\ panel # Torn BY NoPanel DEF PanelIInv, PanelTypeOK
  <1>3. PanelTypeOK' BY <1>1, <1>2, FilesAre DEF PanelIInv, PanelTypeOK, Points, Causes, PowerOff
  <1>4. CheckLast'
    BY <1>1, <1>2 DEF PanelIInv, PanelTypeOK, CheckLast, AllThere, OwnPoints, CrcKinds, PowerOff
  <1>5. KeyLast'
    BY <1>1, <1>2 DEF PanelIInv, PanelTypeOK, KeyLast, PowerOff
  <1>6. Repaired'
    BY <1>1, <1>2
    DEF PanelIInv, PanelTypeOK, Repaired, CheckLast, AllThere, OwnPoints, CrcKinds, PowerOff
  <1>7. SdcChecked'
    BY <1>1, <1>2
    DEF PanelIInv, PanelTypeOK, SdcChecked, SdcRight, AccRight, OwnPoints, CrcKinds, PowerOff
  <1>8. GammaRight' /\ OwnPoints'
    BY <1>1, <1>2 DEF PanelIInv, PanelTypeOK, GammaRight, KeyLast, OwnPoints, CrcKinds, PowerOff
  <1> QED BY <1>3, <1>4, <1>5, <1>6, <1>7, <1>8 DEF PanelIInv

LEMMA StepCheckSame == PanelIInv /\ CheckSame => PanelIInv'
  <1> SUFFICES ASSUME PanelIInv, CheckSame PROVE PanelIInv' OBVIOUS
  <1> USE DEF Compared, Made, Files, SureKinds
  <1>1. panel' = panel /\ F' = F BY DEF CheckSame, F
  <1>2. panel # NoFile /\ panel # Torn BY NoPanel DEF PanelIInv, PanelTypeOK
  <1>3. PanelTypeOK' BY <1>1, <1>2, FilesAre DEF PanelIInv, PanelTypeOK, Points, Causes, CheckSame, After
  <1>4. CheckLast'
    BY <1>1, <1>2
    DEF PanelIInv, PanelTypeOK, CheckLast, AllThere, OwnPoints, CrcKinds, CheckSame, After
  <1>5. KeyLast'
    BY <1>1, <1>2 DEF PanelIInv, PanelTypeOK, KeyLast, CheckSame, After
  <1>6. Repaired'
    BY <1>1, <1>2
    DEF PanelIInv, PanelTypeOK, Repaired, CheckLast, AllThere, OwnPoints, CrcKinds, CheckSame, After
  <1>7. SdcChecked'
    BY <1>1, <1>2
    DEF PanelIInv, PanelTypeOK, SdcChecked, SdcRight, AccRight, OwnPoints, CrcKinds, CheckSame,
        After
  <1>8. GammaRight' /\ OwnPoints'
    BY <1>1, <1>2
    DEF PanelIInv, PanelTypeOK, GammaRight, KeyLast, OwnPoints, CrcKinds, CheckSame, After
  <1> QED BY <1>3, <1>4, <1>5, <1>6, <1>7, <1>8 DEF PanelIInv

LEMMA StepCheckMissing == PanelIInv /\ CheckMissing => PanelIInv'
  <1> SUFFICES ASSUME PanelIInv, CheckMissing PROVE PanelIInv' OBVIOUS
  <1> USE DEF Compared, Made, Files, SureKinds
  <1>1. panel' = panel /\ F' = F BY DEF CheckMissing, F
  <1>2. panel # NoFile /\ panel # Torn BY NoPanel DEF PanelIInv, PanelTypeOK
  <1>3. PanelTypeOK' BY <1>1, <1>2, FilesAre
    DEF PanelIInv, PanelTypeOK, Points, Causes, CheckMissing, Convert
  <1>4. CheckLast'
    BY <1>1, <1>2
    DEF PanelIInv, PanelTypeOK, CheckLast, AllThere, OwnPoints, CrcKinds, CheckMissing, Convert
  <1>5. KeyLast'
    BY <1>1, <1>2 DEF PanelIInv, PanelTypeOK, KeyLast, CheckMissing, Convert
  <1>6. Repaired'
    BY <1>1, <1>2
    DEF PanelIInv, PanelTypeOK, Repaired, CheckLast, AllThere, OwnPoints, CrcKinds, CheckMissing,
        Convert
  <1>7. SdcChecked'
    BY <1>1, <1>2
    DEF PanelIInv, PanelTypeOK, SdcChecked, SdcRight, AccRight, OwnPoints, CrcKinds, CheckMissing,
        Convert
  <1>8. GammaRight' /\ OwnPoints'
    BY <1>1, <1>2
    DEF PanelIInv, PanelTypeOK, GammaRight, KeyLast, OwnPoints, CrcKinds, CheckMissing, Convert
  <1> QED BY <1>3, <1>4, <1>5, <1>6, <1>7, <1>8 DEF PanelIInv

LEMMA StepCheckDiffers == PanelIInv /\ CheckDiffers => PanelIInv'
  <1> SUFFICES ASSUME PanelIInv, CheckDiffers PROVE PanelIInv' OBVIOUS
  <1> USE DEF Compared, Made, Files, SureKinds
  <1>1. panel' = panel /\ F' = F BY DEF CheckDiffers, F
  <1>2. panel # NoFile /\ panel # Torn BY NoPanel DEF PanelIInv, PanelTypeOK
  <1>3. PanelTypeOK' BY <1>1, AllToRemove DEF PanelIInv, PanelTypeOK, Points, CheckDiffers
  <1>4. CheckLast'
    BY <1>1, <1>2
    DEF PanelIInv, PanelTypeOK, CheckLast, AllThere, OwnPoints, CrcKinds, CheckDiffers, Outdated
  <1>5. KeyLast'
    BY <1>1, <1>2 DEF PanelIInv, PanelTypeOK, KeyLast, CheckDiffers, Outdated
  <1>6. Repaired'
    BY <1>1, <1>2
    DEF PanelIInv, PanelTypeOK, Repaired, CheckLast, AllThere, OwnPoints, CrcKinds, CheckDiffers,
        Outdated
  <1>7. SdcChecked'
    BY <1>1, <1>2
    DEF PanelIInv, PanelTypeOK, SdcChecked, SdcRight, AccRight, OwnPoints, CrcKinds, CheckDiffers,
        Outdated
  <1>8. GammaRight' /\ OwnPoints'
    BY <1>1, <1>2
    DEF PanelIInv, PanelTypeOK, GammaRight, KeyLast, OwnPoints, CrcKinds, CheckDiffers, Outdated
  <1> QED BY <1>3, <1>4, <1>5, <1>6, <1>7, <1>8 DEF PanelIInv

LEMMA StepCheckFails == PanelIInv /\ CheckFails => PanelIInv'
  <1> SUFFICES ASSUME PanelIInv, CheckFails PROVE PanelIInv' OBVIOUS
  <1> USE DEF Compared, Made, Files, SureKinds
  <1>1. panel' = panel /\ F' = F BY DEF CheckFails, F
  <1>2. panel # NoFile /\ panel # Torn BY NoPanel DEF PanelIInv, PanelTypeOK
  <1>3. PanelTypeOK' BY <1>1, AllToRemove DEF PanelIInv, PanelTypeOK, Points, CheckFails, Convert, Fails
  <1>4. CheckLast'
    BY <1>1, <1>2
    DEF PanelIInv, PanelTypeOK, CheckLast, AllThere, OwnPoints, CrcKinds, CheckFails, Outdated,
        Convert, Fails
  <1>5. KeyLast'
    BY <1>1, <1>2 DEF PanelIInv, PanelTypeOK, KeyLast, CheckFails, Outdated, Convert, Fails
  <1>6. Repaired'
    BY <1>1, <1>2
    DEF PanelIInv, PanelTypeOK, Repaired, CheckLast, AllThere, OwnPoints, CrcKinds, CheckFails,
        Outdated, Convert, Fails
  <1>7. SdcChecked'
    BY <1>1, <1>2
    DEF PanelIInv, PanelTypeOK, SdcChecked, SdcRight, AccRight, OwnPoints, CrcKinds, CheckFails,
        Outdated, Convert, Fails
  <1>8. GammaRight' /\ OwnPoints'
    BY <1>1, <1>2
    DEF PanelIInv, PanelTypeOK, GammaRight, KeyLast, OwnPoints, CrcKinds, CheckFails, Outdated,
        Convert, Fails
  <1> QED BY <1>3, <1>4, <1>5, <1>6, <1>7, <1>8 DEF PanelIInv

LEMMA StepLutUseless == PanelIInv /\ LutUseless => PanelIInv'
  <1> SUFFICES ASSUME PanelIInv, LutUseless PROVE PanelIInv' OBVIOUS
  <1> USE DEF Compared, Made, Files, SureKinds
  <1>1. panel' = panel /\ F' = F BY DEF LutUseless, F
  <1>2. panel # NoFile /\ panel # Torn BY NoPanel DEF PanelIInv, PanelTypeOK
  <1>3. PanelTypeOK' BY <1>1, <1>2, FilesAre
    DEF PanelIInv, PanelTypeOK, Points, Causes, LutUseless, After, Fails, Fine
  <1>4. CheckLast'
    BY <1>1, <1>2
    DEF PanelIInv, PanelTypeOK, CheckLast, AllThere, OwnPoints, CrcKinds, Doubted, LutUseless, After, Fails,
        Fine
  <1>5. KeyLast'
    BY <1>1, <1>2 DEF PanelIInv, PanelTypeOK, KeyLast, LutUseless, After, Fails, Fine
  <1>6. Repaired'
    BY <1>1, <1>2
    DEF PanelIInv, PanelTypeOK, Repaired, CheckLast, AllThere, OwnPoints, CrcKinds, Doubted, LutUseless,
        After, Fails, Fine
  <1>7. SdcChecked'
    BY <1>1, <1>2
    DEF PanelIInv, PanelTypeOK, SdcChecked, SdcRight, AccRight, OwnPoints, CrcKinds, Doubted, LutUseless,
        After, Fails, Fine
  <1>8. GammaRight' /\ OwnPoints'
    BY <1>1, <1>2
    DEF PanelIInv, PanelTypeOK, GammaRight, KeyLast, OwnPoints, CrcKinds, Doubted, LutUseless, After, Fails,
        Fine
  <1> QED BY <1>3, <1>4, <1>5, <1>6, <1>7, <1>8 DEF PanelIInv

LEMMA StepWriteLut == PanelIInv /\ WriteLut => PanelIInv'
  <1> SUFFICES ASSUME PanelIInv, WriteLut PROVE PanelIInv' OBVIOUS
  <1> USE DEF Compared, Made, Files, SureKinds
  <1>1. panel' = panel /\ F' = F BY DEF WriteLut, F
  <1>2. panel # NoFile /\ panel # Torn BY NoPanel DEF PanelIInv, PanelTypeOK
  <1>3. PanelTypeOK' BY <1>1, <1>2, FilesAre
    DEF PanelIInv, PanelTypeOK, Points, Causes, WriteLut, After, Fails, Fine, Written, NotWritten,
        Spoilt
  <1>4. CheckLast'
    BY <1>1, <1>2
    DEF PanelIInv, PanelTypeOK, CheckLast, AllThere, OwnPoints, CrcKinds, WriteLut, After, Fails,
        Fine, Written, NotWritten, Spoilt
  <1>5. KeyLast'
    BY <1>1, <1>2
    DEF PanelIInv, PanelTypeOK, KeyLast, WriteLut, After, Fails, Fine, Written, NotWritten, Spoilt
  <1>6. Repaired'
    BY <1>1, <1>2
    DEF PanelIInv, PanelTypeOK, Repaired, CheckLast, AllThere, OwnPoints, CrcKinds, WriteLut, After,
        Fails, Fine, Written, NotWritten, Spoilt
  <1>7. SdcChecked'
    BY <1>1, <1>2
    DEF PanelIInv, PanelTypeOK, SdcChecked, SdcRight, AccRight, OwnPoints, CrcKinds, WriteLut, After,
        Fails, Fine, Written, NotWritten, Spoilt
  <1>8. GammaRight' /\ OwnPoints'
    BY <1>1, <1>2
    DEF PanelIInv, PanelTypeOK, GammaRight, KeyLast, OwnPoints, CrcKinds, WriteLut, After, Fails,
        Fine, Written, NotWritten, Spoilt
  <1> QED BY <1>3, <1>4, <1>5, <1>6, <1>7, <1>8 DEF PanelIInv

LEMMA StepWriteSet == PanelIInv /\ WriteSet => PanelIInv'
  <1> SUFFICES ASSUME PanelIInv, WriteSet PROVE PanelIInv' OBVIOUS
  <1> USE DEF Compared, Made, Files, SureKinds
  <1>1. panel' = panel /\ F' = F BY DEF WriteSet, F
  <1>2. panel # NoFile /\ panel # Torn BY NoPanel DEF PanelIInv, PanelTypeOK
  <1>3. PanelTypeOK' BY <1>1, <1>2, FilesAre
    DEF PanelIInv, PanelTypeOK, Points, Causes, WriteSet, After, Fails, Fine, Written, NotWritten,
        Spoilt
  <1>4. CheckLast'
    BY <1>1, <1>2
    DEF PanelIInv, PanelTypeOK, CheckLast, AllThere, OwnPoints, CrcKinds, WriteSet, After, Fails,
        Fine, Written, NotWritten, Spoilt
  <1>5. KeyLast'
    BY <1>1, <1>2
    DEF PanelIInv, PanelTypeOK, KeyLast, WriteSet, After, Fails, Fine, Written, NotWritten, Spoilt
  <1>6. Repaired'
    BY <1>1, <1>2
    DEF PanelIInv, PanelTypeOK, Repaired, CheckLast, AllThere, OwnPoints, CrcKinds, WriteSet, After,
        Fails, Fine, Written, NotWritten, Spoilt
  <1>7. SdcChecked'
    BY <1>1, <1>2
    DEF PanelIInv, PanelTypeOK, SdcChecked, SdcRight, AccRight, OwnPoints, CrcKinds, WriteSet, After,
        Fails, Fine, Written, NotWritten, Spoilt
  <1>8. GammaRight' /\ OwnPoints'
    BY <1>1, <1>2
    DEF PanelIInv, PanelTypeOK, GammaRight, KeyLast, OwnPoints, CrcKinds, WriteSet, After, Fails,
        Fine, Written, NotWritten, Spoilt
  <1> QED BY <1>3, <1>4, <1>5, <1>6, <1>7, <1>8 DEF PanelIInv

LEMMA StepWriteCrc == PanelIInv /\ WriteCrc => PanelIInv'
  <1> SUFFICES ASSUME PanelIInv, WriteCrc PROVE PanelIInv' OBVIOUS
  <1> USE DEF Compared, Made, Files, SureKinds
  <1>1. panel' = panel /\ F' = F BY DEF WriteCrc, F
  <1>2. panel # NoFile /\ panel # Torn BY NoPanel DEF PanelIInv, PanelTypeOK
  <1>3. PanelTypeOK' BY <1>1, <1>2, FilesAre
    DEF PanelIInv, PanelTypeOK, Points, Causes, WriteCrc, After, Fails, Fine, Written, NotWritten,
        Spoilt
  <1>4. CheckLast'
    BY <1>1, <1>2
    DEF PanelIInv, PanelTypeOK, CheckLast, AllThere, OwnPoints, CrcKinds, WriteCrc, After, Fails,
        Fine, Written, NotWritten, Spoilt
  <1>5. KeyLast'
    BY <1>1, <1>2
    DEF PanelIInv, PanelTypeOK, KeyLast, WriteCrc, After, Fails, Fine, Written, NotWritten, Spoilt
  <1>6. Repaired'
    BY <1>1, <1>2
    DEF PanelIInv, PanelTypeOK, Repaired, CheckLast, AllThere, OwnPoints, CrcKinds, WriteCrc, After,
        Fails, Fine, Written, NotWritten, Spoilt
  <1>7. SdcChecked'
    BY <1>1, <1>2
    DEF PanelIInv, PanelTypeOK, SdcChecked, SdcRight, AccRight, OwnPoints, CrcKinds, WriteCrc, After,
        Fails, Fine, Written, NotWritten, Spoilt
  <1>8. GammaRight' /\ OwnPoints'
    BY <1>1, <1>2
    DEF PanelIInv, PanelTypeOK, GammaRight, KeyLast, OwnPoints, CrcKinds, WriteCrc, After, Fails,
        Fine, Written, NotWritten, Spoilt
  <1> QED BY <1>3, <1>4, <1>5, <1>6, <1>7, <1>8 DEF PanelIInv

LEMMA StepConvertAcc == PanelIInv /\ ConvertAcc => PanelIInv'
  <1> SUFFICES ASSUME PanelIInv, ConvertAcc PROVE PanelIInv' OBVIOUS
  <1> USE DEF Compared, Made, Files, SureKinds
  <1>1. panel' = panel /\ F' = F BY DEF ConvertAcc, F
  <1>2. panel # NoFile /\ panel # Torn BY NoPanel DEF PanelIInv, PanelTypeOK
  <1>3. PanelTypeOK' BY <1>1, <1>2, FilesAre
    DEF PanelIInv, PanelTypeOK, Points, Causes, ConvertAcc, Fails, Fine, Written, NotWritten, Spoilt,
        Removed, NotRemoved, Gone
  <1>4. CheckLast'
    BY <1>1, <1>2
    DEF PanelIInv, PanelTypeOK, CheckLast, AllThere, OwnPoints, CrcKinds, ConvertAcc, Fails, Fine,
        Written, NotWritten, Spoilt, Removed, NotRemoved, Gone
  <1>5. KeyLast'
    BY <1>1, <1>2
    DEF PanelIInv, PanelTypeOK, KeyLast, ConvertAcc, Fails, Fine, Written, NotWritten, Spoilt,
        Removed, NotRemoved, Gone
  <1>6. Repaired'
    BY <1>1, <1>2
    DEF PanelIInv, PanelTypeOK, Repaired, CheckLast, AllThere, OwnPoints, CrcKinds, ConvertAcc,
        Fails, Fine, Written, NotWritten, Spoilt, Removed, NotRemoved, Gone
  <1>7. SdcChecked'
    BY <1>1, <1>2
    DEF PanelIInv, PanelTypeOK, SdcChecked, SdcRight, AccRight, OwnPoints, CrcKinds, ConvertAcc,
        Fails, Fine, Written, NotWritten, Spoilt, Removed, NotRemoved, Gone
  <1>8. GammaRight' /\ OwnPoints'
    BY <1>1, <1>2
    DEF PanelIInv, PanelTypeOK, GammaRight, KeyLast, OwnPoints, CrcKinds, ConvertAcc, Fails, Fine,
        Written, NotWritten, Spoilt, Removed, NotRemoved, Gone
  <1> QED BY <1>3, <1>4, <1>5, <1>6, <1>7, <1>8 DEF PanelIInv

LEMMA StepAutoFlicker == PanelIInv /\ AutoFlicker => PanelIInv'
  <1> SUFFICES ASSUME PanelIInv, AutoFlicker PROVE PanelIInv' OBVIOUS
  <1> USE DEF Compared, Made, Files, SureKinds
  <1>1. panel' = panel /\ F' = F BY DEF AutoFlicker, F
  <1>2. panel # NoFile /\ panel # Torn BY NoPanel DEF PanelIInv, PanelTypeOK
  <1>3. PanelTypeOK' BY <1>1, <1>2, FilesAre
    DEF PanelIInv, PanelTypeOK, Points, Causes, AutoFlicker, Fails, Fine
  <1>4. CheckLast'
    BY <1>1, <1>2
    DEF PanelIInv, PanelTypeOK, CheckLast, AllThere, OwnPoints, CrcKinds, AutoFlicker, Fails, Fine
  <1>5. KeyLast'
    BY <1>1, <1>2 DEF PanelIInv, PanelTypeOK, KeyLast, AutoFlicker, Fails, Fine
  <1>6. Repaired'
    BY <1>1, <1>2
    DEF PanelIInv, PanelTypeOK, Repaired, CheckLast, AllThere, OwnPoints, CrcKinds, AutoFlicker,
        Fails, Fine
  <1>7. SdcChecked'
    BY <1>1, <1>2
    DEF PanelIInv, PanelTypeOK, SdcChecked, SdcRight, AccRight, OwnPoints, CrcKinds, AutoFlicker,
        Fails, Fine
  <1>8. GammaRight' /\ OwnPoints'
    BY <1>1, <1>2
    DEF PanelIInv, PanelTypeOK, GammaRight, KeyLast, OwnPoints, CrcKinds, AutoFlicker, Fails, Fine
  <1> QED BY <1>3, <1>4, <1>5, <1>6, <1>7, <1>8 DEF PanelIInv

LEMMA StepCreatSdcCheckBin == PanelIInv /\ CreatSdcCheckBin => PanelIInv'
  <1> SUFFICES ASSUME PanelIInv, CreatSdcCheckBin PROVE PanelIInv' OBVIOUS
  <1> USE DEF Compared, Made, Files, SureKinds
  <1>1. panel' = panel /\ F' = F BY DEF CreatSdcCheckBin, F
  <1>2. panel # NoFile /\ panel # Torn BY NoPanel DEF PanelIInv, PanelTypeOK
  <1>3. PanelTypeOK' BY <1>1, <1>2, FilesAre
    DEF PanelIInv, PanelTypeOK, Points, Causes, CreatSdcCheckBin, Fails, Fine, Written, NotWritten,
        Spoilt
  <1>4. CheckLast'
    BY <1>1, <1>2
    DEF PanelIInv, PanelTypeOK, CheckLast, AllThere, OwnPoints, CrcKinds, CreatSdcCheckBin, Fails,
        Fine, Written, NotWritten, Spoilt
  <1>5. KeyLast'
    BY <1>1, <1>2
    DEF PanelIInv, PanelTypeOK, KeyLast, CreatSdcCheckBin, Fails, Fine, Written, NotWritten, Spoilt
  <1>6. Repaired'
    BY <1>1, <1>2
    DEF PanelIInv, PanelTypeOK, Repaired, CheckLast, AllThere, OwnPoints, CrcKinds, CreatSdcCheckBin,
        Fails, Fine, Written, NotWritten, Spoilt
  <1>7. SdcChecked'
    BY <1>1, <1>2
    DEF PanelIInv, PanelTypeOK, SdcChecked, SdcRight, AccRight, OwnPoints, CrcKinds,
        CreatSdcCheckBin, Fails, Fine, Written, NotWritten, Spoilt
  <1>8. GammaRight' /\ OwnPoints'
    BY <1>1, <1>2
    DEF PanelIInv, PanelTypeOK, GammaRight, KeyLast, OwnPoints, CrcKinds, CreatSdcCheckBin, Fails,
        Fine, Written, NotWritten, Spoilt
  <1> QED BY <1>3, <1>4, <1>5, <1>6, <1>7, <1>8 DEF PanelIInv

LEMMA StepNoGamma == PanelIInv /\ NoGamma => PanelIInv'
  <1> SUFFICES ASSUME PanelIInv, NoGamma PROVE PanelIInv' OBVIOUS
  <1> USE DEF Compared, Made, Files, SureKinds
  <1>1. panel' = panel /\ F' = F BY DEF NoGamma, F
  <1>2. panel # NoFile /\ panel # Torn BY NoPanel DEF PanelIInv, PanelTypeOK
  <1>3. PanelTypeOK' BY <1>1, <1>2, FilesAre DEF PanelIInv, PanelTypeOK, Points, Causes, NoGamma
  <1>4. CheckLast'
    BY <1>1, <1>2 DEF PanelIInv, PanelTypeOK, CheckLast, AllThere, OwnPoints, CrcKinds, NoGamma
  <1>5. KeyLast'
    BY <1>1, <1>2 DEF PanelIInv, PanelTypeOK, KeyLast, NoGamma
  <1>6. Repaired'
    BY <1>1, <1>2
    DEF PanelIInv, PanelTypeOK, Repaired, CheckLast, AllThere, OwnPoints, CrcKinds, NoGamma
  <1>7. SdcChecked'
    BY <1>1, <1>2
    DEF PanelIInv, PanelTypeOK, SdcChecked, SdcRight, AccRight, OwnPoints, CrcKinds, NoGamma
  <1>8. GammaRight' /\ OwnPoints'
    BY <1>1, <1>2 DEF PanelIInv, PanelTypeOK, GammaRight, KeyLast, OwnPoints, CrcKinds, NoGamma
  <1> QED BY <1>3, <1>4, <1>5, <1>6, <1>7, <1>8 DEF PanelIInv

LEMMA StepGammaUseless == PanelIInv /\ GammaUseless => PanelIInv'
  <1> SUFFICES ASSUME PanelIInv, GammaUseless PROVE PanelIInv' OBVIOUS
  <1> USE DEF Compared, Made, Files, SureKinds
  <1>1. panel' = panel /\ F' = F BY DEF GammaUseless, F
  <1>2. panel # NoFile /\ panel # Torn BY NoPanel DEF PanelIInv, PanelTypeOK
  <1>3. PanelTypeOK' BY <1>1, <1>2, FilesAre
    DEF PanelIInv, PanelTypeOK, Points, Causes, GammaUseless, Forget, Removed, NotRemoved, Gone,
        Fails, Fine
  <1>4. CheckLast'
    BY <1>1, <1>2
    DEF PanelIInv, PanelTypeOK, CheckLast, AllThere, OwnPoints, CrcKinds, GammaUseless, Forget,
        Removed, NotRemoved, Gone, Fails, Fine
  <1>5. KeyLast'
    BY <1>1, <1>2
    DEF PanelIInv, PanelTypeOK, KeyLast, GammaUseless, Forget, Removed, NotRemoved, Gone, Fails,
        Fine
  <1>6. Repaired'
    BY <1>1, <1>2
    DEF PanelIInv, PanelTypeOK, Repaired, CheckLast, AllThere, OwnPoints, CrcKinds, GammaUseless,
        Forget, Removed, NotRemoved, Gone, Fails, Fine
  <1>7. SdcChecked'
    BY <1>1, <1>2
    DEF PanelIInv, PanelTypeOK, SdcChecked, SdcRight, AccRight, OwnPoints, CrcKinds, GammaUseless,
        Forget, Removed, NotRemoved, Gone, Fails, Fine
  <1>8. GammaRight' /\ OwnPoints'
    BY <1>1, <1>2
    DEF PanelIInv, PanelTypeOK, GammaRight, KeyLast, OwnPoints, CrcKinds, GammaUseless, Forget,
        Removed, NotRemoved, Gone, Fails, Fine
  <1> QED BY <1>3, <1>4, <1>5, <1>6, <1>7, <1>8 DEF PanelIInv

LEMMA StepGammaUnread == PanelIInv /\ GammaUnread => PanelIInv'
  <1> SUFFICES ASSUME PanelIInv, GammaUnread PROVE PanelIInv' OBVIOUS
  <1> USE DEF Compared, Made, Files, SureKinds
  <1>1. panel' = panel /\ F' = F BY DEF GammaUnread, F
  <1>2. panel # NoFile /\ panel # Torn BY NoPanel DEF PanelIInv, PanelTypeOK
  <1>3. PanelTypeOK' BY <1>1, <1>2, FilesAre
    DEF PanelIInv, PanelTypeOK, Points, Causes, GammaUnread, Forgotten, Fails
  <1>4. CheckLast'
    BY <1>1, <1>2
    DEF PanelIInv, PanelTypeOK, CheckLast, AllThere, OwnPoints, CrcKinds, GammaUnread, Forgotten,
        Fails
  <1>5. KeyLast'
    BY <1>1, <1>2 DEF PanelIInv, PanelTypeOK, KeyLast, GammaUnread, Forgotten, Fails
  <1>6. Repaired'
    BY <1>1, <1>2
    DEF PanelIInv, PanelTypeOK, Repaired, CheckLast, AllThere, OwnPoints, CrcKinds, GammaUnread,
        Forgotten, Fails
  <1>7. SdcChecked'
    BY <1>1, <1>2
    DEF PanelIInv, PanelTypeOK, SdcChecked, SdcRight, AccRight, OwnPoints, CrcKinds, GammaUnread,
        Forgotten, Fails
  <1>8. GammaRight' /\ OwnPoints'
    BY <1>1, <1>2
    DEF PanelIInv, PanelTypeOK, GammaRight, KeyLast, OwnPoints, CrcKinds, GammaUnread, Forgotten,
        Fails
  <1> QED BY <1>3, <1>4, <1>5, <1>6, <1>7, <1>8 DEF PanelIInv

LEMMA StepGamma == PanelIInv /\ Gamma => PanelIInv'
  <1> SUFFICES ASSUME PanelIInv, Gamma PROVE PanelIInv' OBVIOUS
  <1> USE DEF Compared, Made, Files, SureKinds
  <1>1. panel' = panel /\ F' = F BY DEF Gamma, F
  <1>2. panel # NoFile /\ panel # Torn BY NoPanel DEF PanelIInv, PanelTypeOK
  <1>3. PanelTypeOK'
    <2>1. \A g \in PartsOfGamma : Spoilt(g) \in [Files -> known \cup {NoFile, Torn}]
      BY FilesAre DEF PanelIInv, PanelTypeOK, Spoilt, PartsOfGamma
    <2>2. files' \in [Files -> known \cup {NoFile, Torn}]
      BY <1>1, <2>1, FilesAre
     
      DEF PanelIInv, PanelTypeOK, Gamma, PlainGamma, SpecGamma, Spec3Gamma, WriteGamma, Forgotten,
          Written
    <2>3. UNCHANGED <<panel, known, dvr, left>> /\ pc' = "done" /\ clean' \in BOOLEAN
      BY
      DEF PanelIInv, PanelTypeOK, Gamma, PlainGamma, SpecGamma, Spec3Gamma, WriteGamma, Forgotten,
          Written, Fails, Fine
    <2>4. trouble' \in {"none", "some", "check"}
      BY
      DEF PanelIInv, PanelTypeOK, Gamma, PlainGamma, SpecGamma, Spec3Gamma, WriteGamma, Forgotten,
          Written, Fails, Fine
    <2> QED BY <2>2, <2>3, <2>4 DEF PanelIInv, PanelTypeOK, Points
  <1>4. CheckLast'
    BY <1>1, <1>2
    DEF PanelIInv, PanelTypeOK, CheckLast, AllThere, OwnPoints, CrcKinds, Gamma, PlainGamma,
        SpecGamma, Spec3Gamma, WriteGamma, PartsOfGamma, Forgotten, Written, Fails, Fine,
        Spoilt
  <1>5. KeyLast'
    BY <1>1, <1>2
    DEF PanelIInv, PanelTypeOK, KeyLast, Gamma, PlainGamma, SpecGamma, Spec3Gamma, WriteGamma,
        PartsOfGamma, Forgotten, Written, Fails, Fine, Spoilt
  <1>6. Repaired'
    BY <1>1, <1>2
    DEF PanelIInv, PanelTypeOK, Repaired, CheckLast, AllThere, OwnPoints, CrcKinds, Gamma,
        PlainGamma, SpecGamma, Spec3Gamma, WriteGamma, PartsOfGamma, Forgotten, Written,
        Fails, Fine, Spoilt
  <1>7. SdcChecked'
    BY <1>1, <1>2
    DEF PanelIInv, PanelTypeOK, SdcChecked, SdcRight, AccRight, OwnPoints, CrcKinds, Gamma,
        PlainGamma, SpecGamma, Spec3Gamma, WriteGamma, PartsOfGamma, Forgotten, Written,
        Fails, Fine, Spoilt
  <1>8. GammaRight' /\ OwnPoints'
    BY <1>1, <1>2
    DEF PanelIInv, PanelTypeOK, GammaRight, KeyLast, OwnPoints, CrcKinds, Gamma, PlainGamma,
        SpecGamma, Spec3Gamma, WriteGamma, PartsOfGamma, Forgotten, Written, Fails, Fine,
        Spoilt
  <1> QED BY <1>3, <1>4, <1>5, <1>6, <1>7, <1>8 DEF PanelIInv

LEMMA StepRemove == PanelIInv /\ Remove => PanelIInv'
  <1> SUFFICES ASSUME PanelIInv, Remove PROVE PanelIInv' OBVIOUS
  <1> USE DEF Compared, Made, Files, SureKinds
  <1>1. panel' = panel /\ F' = F BY DEF Remove, F
  <1>2. panel # NoFile /\ panel # Torn BY NoPanel DEF PanelIInv, PanelTypeOK
  <1>3. PICK f \in {"lut", "set", "gamma", "acc", "crc"} :
          /\ f = Head(left) /\ (Removed(f) \/ NotRemoved(f))
          /\ left = <<"lut", "set", "gamma", "acc", "crc">> <=> f = "lut"
    BY Suffixes DEF Remove, PanelIInv, PanelTypeOK
  <1>4. /\ left' \in Removals \cup {<<>>} /\ (pc' = "remove" => left' # <<>>)
        /\ left' # <<"lut", "set", "gamma", "acc", "crc">>
        /\ pc' \in {"remove", Convert}
    BY Suffixes DEF Remove, PanelIInv, PanelTypeOK, Convert
  <1>5. files' \in [Files -> known \cup {NoFile, Torn}]
    BY <1>3 DEF PanelIInv, PanelTypeOK, Removed, NotRemoved, Gone
  <1>6. PanelTypeOK'
    BY <1>1, <1>2, <1>3, <1>4, <1>5
    DEF Remove, PanelIInv, PanelTypeOK, Points, Removed, NotRemoved, Convert, Fine, Fails
  <1>7. CheckLast' /\ KeyLast'
    BY <1>1, <1>2, <1>3, <1>4
   
    DEF Remove, PanelIInv, PanelTypeOK, CheckLast, KeyLast, CrcKinds, Removed, NotRemoved, Gone,
        Convert, Fine, Fails
  <1>8. Repaired'
    BY <1>1, <1>2, <1>3, <1>4
   
    DEF Remove, PanelIInv, PanelTypeOK, Repaired, AllThere, CrcKinds, Removed, NotRemoved, Gone,
        Convert, Fine, Fails
  <1>9. SdcChecked'
    BY <1>1, <1>2, <1>3, <1>4
   
    DEF Remove, PanelIInv, PanelTypeOK, SdcChecked, SdcRight, AccRight, CrcKinds, Removed,
        NotRemoved, Gone, Convert, Fine, Fails
  <1>10. GammaRight' /\ OwnPoints'
    BY <1>1, <1>4 DEF Remove, PanelIInv, OwnPoints, GammaRight, Convert, CrcKinds
  <1> QED BY <1>6, <1>7, <1>8, <1>9, <1>10 DEF PanelIInv

LEMMA StepReplace == ASSUME NEW p \in Panels PROVE PanelIInv /\ Replace(p) => PanelIInv'
  <1> SUFFICES ASSUME PanelIInv, Replace(p) PROVE PanelIInv' OBVIOUS
  <1>1. \A f \in Files : files'[f] # panel'
    BY NoPanel DEF PanelIInv, PanelTypeOK, Replace
  <1>2. PanelTypeOK' BY DEF PanelIInv, PanelTypeOK, Replace, Points
  <1>3. CheckLast' /\ KeyLast' BY <1>1 DEF PanelIInv, PanelTypeOK, Replace, CheckLast, KeyLast, Files
  <1>4. Repaired' /\ GammaRight' /\ OwnPoints'
    BY DEF Replace, Repaired, GammaRight, OwnPoints
  <1>5. SdcChecked' BY <1>1 DEF Replace, SdcChecked, Files
  <1> QED BY <1>2, <1>3, <1>4, <1>5 DEF PanelIInv

LEMMA StepIInv == PanelIInv /\ [PanelNext]_panelVars => PanelIInv'
  <1>1. PanelIInv /\ PanelNext => PanelIInv'
    BY StepPowerOn, StepNoKey, StepPowerOff, StepReplace, StepCheckSame, StepCheckMissing,
       StepCheckDiffers, StepCheckFails, StepRemove, StepLutUseless, StepWriteLut,
       StepWriteSet, StepWriteCrc, StepConvertAcc, StepAutoFlicker, StepCreatSdcCheckBin,
       StepNoGamma, StepGammaUseless, StepGammaUnread, StepGamma
    DEF PanelNext
  <1>2. PanelIInv /\ UNCHANGED panelVars => PanelIInv'
    BY DEF panelVars, PanelIInv, PanelTypeOK, CheckLast, KeyLast, Repaired, SdcChecked, SdcRight, AccRight,
           GammaRight, OwnPoints, Compared, Made, AllThere, F
  <1> QED BY <1>1, <1>2

-----------------------------------------------------------------------------
(* The theorems. *)

\* The files hold data of panels that have been attached, nothing else.
THEOREM PanelTypeCorrect == PanelSpec => []PanelTypeOK
  <1>1. PanelIInv => PanelTypeOK BY DEF PanelIInv
  <1> QED BY InitIInv, StepIInv, <1>1, PTL DEF PanelSpec

\* What the next start would not make again (PANEL_BIN_FILE_CEHCK and the three
\* gamma functions) was made from the panel attached.
THEOREM FilesAreOurs == PanelSpec => []CheckedIsOurs
  <1>1. PanelIInv => CheckedIsOurs
    BY DEF PanelIInv, CheckedIsOurs, Trusted, CheckLast, KeyLast, Compared, Made
  <1> QED BY InitIInv, StepIInv, <1>1, PTL DEF PanelSpec

\* A start in which nothing fails puts right what earlier ones have left
\* (PANEL_SIZE_CHOICE).
THEOREM StartRepairs == PanelSpec => []CleanStart
  <1>1. PanelIInv => CleanStart
    <2> SUFFICES ASSUME PanelIInv, pc = "done", clean, trouble # "check" PROVE CleanStart
      BY DEF CleanStart
    <2>1. F.kind \in SureKinds => IF Usable(F) THEN Made /\ files.crc = panel ELSE ~AllThere
      BY DEF PanelIInv, Repaired, Compared, SureKinds
    <2>2. F.kind = "55SDC" /\ trouble = "none" => SdcRight
      BY DEF PanelIInv, SdcChecked
    <2>3. F.gammaKind # "none" => files.gamma = IF F.gamma THEN panel ELSE NoFile
      BY DEF PanelIInv, GammaRight
    <2> QED BY <2>1, <2>2, <2>3 DEF CleanStart, Made, SdcRight, AccRight
  <1> QED BY InitIInv, StepIInv, <1>1, PTL DEF PanelSpec
=============================================================================
