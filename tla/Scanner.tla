------------------------------ MODULE Scanner ------------------------------
(***************************************************************************)
(* CTvScanner (libtv/tv/CTvScanner.cpp): a scan, from the parameters of a  *)
(* client to the events that tell it how far the search has come.          *)
(*                                                                         *)
(* Three threads meet here: a client's, which starts and stops scans under *)
(* CTv::mLock; libdvb's scan thread, which calls back when it changes the  *)
(* kind of frontend (FETypeHelperCB) and with every event (evtCallback);   *)
(* and the thread of the VBI capture.  libdvb is external: it goes through *)
(* the channels it was given, one kind after the other, and a scan that is *)
(* destroyed stores what it has and ends before AM_SCAN_Destroy returns.   *)
(*                                                                         *)
(* Abstractions: a frequency is a number of half megahertz (a channel of   *)
(* the region tables may lie between two whole ones); the frontend, vdin's *)
(* port and its decoder do what they are told; the events that carry no    *)
(* progress (NIT, PAT, SDT, PMT, TS_END) do nothing and are left out;      *)
(* building the lists of services is in ScanList.                          *)
(***************************************************************************)
EXTENDS Integers, Sequences, FiniteSets

Kinds == {"analog", "digital"}

Scans == [atv : {"NONE", "AUTO", "MANUAL", "FREQ"}, a1 : Nat, a2 : Nat,
          dtv : {"NONE", "AUTO", "MANUAL", "ALLBAND"}, d1 : Nat, d2 : Nat,
          atsc : BOOLEAN,     \* the standard is forced to ATSC
          first : Kinds]      \* TV_SCAN_MODE_ATV_DTV or TV_SCAN_MODE_DTV_ATV

CONSTANTS Requests,  \* the scans that clients ask for
          AtvTable,  \* the frequencies of the region table for analog channels
          DtvTable,  \* and of the one for digital channels
          None       \* no scan, no kind

ASSUME ScannerAssumption ==
    /\ Requests \subseteq Scans
    /\ AtvTable \subseteq Nat /\ DtvTable \subseteq Nat
    /\ IsFiniteSet(AtvTable) /\ IsFiniteSet(DtvTable)
    /\ None \notin Scans \cup Kinds

Megahertz == 2

VARIABLES client,   \* where the client is that starts or stops a scan, and the scan it wants
          scan,     \* CTvScanner
          ev,       \* mCurEv
          lib,      \* libdvb's scan
          dev,      \* the frontend's mode, vdin's port and decoder
          db,       \* the region tables are filled
          told      \* the last event sent to the clients

vars == <<client, scan, ev, lib, dev, db, told>>

Idle == [on |-> FALSE, quit |-> FALSE, at |-> "exit", todo |-> <<>>]

Init ==
    /\ client = [at |-> "idle", wants |-> None]
    /\ scan = [started |-> FALSE,  \* mbScanStart
               paras |-> None,     \* mScanParas
               fe |-> None,        \* mFEType
               vbi |-> FALSE]      \* mVbi
    /\ ev = [percent |-> 0, total |-> 0, base |-> None]
    /\ lib = Idle
    /\ dev = [fe |-> None, port |-> FALSE, decoder |-> FALSE]
    /\ db \in BOOLEAN
    /\ told = [type |-> "none", percent |-> 0, kind |-> None, locked |-> FALSE, new |-> FALSE]

-----------------------------------------------------------------------------
(* What is searched. *)

\* The i-th of some frequencies has i - 1 others below it.
Ascending(freqs) ==
    [i \in 1..Cardinality(freqs) |->
        CHOOSE f \in freqs : Cardinality({g \in freqs : g < f}) = i - 1]

InRange(table, from, to) == {f \in table : from <= f /\ f <= to}

\* getChannelListByName: nothing as long as the tables are not filled.
Table(table, filled) == IF filled THEN table ELSE {}

ByList(p) == p.atv = "FREQ"

AtvRefused(p) ==
    \/ ~ByList(p) /\ (p.a1 = 0 \/ p.a2 = 0)
    \/ p.atv \in {"AUTO", "FREQ"} /\ p.a1 > p.a2

AtvInList(p, filled) ==
    LET table == Table(AtvTable, filled)
    IN  IF p.a1 = 0 /\ p.a2 = 0 THEN table ELSE InRange(table, p.a1, p.a2)

\* An empty list has the tables imported again, and is then the whole table.
AtvImports(p, filled) == p.atv # "NONE" /\ ~AtvRefused(p) /\ ByList(p) /\ AtvInList(p, filled) = {}

\* The stations a tuner meets between the limits: libdvb steps through them.
Between(from, to) ==
    IF from <= to THEN [i \in 1..(to - from + 1) |-> from + i - 1]
    ELSE [i \in 1..(from - to + 1) |-> from - i + 1]

createAtvParas(p, filled) ==
    IF p.atv = "NONE" THEN <<>>
    ELSE IF ~ByList(p) THEN Between(p.a1, p.a2)
    ELSE IF AtvInList(p, filled) = {} THEN Ascending(AtvTable)
    ELSE Ascending(AtvInList(p, filled))

\* A manual search for one frequency that no channel has looks for a channel
\* in the megahertz it belongs to, which is then taken to be at that frequency.
createDtvParas(p, filled) ==
    LET table == Table(DtvTable, filled)
        floor == (p.d1 \div Megahertz) * Megahertz
        exact == InRange(table, p.d1, p.d2)
        near  == IF p.d1 = p.d2 THEN InRange(table, floor, floor + Megahertz) ELSE {}
    IN  CASE p.dtv = "NONE" -> <<>>
          [] p.dtv = "ALLBAND" -> Ascending(table)
          [] p.dtv = "AUTO" -> IF Cardinality(table) < 2 THEN <<>>
                               ELSE IF p.d1 = p.d2 THEN <<p.d1>> ELSE <<p.d1, p.d2>>
          [] p.dtv = "MANUAL" -> IF exact # {} THEN Ascending(exact)
                                 ELSE IF Cardinality(near) = 1 THEN <<p.d1>>
                                 ELSE Ascending(near)

Channels(kind, freqs) ==
    [i \in 1..Len(freqs) |->
        [kind |-> kind, freq |-> freqs[i], index |-> i - 1, total |-> Len(freqs)]]

Searched(p, filled) ==
    LET atv == Channels("analog", createAtvParas(p, filled))
        dtv == Channels("digital", createDtvParas(p, filled))
    IN  IF p.first = "analog" THEN atv \o dtv ELSE dtv \o atv

needVbiAssist(p) == p.atsc /\ p.atv # "NONE"

-----------------------------------------------------------------------------
(* The client's thread: Scan and stopScan.  Scan stops the present scan    *)
(* first; stopVBI and AM_SCAN_Destroy are two steps of stopScan, and the   *)
(* scan thread runs between them.                                          *)

Call(p) ==
    /\ client.at = "idle"
    /\ client' = [at |-> IF scan.started THEN "stopping" ELSE IF p = None THEN "idle" ELSE "starting",
                  wants |-> IF scan.started \/ p # None THEN p ELSE None]
    /\ UNCHANGED <<scan, ev, lib, dev, db, told>>

stopVBI ==
    /\ client.at = "stopping"
    /\ client' = [client EXCEPT !.at = "destroying"]
    /\ scan' = [scan EXCEPT !.vbi = @ /\ ~needVbiAssist(scan.paras)]
    /\ lib' = [lib EXCEPT !.quit = TRUE]
    /\ UNCHANGED <<ev, dev, db, told>>

\* AM_SCAN_Destroy has returned: the scan thread is gone.
stopScan ==
    /\ client.at = "destroying" /\ ~lib.on
    /\ scan' = [scan EXCEPT !.started = FALSE, !.fe = None]
    /\ client' = [client EXCEPT !.at = IF @ # "idle" /\ client.wants # None THEN "starting" ELSE "idle"]
    /\ UNCHANGED <<ev, lib, dev, db, told>>

\* mCurEv.reset() leaves the percentage, the number of channels and the lock.
Reset(e) == [e EXCEPT !.base = None]

\* created: libdvb makes a scan of the parameters and starts it.
Scan(created) ==
    /\ client.at = "starting"
    /\ LET p == client.wants
           filled == db \/ AtvImports(p, db)
           todo == Searched(p, filled)
           bad  == AtvRefused(p) /\ p.atv # "NONE"
           none == p.dtv # "NONE" /\ createDtvParas(p, filled) = <<>>
           ok   == ~bad /\ ~none /\ created
       IN  /\ scan' = [scan EXCEPT !.paras = p, !.fe = None, !.started = ok]
           /\ lib' = IF ok THEN [on |-> TRUE, quit |-> FALSE, at |-> "begin", todo |-> todo]
                     ELSE Idle
           /\ db' = IF bad THEN db ELSE filled
    /\ ev' = Reset(ev)
    /\ client' = [at |-> "idle", wants |-> None]
    /\ UNCHANGED <<dev, told>>

\* While nothing is searched the other operations move the devices.
Others ==
    /\ client.at = "idle" /\ ~scan.started
    /\ \E kind \in Kinds, port, decoder \in BOOLEAN :
         /\ decoder => port
         /\ dev' = [fe |-> kind, port |-> port, decoder |-> decoder]
    /\ UNCHANGED <<client, scan, ev, lib, db, told>>

-----------------------------------------------------------------------------
(* The scan thread. *)

Channel == Head(lib.todo)

At(step) == lib.on /\ lib.at = step

Kind == IF lib.todo = <<>> THEN None ELSE Channel.kind

\* new: 0x10 of mLockedStatus.
SendLock(type, e, locked, new) ==
    /\ ev' = e
    /\ told' = [type |-> type, percent |-> e.percent, kind |-> Kind, locked |-> locked, new |-> new]

Send(type, e) == SendLock(type, e, FALSE, FALSE)

ScanBegin ==
    /\ At("begin")
    /\ Send("begin", [ev EXCEPT !.percent = 0])
    /\ lib' = [lib EXCEPT !.at = "tune"]
    /\ UNCHANGED <<client, scan, dev, db>>

\* Faulty variant: the port of the analog search stays open.
Tuner_KeepPort(kind) ==
    [fe |-> kind, port |-> dev.port \/ kind = "analog", decoder |-> FALSE]

\* setMode, Tvin_StopDecoder, VDIN_ClosePort and, for analog channels, VDIN_OpenPort.
Tuner(kind) == [fe |-> kind, port |-> kind = "analog", decoder |-> FALSE]

\* libdvb asks for the kind of the next channel before it tunes to it.
FETypeHelperCB ==
    /\ At("tune") /\ ~lib.quit /\ lib.todo # <<>>
    /\ IF scan.fe = Channel.kind
       THEN /\ lib' = [lib EXCEPT !.at = "channel"]
            /\ UNCHANGED <<scan, dev>>
       ELSE /\ scan' = [scan EXCEPT !.fe = Channel.kind]
            /\ dev' = Tuner(Channel.kind)
            /\ lib' = [lib EXCEPT !.at = IF needVbiAssist(scan.paras) THEN "vbi" ELSE "channel"]
    /\ UNCHANGED <<client, ev, db, told>>

\* Faulty variant: the capture is only restarted, never stopped.
VbiFor_NeverStop(kind, starts) == IF kind = "analog" THEN starts ELSE scan.vbi

VbiFor(kind, starts) == kind = "analog" /\ starts

\* resetVBI for analog channels, stopVBI for digital ones.
resetVBI(starts) ==
    /\ At("vbi")
    /\ scan' = [scan EXCEPT !.vbi = VbiFor(Channel.kind, starts)]
    /\ lib' = [lib EXCEPT !.at = "channel"]
    /\ UNCHANGED <<client, ev, dev, db, told>>

Mixed(p) == p.atv # "NONE" /\ p.dtv # "NONE"

\* What share of the progress a kind of channel has.
Factor(p) == IF Mixed(p) /\ ~ByList(p) THEN 50 ELSE 100

Least(a, b) == IF a < b THEN a ELSE b

TsPercent(p, c) ==
    IF c.kind = "analog" /\ ~Mixed(p) /\ ~ByList(p) THEN 0
    ELSE Least((c.index * Factor(p)) \div c.total, Factor(p) - 1)

TsBegin(p, c, e) ==
    [percent |-> TsPercent(p, c), total |-> IF e.total = 0 THEN c.total ELSE e.total, base |-> c.kind]

\* A division by zero is undefined; it yields zero on the ARM cores.
Share(part, whole) == IF whole = 0 THEN 0 ELSE part \div whole

\* The percentage of an analog search that steps through the frequencies.
AtvPercent(p, c) ==
    LET gone  == IF p.a1 <= p.a2 THEN c.freq - p.a1 ELSE p.a1 - c.freq
        whole == IF p.a1 <= p.a2 THEN p.a2 - p.a1 ELSE p.a1 - p.a2
    IN  Share((gone \div Megahertz) * Factor(p), whole \div Megahertz)
        + (IF Factor(p) = 50 THEN 50 ELSE 0)

\* Faulty variant: mCurEv keeps the kind of the last channel.
AtvTuning_KeepBase(p, c, e) == [e EXCEPT !.percent = AtvPercent(p, c)]

AtvTuning(p, c, e) == [e EXCEPT !.percent = AtvPercent(p, c), !.base = "analog"]

Steps(p, c) == c.kind = "analog" /\ ~ByList(p)

\* TS_BEGIN, or ATV_TUNING where libdvb steps through the frequencies.
ChannelBegin ==
    /\ At("channel")
    /\ Send("channel", IF Steps(scan.paras, Channel) THEN AtvTuning(scan.paras, Channel, ev)
                       ELSE TsBegin(scan.paras, Channel, ev))
    /\ lib' = [lib EXCEPT !.at = "signal"]
    /\ UNCHANGED <<client, scan, dev, db>>

\* AM_SCAN_EVT_SIGNAL: 0x10 tells the clients of an analog channel.
Signal(locked) ==
    /\ At("signal")
    /\ SendLock("signal", ev, locked, locked /\ ev.base = "analog")
    /\ lib' = [lib EXCEPT !.at = IF ~locked THEN "next"
                                 ELSE IF Kind = "digital" /\ scan.paras.atsc THEN "mgt" ELSE "store"]
    /\ UNCHANGED <<client, scan, dev, db>>

\* Faulty variant: every table moves the progress.
Tables_Always(e, add) == [e EXCEPT !.percent = Least(@ + add, 99)]

\* MGT_DONE and VCT_DONE move the progress of a search for one channel.
Tables(e, add) == IF e.total = 1 THEN [e EXCEPT !.percent = Least(@ + add, 99)] ELSE e

MgtDone ==
    /\ At("mgt")
    /\ Send("tables", Tables(ev, 10))
    /\ lib' = [lib EXCEPT !.at = "vct"]
    /\ UNCHANGED <<client, scan, dev, db>>

VctDone ==
    /\ At("vct")
    /\ Send("tables", Tables(ev, 30))
    /\ lib' = [lib EXCEPT !.at = "store"]
    /\ UNCHANGED <<client, scan, dev, db>>

\* NEW_PROGRAM_MORE: storeScan sends every service found so far.  Each goes
\* through mCurEv, which keeps the parameters of the last one: those of an
\* analog channel, if there is one, as they are put behind the digital ones.
NewProgramMore ==
    /\ At("store")
    /\ \E last \in Kinds :
         /\ last = "digital" => Kind = "digital"
         /\ last = "analog" /\ Kind = "digital" => scan.paras.first = "analog" /\ scan.paras.atv # "NONE"
         /\ ev' = [ev EXCEPT !.base = last]
    /\ lib' = [lib EXCEPT !.at = "next"]
    /\ UNCHANGED <<client, scan, dev, db, told>>

NextChannel ==
    /\ At("next")
    /\ lib' = [lib EXCEPT !.at = "tune", !.todo = Tail(@)]
    /\ UNCHANGED <<client, scan, ev, dev, db, told>>

\* STORE_BEGIN, the last storeScan, STORE_END and SCAN_END.
ScanEnd ==
    /\ At("tune") /\ (lib.quit \/ lib.todo = <<>>)
    /\ Send("end", [ev EXCEPT !.percent = 100])
    /\ lib' = [lib EXCEPT !.at = "exit"]
    /\ UNCHANGED <<client, scan, dev, db>>

\* SCAN_EXIT, and libdvb's thread ends.
ScanExit ==
    /\ At("exit")
    /\ Send("exit", ev)
    /\ lib' = Idle
    /\ UNCHANGED <<client, scan, dev, db>>

-----------------------------------------------------------------------------
Next ==
    \/ \E p \in Requests \cup {None} : Call(p)
    \/ stopVBI \/ stopScan
    \/ \E created \in BOOLEAN : Scan(created)
    \/ Others
    \/ ScanBegin \/ FETypeHelperCB
    \/ \E starts \in BOOLEAN : resetVBI(starts)
    \/ ChannelBegin
    \/ \E locked \in BOOLEAN : Signal(locked)
    \/ MgtDone \/ VctDone \/ NewProgramMore \/ NextChannel \/ ScanEnd \/ ScanExit

Spec == Init /\ [][Next]_vars

-----------------------------------------------------------------------------
(* Properties. *)

TypeOK ==
    /\ client \in [at : {"idle", "stopping", "destroying", "starting"}, wants : Requests \cup {None}]
    /\ scan \in [started : BOOLEAN, paras : Requests \cup {None}, fe : Kinds \cup {None}, vbi : BOOLEAN]
    /\ ev \in [percent : 0..100, total : Nat, base : Kinds \cup {None}]
    /\ lib.on \in BOOLEAN /\ lib.quit \in BOOLEAN
    /\ dev \in [fe : Kinds \cup {None}, port : BOOLEAN, decoder : BOOLEAN]
    /\ db \in BOOLEAN
    /\ told \in [type : {"none", "begin", "channel", "signal", "tables", "end", "exit"},
                 percent : 0..100, kind : Kinds \cup {None}, locked : BOOLEAN, new : BOOLEAN]

Receiving == lib.on /\ lib.at \in {"signal", "mgt", "vct", "store"}

\* While libdvb receives a channel the devices are set for its kind: the
\* frontend is in its mode, vdin's port is open for analog channels only, the
\* decoder is stopped, and no VBI capture runs beside a digital channel of a scan
\* that uses it.  FETypeHelperCB is called for each channel and acts only when
\* the kind changes, so it must not believe in a kind that other operations have
\* changed between two scans.
DevicesFollow ==
    Receiving =>
      /\ dev.fe = Kind /\ (dev.port <=> Kind = "analog") /\ ~dev.decoder
      /\ Kind = "digital" /\ needVbiAssist(scan.paras) => ~scan.vbi

\* A signal is told as a new analog channel (0x10) exactly when libdvb has
\* locked an analog channel.  Whether it is analog is read from mCurEv, which
\* belongs to whatever was sent last.
LockToldRight == told.type = "signal" => (told.new <=> told.locked /\ told.kind = "analog")

TotalIsRight == lib.todo # <<>> /\ ev.total = Channel.total

\* While channels of one kind are searched the progress never goes back,
\* provided the number of channels is that of their list.
ProgressSteady ==
    [][TotalIsRight /\ told'.type # "begin" /\ told'.kind = told.kind
         => told.percent <= told'.percent]_told
=============================================================================
