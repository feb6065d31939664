--------------------------- MODULE Scanner_proofs ---------------------------
(***************************************************************************)
(* Proofs about Scanner, for every set of scans and every region table:    *)
(* the devices follow the channel that libdvb receives, a signal is told   *)
(* for what it is, and progress is a percentage that does not go back.    *)
(*                                                                         *)
(* Ordered says how far the client's thread and libdvb's have come with    *)
(* each other: no scan is made before the last one is gone.  Queued says   *)
(* what libdvb still has before it.  On that rests KindKept, which lets    *)
(* FETypeHelperCB do nothing while the kind stays the same.                *)
(***************************************************************************)
EXTENDS Scanner, FiniteSetTheorems, TLAPS

\* The steps at which libdvb has a channel in its hands.
Working == {"vbi", "channel", "signal", "mgt", "vct", "store"}

LibSteps == {"begin", "tune", "next", "exit"} \cup Working

-----------------------------------------------------------------------------
(* The inductive invariant. *)

\* A channel as createAtvParas and createDtvParas make them.
Sound(c, p) ==
    /\ c.kind \in Kinds /\ c.index \in Nat /\ c.total \in Nat /\ c.index < c.total
    /\ c.kind = "analog" /\ ~ByList(p) =>
         c.freq \in Nat /\ (IF p.a1 <= p.a2 THEN c.freq \in p.a1..p.a2 ELSE c.freq \in p.a2..p.a1)

Channelled(s, p) == \E S : s \in Seq(S) /\ \A c \in S : Sound(c, p)

Ordered ==
    /\ lib.on => scan.started
    /\ client.at = "starting" => ~scan.started /\ client.wants # None
    /\ scan.started => scan.paras # None

Queued ==
    /\ lib = [on |-> lib.on, quit |-> lib.quit, at |-> lib.at, todo |-> lib.todo]
    /\ lib.on => Channelled(lib.todo, scan.paras)
    /\ ~lib.on => lib.todo = <<>>
    /\ lib.at \in LibSteps
    /\ lib.on /\ lib.at \in Working \cup {"next"} => lib.todo # <<>>

KindKept ==
    /\ lib.on /\ lib.at \in Working => scan.fe = Kind
    /\ lib.on /\ scan.fe # None => dev = Tuner(scan.fe)
    /\ lib.on /\ scan.fe = "digital" /\ lib.at # "vbi" /\ needVbiAssist(scan.paras) => ~scan.vbi

BaseKept == lib.on /\ lib.at = "signal" => ev.base = Kind

IInv == TypeOK /\ Ordered /\ Queued /\ KindKept /\ BaseKept /\ LockToldRight

-----------------------------------------------------------------------------
(* The lists of channels. *)

\* Ascending lists a finite set.
LEMMA AscendingIsList ==
    ASSUME NEW S, IsFiniteSet(S)
    PROVE  Len(Ascending(S)) \in Nat
<1>1. Cardinality(S) \in Nat
  BY FS_CardinalityType
<1>. QED
  BY <1>1 DEF Ascending

\* Between has every frequency from one limit to the other.
LEMMA BetweenIsList ==
    ASSUME NEW a \in Nat, NEW b \in Nat
    PROVE  /\ Len(Between(a, b)) \in Nat
           /\ \A i \in 1..Len(Between(a, b)) : 
                /\ Between(a, b)[i] \in Nat
                /\ IF a <= b THEN Between(a, b)[i] \in a..b ELSE Between(a, b)[i] \in b..a
<1>1. CASE a <= b
  <2>1. b - a + 1 \in Nat
    BY <1>1
  <2>2. Between(a, b) = [i \in 1..(b - a + 1) |-> a + i - 1]
    BY <1>1 DEF Between
  <2>3. Len(Between(a, b)) = b - a + 1
    BY <2>1, <2>2
  <2>. QED
    BY <1>1, <2>1, <2>2, <2>3
<1>2. CASE ~(a <= b)
  <2>1. a - b + 1 \in Nat
    BY <1>2
  <2>2. Between(a, b) = [i \in 1..(a - b + 1) |-> a - i + 1]
    BY <1>2 DEF Between
  <2>3. Len(Between(a, b)) = a - b + 1
    BY <2>1, <2>2
  <2>. QED
    BY <1>2, <2>1, <2>2, <2>3
<1>. QED
  BY <1>1, <1>2

\* createAtvParas returns a list; without a region table it lies between the limits.
LEMMA AtvIsList ==
    ASSUME NEW p \in Requests, NEW filled \in BOOLEAN
    PROVE  LET list == createAtvParas(p, filled)
           IN  /\ Len(list) \in Nat
               /\ ~ByList(p) => \A i \in 1..Len(list) : 
                    /\ list[i] \in Nat
                    /\ IF p.a1 <= p.a2 THEN list[i] \in p.a1..p.a2 ELSE list[i] \in p.a2..p.a1
<1>1. p.a1 \in Nat /\ p.a2 \in Nat
  BY ScannerAssumption DEF Scans
<1>2. IsFiniteSet(AtvTable) /\ IsFiniteSet(AtvInList(p, filled))
  <2>1. AtvInList(p, filled) \subseteq AtvTable
    BY DEF AtvInList, Table, InRange
  <2>. QED
    BY <2>1, ScannerAssumption, FS_Subset
<1>3. CASE p.atv = "NONE"
  BY <1>3 DEF createAtvParas
<1>4. CASE p.atv # "NONE" /\ ~ByList(p)
  BY <1>1, <1>4, BetweenIsList DEF createAtvParas
<1>5. CASE p.atv # "NONE" /\ ByList(p)
  BY <1>2, <1>5, AscendingIsList DEF createAtvParas
<1>. QED
  BY <1>3, <1>4, <1>5

\* So does createDtvParas.
LEMMA DtvIsList ==
    ASSUME NEW p \in Requests, NEW filled \in BOOLEAN
    PROVE  Len(createDtvParas(p, filled)) \in Nat
<1>1. \A from, to : IsFiniteSet(InRange(Table(DtvTable, filled), from, to))
  BY ScannerAssumption, FS_Subset DEF InRange, Table
<1>2. IsFiniteSet(Table(DtvTable, filled))
  BY ScannerAssumption, FS_EmptySet DEF Table
<1>3. p.dtv \in {"NONE", "AUTO", "MANUAL", "ALLBAND"}
  BY ScannerAssumption DEF Scans
<1>. DEFINE floor == (p.d1 \div Megahertz) * Megahertz
            exact == InRange(Table(DtvTable, filled), p.d1, p.d2)
            near  == IF p.d1 = p.d2 THEN InRange(Table(DtvTable, filled), floor, floor + Megahertz) ELSE {}
<1>4. IsFiniteSet(exact) /\ IsFiniteSet(near)
  BY <1>1, FS_EmptySet
<1>. HIDE DEF exact, near
<1>5. CASE p.dtv = "NONE"
  BY <1>5 DEF createDtvParas
<1>6. CASE p.dtv = "ALLBAND"
  BY <1>2, <1>6, AscendingIsList DEF createDtvParas
<1>7. CASE p.dtv = "AUTO"
  BY <1>7 DEF createDtvParas
<1>8. CASE p.dtv = "MANUAL"
  <2>1. createDtvParas(p, filled) = IF exact # {} THEN Ascending(exact)
                                    ELSE IF Cardinality(near) = 1 THEN <<p.d1>> ELSE Ascending(near)
    BY <1>8 DEF createDtvParas, exact, near
  <2>2. Len(<<p.d1>>) \in Nat
    OBVIOUS
  <2>. QED
    BY <2>1, <2>2, <1>4, AscendingIsList
<1>. QED
  BY <1>3, <1>5, <1>6, <1>7, <1>8

\* The channels of one kind.
LEMMA ChannelsSound ==
    ASSUME NEW p \in Requests, NEW kind \in Kinds, NEW freqs, Len(freqs) \in Nat,
           kind = "analog" /\ ~ByList(p) => \A i \in 1..Len(freqs) :
              /\ freqs[i] \in Nat
              /\ IF p.a1 <= p.a2 THEN freqs[i] \in p.a1..p.a2 ELSE freqs[i] \in p.a2..p.a1
    PROVE  Channelled(Channels(kind, freqs), p)
<1>. DEFINE n == Len(freqs)
            c(i) == [kind |-> kind, freq |-> freqs[i], index |-> i - 1, total |-> n]
            S == {c(i) : i \in 1..n}
<1>1. Channels(kind, freqs) = [i \in 1..n |-> c(i)] /\ n \in Nat
  BY DEF Channels
<1>. HIDE DEF n, c
<1>2. Channels(kind, freqs) \in Seq(S)
  BY <1>1
<1>3. ASSUME NEW i \in 1..n
      PROVE  Sound(c(i), p)
  BY <1>1 DEF Sound, n, c
<1>. QED
  BY <1>2, <1>3 DEF Channelled

\* The channels of a scan.
LEMMA SearchedSound ==
    ASSUME NEW p \in Requests, NEW filled \in BOOLEAN
    PROVE  Channelled(Searched(p, filled), p)
<1>. DEFINE atv == Channels("analog", createAtvParas(p, filled))
            dtv == Channels("digital", createDtvParas(p, filled))
<1>1. Channelled(atv, p)
  BY AtvIsList, ChannelsSound DEF Kinds
<1>2. Channelled(dtv, p)
  BY DtvIsList, ChannelsSound DEF Kinds
<1>. HIDE DEF atv, dtv
<1>3. PICK A : atv \in Seq(A) /\ \A c \in A : Sound(c, p)
  BY <1>1 DEF Channelled
<1>4. PICK D : dtv \in Seq(D) /\ \A c \in D : Sound(c, p)
  BY <1>2 DEF Channelled
<1>5. atv \o dtv \in Seq(A \cup D) /\ dtv \o atv \in Seq(A \cup D)
  BY <1>3, <1>4
<1>6. Channelled(atv \o dtv, p) /\ Channelled(dtv \o atv, p)
  BY <1>3, <1>4, <1>5 DEF Channelled
<1>. QED
  BY <1>6 DEF Searched, atv, dtv

\* What is left after a channel.
LEMMA HeadAndTail ==
    ASSUME NEW s, NEW p, Channelled(s, p), s # <<>>
    PROVE  Sound(Head(s), p) /\ Channelled(Tail(s), p)
BY DEF Channelled

-----------------------------------------------------------------------------
(* Progress. *)

\* part of whole, counted in shares, is at most all of them.
LEMMA ShareFits ==
    ASSUME NEW a \in Nat, NEW b \in Nat, NEW f \in Nat, a <= b, b > 0
    PROVE  (a * f) \div b \in 0..f
<1>. DEFINE q == (a * f) \div b
<1>1. a * f \in Nat /\ a * f <= b * f
  OBVIOUS
<1>2. q \in Int /\ b * q <= a * f /\ a * f < b * q + b
  BY <1>1
<1>3. q >= 0
  OBVIOUS
<1>4. q <= f
  OBVIOUS
<1>. QED
  BY <1>2, <1>3, <1>4

\* The percentage of a channel of a table.
LEMMA TsPercentFits ==
    ASSUME NEW p \in Requests, NEW c, Sound(c, p)
    PROVE  TsPercent(p, c) \in 0..100
<1>1. Factor(p) \in {50, 100}
  BY DEF Factor
<1>2. (c.index * Factor(p)) \div c.total \in 0..Factor(p)
  BY <1>1, ShareFits DEF Sound
<1>. QED
  BY <1>1, <1>2 DEF TsPercent, Least

\* The percentage of a channel between the limits.
LEMMA AtvPercentFits ==
    ASSUME NEW p \in Requests, NEW c, Sound(c, p), Steps(p, c)
    PROVE  AtvPercent(p, c) \in 0..100
<1>. DEFINE gone  == IF p.a1 <= p.a2 THEN c.freq - p.a1 ELSE p.a1 - c.freq
            whole == IF p.a1 <= p.a2 THEN p.a2 - p.a1 ELSE p.a1 - p.a2
<1>1. p.a1 \in Nat /\ p.a2 \in Nat
  BY ScannerAssumption DEF Scans
<1>2. gone \in Nat /\ whole \in Nat /\ gone <= whole
  BY <1>1 DEF Sound, Steps
<1>. HIDE DEF gone, whole
<1>3. gone \div Megahertz \in Nat /\ whole \div Megahertz \in Nat /\ gone \div Megahertz <= whole \div Megahertz
  BY <1>2 DEF Megahertz
<1>4. Factor(p) \in {50, 100}
  BY DEF Factor
<1>5. Share((gone \div Megahertz) * Factor(p), whole \div Megahertz) \in 0..Factor(p)
  <2>1. CASE whole \div Megahertz = 0
    BY <2>1, <1>4 DEF Share
  <2>2. CASE whole \div Megahertz > 0
    BY <2>2, <1>3, <1>4, ShareFits DEF Share
  <2>. QED
    BY <2>1, <2>2, <1>3
<1>6. AtvPercent(p, c) = Share((gone \div Megahertz) * Factor(p), whole \div Megahertz)
                           + (IF Factor(p) = 50 THEN 50 ELSE 0)
  BY DEF AtvPercent, gone, whole
<1>. QED
  BY <1>4, <1>5, <1>6

-----------------------------------------------------------------------------
(* What the steps do to the records. *)

Events == [percent : 0..100, total : Nat, base : Kinds \cup {None}]

Types == {"none", "begin", "channel", "signal", "tables", "end", "exit"}

Tales == [type : Types, percent : 0..100, kind : Kinds \cup {None}, locked : BOOLEAN, new : BOOLEAN]

\* While libdvb has channels left the first of them is one of the request's.
LEMMA ChannelIsSound ==
    ASSUME IInv
    PROVE  /\ Kind \in Kinds \cup {None}
           /\ lib.todo # <<>> => /\ Sound(Channel, scan.paras) /\ scan.paras \in Requests
                                 /\ Kind = Channel.kind /\ Channelled(Tail(lib.todo), scan.paras)
<1>1. CASE lib.todo = <<>>
  BY <1>1 DEF Kind
<1>2. CASE lib.todo # <<>>
  <2>1. lib.on /\ scan.paras \in Requests
    BY <1>2 DEF IInv, TypeOK, Queued, Ordered
  <2>2. Sound(Channel, scan.paras) /\ Channelled(Tail(lib.todo), scan.paras)
    BY <1>2, <2>1, HeadAndTail DEF IInv, Queued, Channel
  <2>. QED
    BY <1>2, <2>1, <2>2 DEF Kind, Sound
<1>. QED
  BY <1>1, <1>2

\* What an event leaves: a percentage, and a tale of its kind.
LEMMA SendTypes ==
    ASSUME IInv, NEW type \in Types, NEW e \in Events, NEW locked \in BOOLEAN, NEW new \in BOOLEAN,
           SendLock(type, e, locked, new)
    PROVE  /\ ev' = e /\ ev' \in Events
           /\ told' \in Tales /\ told'.type = type /\ told'.kind = Kind
           /\ told'.locked = locked /\ told'.new = new
BY ChannelIsSound DEF SendLock, Events, Tales

\* libdvb goes one step on in the same channel.
LEMMA LibMoves ==
    ASSUME IInv, NEW at, lib' = [lib EXCEPT !.at = at]
    PROVE  /\ lib' = [on |-> lib.on, quit |-> lib.quit, at |-> at, todo |-> lib.todo]
           /\ lib'.on = lib.on /\ lib'.quit = lib.quit /\ lib'.at = at /\ lib'.todo = lib.todo
           /\ Kind' = Kind
BY DEF IInv, Queued, Kind, Channel

\* A client asks for a scan, or for none: scan and lib stay as they are.
LEMMA CallKeeps ==
    ASSUME IInv, NEW p \in Requests \cup {None}, Call(p)
    PROVE  IInv'
<1>1. TypeOK'
  BY DEF IInv, TypeOK, Call
<1>2. Ordered'
  BY DEF IInv, Ordered, Call
<1>3. Queued'
  BY DEF IInv, Queued, LibSteps, Working, Call
<1>4. KindKept'
  BY DEF IInv, KindKept, Working, Kind, Channel, Call
<1>5. BaseKept'
  BY DEF IInv, BaseKept, Kind, Channel, Call
<1>6. LockToldRight'
  BY DEF IInv, LockToldRight, Kind, Channel, Call
<1>. QED
  BY <1>1, <1>2, <1>3, <1>4, <1>5, <1>6 DEF IInv

\* stopScan first gives the VBI capture up, while libdvb may still receive.
LEMMA stopVBIKeeps ==
    ASSUME IInv, stopVBI
    PROVE  IInv'
<1>1. TypeOK'
  <2>1. (scan.vbi /\ ~needVbiAssist(scan.paras)) \in BOOLEAN
    OBVIOUS
  <2>2. scan' \in [started : BOOLEAN, paras : Requests \cup {None},
                        fe : Kinds \cup {None}, vbi : BOOLEAN]
    <3>. DEFINE vbi == scan.vbi /\ ~needVbiAssist(scan.paras)
    <3>1. scan' = [scan EXCEPT !.vbi = vbi] /\ vbi \in BOOLEAN
      BY <2>1 DEF stopVBI
    <3>. HIDE DEF vbi
    <3>. QED
      BY <3>1 DEF IInv, TypeOK
  <2>3. lib'.on \in BOOLEAN /\ lib'.quit \in BOOLEAN
    BY DEF stopVBI, IInv, TypeOK, Queued
  <2>4. client' \in [at : {"idle", "stopping", "destroying", "starting"}, wants : Requests \cup {None}]
    BY DEF stopVBI, IInv, TypeOK
  <2>5. UNCHANGED <<ev, dev, db, told>>
    BY DEF stopVBI
  <2>. QED
    BY <2>2, <2>3, <2>4, <2>5 DEF IInv, TypeOK
<1>2. Ordered'
  BY DEF IInv, Ordered, stopVBI
<1>3. Queued'
  BY ScannerAssumption DEF IInv, Queued, LibSteps, Working, stopVBI, TypeOK
<1>4. KindKept'
  BY ScannerAssumption DEF IInv, KindKept, Working, Kind, Channel, stopVBI, TypeOK
<1>5. BaseKept'
  BY DEF IInv, BaseKept, Kind, Channel, stopVBI
<1>6. LockToldRight'
  BY DEF IInv, LockToldRight, Kind, Channel, stopVBI
<1>. QED
  BY <1>1, <1>2, <1>3, <1>4, <1>5, <1>6 DEF IInv

\* AM_SCAN_Destroy has returned: no kind of frontend is remembered.
LEMMA stopScanKeeps ==
    ASSUME IInv, stopScan
    PROVE  IInv'
<1>1. TypeOK'
  <2>1. client' \in [at : {"idle", "stopping", "destroying", "starting"}, wants : Requests \cup {None}]
    BY DEF stopScan, IInv, TypeOK
  <2>2. scan' \in [started : BOOLEAN, paras : Requests \cup {None},
                        fe : Kinds \cup {None}, vbi : BOOLEAN]
    BY DEF stopScan, IInv, TypeOK
  <2>3. UNCHANGED <<ev, lib, dev, db, told>>
    BY DEF stopScan
  <2>. QED
    BY <2>1, <2>2, <2>3 DEF IInv, TypeOK
<1>2. Ordered'
  BY DEF IInv, Ordered, stopScan
<1>3. Queued'
  BY DEF IInv, Queued, LibSteps, Working, stopScan
<1>4. KindKept'
  BY DEF IInv, KindKept, Working, Kind, Channel, stopScan
<1>5. BaseKept'
  BY DEF IInv, BaseKept, Kind, Channel, stopScan
<1>6. LockToldRight'
  BY DEF IInv, LockToldRight, Kind, Channel, stopScan
<1>. QED
  BY <1>1, <1>2, <1>3, <1>4, <1>5, <1>6 DEF IInv

\* A new scan: a list of sound channels, and no kind until the first is tuned.
LEMMA ScanKeeps ==
    ASSUME IInv, NEW created \in BOOLEAN, Scan(created)
    PROVE  IInv'
<1>. DEFINE p == client.wants
            filled == db \/ AtvImports(p, db)
            todo == Searched(p, filled)
            bad  == AtvRefused(p) /\ p.atv # "NONE"
            none == p.dtv # "NONE" /\ createDtvParas(p, filled) = <<>>
            ok   == ~bad /\ ~none /\ created
<1>a. /\ client.at = "starting" /\ client' = [at |-> "idle", wants |-> None]
      /\ scan' = [scan EXCEPT !.paras = p, !.fe = None, !.started = ok]
      /\ lib' = IF ok THEN [on |-> TRUE, quit |-> FALSE, at |-> "begin", todo |-> todo] ELSE Idle
      /\ db' = IF bad THEN db ELSE filled
      /\ ev' = Reset(ev) /\ UNCHANGED <<dev, told>>
  BY DEF Scan
<1>b. p \in Requests /\ filled \in BOOLEAN /\ ok \in BOOLEAN /\ bad \in BOOLEAN
  BY <1>a DEF IInv, TypeOK, Ordered
<1>c. Channelled(todo, p)
  BY <1>b, SearchedSound
<1>. HIDE DEF filled, todo, bad, none, ok
<1>d. /\ scan' = [started |-> ok, paras |-> p, fe |-> None, vbi |-> scan.vbi]
      /\ lib'.on = ok /\ lib'.quit = FALSE
  BY <1>a, <1>b DEF IInv, TypeOK, Idle
<1>1. TypeOK'
  <2>1. client' \in [at : {"idle", "stopping", "destroying", "starting"}, wants : Requests \cup {None}]
    BY <1>a
  <2>2. scan' \in [started : BOOLEAN, paras : Requests \cup {None},
                        fe : Kinds \cup {None}, vbi : BOOLEAN]
    BY <1>b, <1>d DEF IInv, TypeOK
  <2>3. ev' \in [percent : 0..100, total : Nat, base : Kinds \cup {None}]
    BY <1>a DEF IInv, TypeOK, Reset
  <2>4. lib'.on \in BOOLEAN /\ lib'.quit \in BOOLEAN
    BY <1>b, <1>d
  <2>5. db' \in BOOLEAN
    BY <1>a, <1>b DEF IInv, TypeOK
  <2>. QED
    BY <1>a, <2>1, <2>2, <2>3, <2>4, <2>5 DEF IInv, TypeOK
<1>2. Ordered'
  BY <1>a, <1>b, <1>d, ScannerAssumption DEF Ordered
<1>3. Queued'
  BY <1>a, <1>b, <1>c, <1>d DEF Queued, LibSteps, Working, Idle
<1>4. KindKept'
  BY <1>a, <1>b, <1>d, ScannerAssumption DEF KindKept, Working, Idle, Kinds
<1>5. BaseKept'
  BY <1>a, <1>b DEF BaseKept, Idle
<1>6. LockToldRight'
  BY <1>a DEF IInv, LockToldRight
<1>. QED
  BY <1>1, <1>2, <1>3, <1>4, <1>5, <1>6 DEF IInv

\* Only while no scan is started: libdvb is off, so no channel depends on them.
LEMMA OthersKeeps ==
    ASSUME IInv, Others
    PROVE  IInv'
<1>1. TypeOK'
  BY DEF IInv, TypeOK, Others
<1>2. Ordered'
  BY DEF IInv, Ordered, Others
<1>3. Queued'
  BY DEF IInv, Queued, LibSteps, Working, Others
<1>4. KindKept'
  BY ScannerAssumption DEF IInv, KindKept, Working, Kind, Channel, Others, TypeOK, Ordered,
      Queued, LibSteps, BaseKept, LockToldRight, Kinds
<1>5. BaseKept'
  BY DEF IInv, BaseKept, Kind, Channel, Others
<1>6. LockToldRight'
  BY DEF IInv, LockToldRight, Kind, Channel, Others
<1>. QED
  BY <1>1, <1>2, <1>3, <1>4, <1>5, <1>6 DEF IInv

\* The percentage starts again.
LEMMA ScanBeginKeeps ==
    ASSUME IInv, ScanBegin
    PROVE  IInv'
<1>1. TypeOK'
  <2>1. ([ev EXCEPT !.percent = 0]) \in Events
    BY DEF IInv, TypeOK, Events
  <2>2. ev' \in Events /\ told' \in Tales
    BY <2>1, SendTypes DEF ScanBegin, Send, Types
  <2>3. PICK at \in LibSteps : lib' = [lib EXCEPT !.at = at]
    BY DEF ScanBegin, LibSteps, Working
  <2>4. lib'.on = lib.on /\ lib'.quit = lib.quit
    BY <2>3, LibMoves
  <2>5. UNCHANGED <<client, scan, dev, db>>
    BY DEF ScanBegin
  <2>. QED
    BY <2>2, <2>4, <2>5 DEF IInv, TypeOK, Events, Tales, Types
<1>2. Ordered'
  BY DEF IInv, Ordered, ScanBegin, At, Send, SendLock
<1>3. Queued'
  BY DEF IInv, Queued, LibSteps, Working, ScanBegin, At, Send, SendLock
<1>4. KindKept'
  BY DEF IInv, KindKept, Working, Kind, Channel, ScanBegin, At, Send, SendLock
<1>5. BaseKept'
  BY DEF IInv, BaseKept, Kind, Channel, ScanBegin, At, Send, SendLock
<1>6. LockToldRight'
  BY DEF IInv, LockToldRight, Kind, Channel, ScanBegin, At, Send, SendLock
<1>. QED
  BY <1>1, <1>2, <1>3, <1>4, <1>5, <1>6 DEF IInv

\* The devices are moved when the kind changes, and already are of the kind when not.
LEMMA FETypeHelperCBKeeps ==
    ASSUME IInv, FETypeHelperCB
    PROVE  IInv'
<1>1. TypeOK'
  <2>1. Channel.kind \in Kinds
    BY ChannelIsSound DEF FETypeHelperCB, Sound
  <2>2. PICK at \in LibSteps : lib' = [lib EXCEPT !.at = at]
    BY DEF FETypeHelperCB, LibSteps, Working
  <2>3. lib'.on = lib.on /\ lib'.quit = lib.quit
    BY <2>2, LibMoves
  <2>4. \/ scan' = scan /\ dev' = dev
        \/ scan' = [scan EXCEPT !.fe = Channel.kind] /\ dev' = Tuner(Channel.kind)
    BY DEF FETypeHelperCB
  <2>5. Tuner(Channel.kind) \in [fe : Kinds \cup {None}, port : BOOLEAN, decoder : BOOLEAN]
    BY <2>1 DEF Tuner
  <2>6. UNCHANGED <<client, ev, db, told>>
    BY DEF FETypeHelperCB
  <2>. QED
    BY <2>1, <2>3, <2>4, <2>5, <2>6 DEF IInv, TypeOK
<1>2. Ordered'
  BY ScannerAssumption DEF IInv, Ordered, FETypeHelperCB, At, Channel, Tuner, TypeOK
<1>3. Queued'
  BY ScannerAssumption DEF IInv, Queued, LibSteps, Working, FETypeHelperCB, At, Channel, Tuner,
      TypeOK
<1>4. KindKept'
  BY ScannerAssumption DEF IInv, KindKept, Working, Kind, Channel, FETypeHelperCB, At, Tuner,
      TypeOK, Queued, LibSteps, Kinds
<1>5. BaseKept'
  BY ScannerAssumption DEF IInv, BaseKept, Kind, Channel, FETypeHelperCB, At, Tuner, TypeOK,
      Queued, LibSteps, Working, Kinds
<1>6. LockToldRight'
  BY DEF IInv, LockToldRight, Kind, Channel, FETypeHelperCB, At, Tuner
<1>. QED
  BY <1>1, <1>2, <1>3, <1>4, <1>5, <1>6 DEF IInv

\* For a digital channel the capture is ended, and so KindKept holds from there on.
LEMMA resetVBIKeeps ==
    ASSUME IInv, NEW starts \in BOOLEAN, resetVBI(starts)
    PROVE  IInv'
<1>1. TypeOK'
  <2>1. lib'.on = lib.on /\ lib'.quit = lib.quit
    BY LibMoves DEF resetVBI
  <2>2. VbiFor(Channel.kind, starts) \in BOOLEAN
    BY DEF VbiFor
  <2>. QED
    BY <2>1, <2>2 DEF IInv, TypeOK, resetVBI
<1>2. Ordered'
  BY DEF IInv, Ordered, resetVBI, At, Channel, VbiFor
<1>3. Queued'
  BY DEF IInv, Queued, LibSteps, Working, resetVBI, At, Channel, VbiFor
<1>4. KindKept'
  BY ScannerAssumption DEF IInv, KindKept, Working, Kind, Channel, resetVBI, At, VbiFor,
      TypeOK, Queued, LibSteps, Kinds
<1>5. BaseKept'
  BY DEF IInv, BaseKept, Kind, Channel, resetVBI, At, VbiFor
<1>6. LockToldRight'
  BY DEF IInv, LockToldRight, Kind, Channel, resetVBI, At, VbiFor
<1>. QED
  BY <1>1, <1>2, <1>3, <1>4, <1>5, <1>6 DEF IInv

\* The percentages fit, and the event takes the kind of the channel.
LEMMA ChannelBeginKeeps ==
    ASSUME IInv, ChannelBegin
    PROVE  IInv'
<1>a. /\ lib.on /\ lib.at = "channel" /\ lib.todo # <<>>
      /\ Sound(Channel, scan.paras) /\ scan.paras \in Requests /\ Kind = Channel.kind
  BY ChannelIsSound DEF ChannelBegin, At, IInv, Queued, Working
<1>. DEFINE e == IF Steps(scan.paras, Channel) THEN AtvTuning(scan.paras, Channel, ev)
                 ELSE TsBegin(scan.paras, Channel, ev)
<1>b. e \in Events /\ e.base = Kind
  <2>0. ev \in Events /\ Channel.kind \in Kinds /\ Channel.total \in Nat
    BY <1>a DEF IInv, TypeOK, Events, Sound
  <2>1. CASE Steps(scan.paras, Channel)
    <3>1. AtvPercent(scan.paras, Channel) \in 0..100
      BY <1>a, <2>1, AtvPercentFits
    <3>2. Channel.kind = "analog"
      BY <2>1 DEF Steps
    <3>. QED
      BY <1>a, <2>0, <2>1, <3>1, <3>2 DEF AtvTuning, Events
  <2>2. CASE ~Steps(scan.paras, Channel)
    <3>1. TsPercent(scan.paras, Channel) \in 0..100
      BY <1>a, TsPercentFits
    <3>. QED
      BY <1>a, <2>0, <2>2, <3>1 DEF TsBegin, Events
  <2>. QED
    BY <2>1, <2>2
<1>c. ev' = e /\ ev' \in Events /\ told' \in Tales /\ told'.type = "channel"
  <2>1. SendLock("channel", e, FALSE, FALSE)
    BY DEF ChannelBegin, Send
  <2>. HIDE DEF e
  <2>. QED
    BY <1>b, <2>1, SendTypes DEF Types
<1>. HIDE DEF e
<1>d. lib'.on = lib.on /\ lib'.quit = lib.quit /\ lib'.at = "signal" /\ lib'.todo = lib.todo /\ Kind' = Kind
  BY LibMoves DEF ChannelBegin
<1>1. TypeOK'
  BY <1>c, <1>d DEF IInv, TypeOK, ChannelBegin, Events, Tales, Types
<1>2. Ordered'
  BY DEF IInv, Ordered, ChannelBegin, At, Send, Channel, TsBegin, AtvTuning, SendLock
<1>3. Queued'
  BY DEF IInv, Queued, LibSteps, Working, ChannelBegin, At, Send, Channel, TsBegin, AtvTuning,
      SendLock
<1>4. KindKept'
  BY DEF IInv, KindKept, Working, Kind, Channel, ChannelBegin, At, Send, TsBegin, AtvTuning,
      SendLock
<1>5. BaseKept'
  BY <1>b, <1>c, <1>d DEF BaseKept
<1>6. LockToldRight'
  BY DEF IInv, LockToldRight, Kind, Channel, ChannelBegin, At, Send, TsBegin, AtvTuning,
      SendLock
<1>. QED
  BY <1>1, <1>2, <1>3, <1>4, <1>5, <1>6 DEF IInv

\* The kind of the event is still that of the channel.
LEMMA SignalKeeps ==
    ASSUME IInv, NEW locked \in BOOLEAN, Signal(locked)
    PROVE  IInv'
<1>1. TypeOK'
  <2>1. (ev) \in Events
    BY DEF IInv, TypeOK, Events
  <2>2. ev' \in Events /\ told' \in Tales
    <3>1. (locked /\ ev.base = "analog") \in BOOLEAN
      OBVIOUS
    <3>. QED
      BY <2>1, <3>1, SendTypes DEF Signal, Types
  <2>3. PICK at \in LibSteps : lib' = [lib EXCEPT !.at = at]
    BY DEF Signal, LibSteps, Working
  <2>4. lib'.on = lib.on /\ lib'.quit = lib.quit
    BY <2>3, LibMoves
  <2>5. UNCHANGED <<client, scan, dev, db>>
    BY DEF Signal
  <2>. QED
    BY <2>2, <2>4, <2>5 DEF IInv, TypeOK, Events, Tales, Types
<1>2. Ordered'
  BY DEF IInv, Ordered, Signal, At, SendLock, Kind
<1>3. Queued'
  BY DEF IInv, Queued, LibSteps, Working, Signal, At, SendLock, Kind
<1>4. KindKept'
  BY DEF IInv, KindKept, Working, Kind, Channel, Signal, At, SendLock
<1>5. BaseKept'
  BY DEF IInv, BaseKept, Kind, Channel, Signal, At, SendLock
<1>6. LockToldRight'
  BY ScannerAssumption DEF IInv, LockToldRight, Kind, Channel, Signal, At, SendLock, TypeOK,
      Ordered, Queued, LibSteps, Working, KindKept, BaseKept, Kinds
<1>. QED
  BY <1>1, <1>2, <1>3, <1>4, <1>5, <1>6 DEF IInv

\* The progress moves by ten and stays a percentage.
LEMMA MgtDoneKeeps ==
    ASSUME IInv, MgtDone
    PROVE  IInv'
<1>1. TypeOK'
  <2>1. (Tables(ev, 10)) \in Events
    BY DEF IInv, TypeOK, Events, Tables, Least
  <2>2. ev' \in Events /\ told' \in Tales
    BY <2>1, SendTypes DEF MgtDone, Send, Types
  <2>3. PICK at \in LibSteps : lib' = [lib EXCEPT !.at = at]
    BY DEF MgtDone, LibSteps, Working
  <2>4. lib'.on = lib.on /\ lib'.quit = lib.quit
    BY <2>3, LibMoves
  <2>5. UNCHANGED <<client, scan, dev, db>>
    BY DEF MgtDone
  <2>. QED
    BY <2>2, <2>4, <2>5 DEF IInv, TypeOK, Events, Tales, Types
<1>2. Ordered'
  BY DEF IInv, Ordered, MgtDone, At, Send, Tables, SendLock
<1>3. Queued'
  BY DEF IInv, Queued, LibSteps, Working, MgtDone, At, Send, Tables, SendLock
<1>4. KindKept'
  BY DEF IInv, KindKept, Working, Kind, Channel, MgtDone, At, Send, Tables, SendLock
<1>5. BaseKept'
  BY DEF IInv, BaseKept, Kind, Channel, MgtDone, At, Send, Tables, SendLock
<1>6. LockToldRight'
  BY DEF IInv, LockToldRight, Kind, Channel, MgtDone, At, Send, Tables, SendLock
<1>. QED
  BY <1>1, <1>2, <1>3, <1>4, <1>5, <1>6 DEF IInv

\* The progress moves by thirty and stays a percentage.
LEMMA VctDoneKeeps ==
    ASSUME IInv, VctDone
    PROVE  IInv'
<1>1. TypeOK'
  <2>1. (Tables(ev, 30)) \in Events
    BY DEF IInv, TypeOK, Events, Tables, Least
  <2>2. ev' \in Events /\ told' \in Tales
    BY <2>1, SendTypes DEF VctDone, Send, Types
  <2>3. PICK at \in LibSteps : lib' = [lib EXCEPT !.at = at]
    BY DEF VctDone, LibSteps, Working
  <2>4. lib'.on = lib.on /\ lib'.quit = lib.quit
    BY <2>3, LibMoves
  <2>5. UNCHANGED <<client, scan, dev, db>>
    BY DEF VctDone
  <2>. QED
    BY <2>2, <2>4, <2>5 DEF IInv, TypeOK, Events, Tales, Types
<1>2. Ordered'
  BY DEF IInv, Ordered, VctDone, At, Send, Tables, SendLock
<1>3. Queued'
  BY DEF IInv, Queued, LibSteps, Working, VctDone, At, Send, Tables, SendLock
<1>4. KindKept'
  BY DEF IInv, KindKept, Working, Kind, Channel, VctDone, At, Send, Tables, SendLock
<1>5. BaseKept'
  BY DEF IInv, BaseKept, Kind, Channel, VctDone, At, Send, Tables, SendLock
<1>6. LockToldRight'
  BY DEF IInv, LockToldRight, Kind, Channel, VctDone, At, Send, Tables, SendLock
<1>. QED
  BY <1>1, <1>2, <1>3, <1>4, <1>5, <1>6 DEF IInv

\* The event may take another kind, but no signal follows before ChannelBegin.
LEMMA NewProgramMoreKeeps ==
    ASSUME IInv, NewProgramMore
    PROVE  IInv'
<1>1. TypeOK'
  <2>1. lib'.on = lib.on /\ lib'.quit = lib.quit
    BY LibMoves DEF NewProgramMore
  <2>2. ev' \in Events
    BY DEF NewProgramMore, IInv, TypeOK, Events
  <2>3. UNCHANGED <<client, scan, dev, db, told>>
    BY DEF NewProgramMore
  <2>. QED
    BY <2>1, <2>2, <2>3 DEF IInv, TypeOK, Events, Tales, Types
<1>2. Ordered'
  BY DEF IInv, Ordered, NewProgramMore, At, Kind
<1>3. Queued'
  BY DEF IInv, Queued, LibSteps, Working, NewProgramMore, At, Kind
<1>4. KindKept'
  BY DEF IInv, KindKept, Working, Kind, Channel, NewProgramMore, At
<1>5. BaseKept'
  BY DEF IInv, BaseKept, Kind, Channel, NewProgramMore, At
<1>6. LockToldRight'
  BY DEF IInv, LockToldRight, Kind, Channel, NewProgramMore, At
<1>. QED
  BY <1>1, <1>2, <1>3, <1>4, <1>5, <1>6 DEF IInv

\* The channels that are left are sound as they were.
LEMMA NextChannelKeeps ==
    ASSUME IInv, NextChannel
    PROVE  IInv'
<1>a. lib.on /\ lib.todo # <<>> /\ Channelled(Tail(lib.todo), scan.paras)
  BY ChannelIsSound DEF NextChannel, At, IInv, Queued
<1>b. /\ lib' = [on |-> lib.on, quit |-> lib.quit, at |-> "tune", todo |-> Tail(lib.todo)]
      /\ UNCHANGED <<client, scan, ev, dev, db, told>>
  BY DEF NextChannel, IInv, Queued
<1>1. TypeOK'
  BY <1>b DEF IInv, TypeOK
<1>2. Ordered'
  BY DEF IInv, Ordered, NextChannel, At
<1>3. Queued'
  BY <1>a, <1>b DEF Queued, LibSteps, Working
<1>4. KindKept'
  BY DEF IInv, KindKept, Working, Kind, Channel, NextChannel, At
<1>5. BaseKept'
  BY DEF IInv, BaseKept, Kind, Channel, NextChannel, At
<1>6. LockToldRight'
  BY DEF IInv, LockToldRight, Kind, Channel, NextChannel, At
<1>. QED
  BY <1>1, <1>2, <1>3, <1>4, <1>5, <1>6 DEF IInv

\* libdvb leaves its last channel and has only to exit.
LEMMA ScanEndKeeps ==
    ASSUME IInv, ScanEnd
    PROVE  IInv'
<1>1. TypeOK'
  <2>1. ([ev EXCEPT !.percent = 100]) \in Events
    BY DEF IInv, TypeOK, Events
  <2>2. ev' \in Events /\ told' \in Tales
    BY <2>1, SendTypes DEF ScanEnd, Send, Types
  <2>3. PICK at \in LibSteps : lib' = [lib EXCEPT !.at = at]
    BY DEF ScanEnd, LibSteps, Working
  <2>4. lib'.on = lib.on /\ lib'.quit = lib.quit
    BY <2>3, LibMoves
  <2>5. UNCHANGED <<client, scan, dev, db>>
    BY DEF ScanEnd
  <2>. QED
    BY <2>2, <2>4, <2>5 DEF IInv, TypeOK, Events, Tales, Types
<1>2. Ordered'
  BY DEF IInv, Ordered, ScanEnd, At, Send, SendLock
<1>3. Queued'
  BY DEF IInv, Queued, LibSteps, Working, ScanEnd, At, Send, SendLock
<1>4. KindKept'
  BY DEF IInv, KindKept, Working, Kind, Channel, ScanEnd, At, Send, SendLock
<1>5. BaseKept'
  BY DEF IInv, BaseKept, Kind, Channel, ScanEnd, At, Send, SendLock
<1>6. LockToldRight'
  BY DEF IInv, LockToldRight, Kind, Channel, ScanEnd, At, Send, SendLock
<1>. QED
  BY <1>1, <1>2, <1>3, <1>4, <1>5, <1>6 DEF IInv

\* libdvb's thread ends, and nothing is left of its list.
LEMMA ScanExitKeeps ==
    ASSUME IInv, ScanExit
    PROVE  IInv'
<1>1. TypeOK'
  <2>1. ev \in Events
    BY DEF IInv, TypeOK, Events
  <2>2. ev' \in Events /\ told' \in Tales
    BY <2>1, SendTypes DEF ScanExit, Send, Types
  <2>3. lib'.on \in BOOLEAN /\ lib'.quit \in BOOLEAN
    BY DEF ScanExit, Idle
  <2>4. UNCHANGED <<client, scan, dev, db>>
    BY DEF ScanExit
  <2>. QED
    BY <2>2, <2>3, <2>4 DEF IInv, TypeOK, Events, Tales, Types
<1>2. Ordered'
  BY DEF IInv, Ordered, ScanExit, At, Send, Idle, SendLock
<1>3. Queued'
  BY DEF IInv, Queued, LibSteps, Working, ScanExit, At, Send, Idle, SendLock
<1>4. KindKept'
  BY DEF IInv, KindKept, Working, Kind, Channel, ScanExit, At, Send, Idle, SendLock
<1>5. BaseKept'
  BY DEF IInv, BaseKept, Kind, Channel, ScanExit, At, Send, Idle, SendLock
<1>6. LockToldRight'
  BY DEF IInv, LockToldRight, Kind, Channel, ScanExit, At, Send, Idle, SendLock
<1>. QED
  BY <1>1, <1>2, <1>3, <1>4, <1>5, <1>6 DEF IInv

\* The first state.
LEMMA InitKept == Init => IInv
<1>. SUFFICES ASSUME Init  PROVE IInv
  OBVIOUS
<1>1. TypeOK
  BY DEF Init, TypeOK, Idle
<1>2. Ordered /\ KindKept /\ BaseKept /\ LockToldRight
  BY DEF Init, Ordered, KindKept, BaseKept, LockToldRight, Idle
<1>3. Queued
  BY DEF Init, Queued, LibSteps, Working, Idle
<1>. QED
  BY <1>1, <1>2, <1>3 DEF IInv

\* Every step keeps the invariant.
LEMMA StepKeeps == IInv /\ [Next]_vars => IInv'
<1>. SUFFICES ASSUME IInv, [Next]_vars  PROVE IInv'
  OBVIOUS
<1>1. CASE Next
  BY <1>1, CallKeeps, stopVBIKeeps, stopScanKeeps, ScanKeeps, OthersKeeps, ScanBeginKeeps,
     FETypeHelperCBKeeps, resetVBIKeeps, ChannelBeginKeeps, SignalKeeps, MgtDoneKeeps,
     VctDoneKeeps, NewProgramMoreKeeps, NextChannelKeeps, ScanEndKeeps, ScanExitKeeps DEF Next
<1>2. CASE UNCHANGED vars
  BY <1>2 DEF vars, IInv, TypeOK, Ordered, Queued, KindKept, BaseKept, LockToldRight, Kind, Channel
<1>. QED
  BY <1>1, <1>2

-----------------------------------------------------------------------------
(* The theorems. *)

\* Every variable keeps its type; above all, what evtCallback makes of the
\* parameters and of the place in the list is always a percentage.
THEOREM TypeCorrect == Spec => []TypeOK
<1>1. IInv => TypeOK
  BY DEF IInv
<1>. QED
  BY <1>1, InitKept, StepKeeps, PTL DEF Spec

\* While libdvb receives a channel the devices are set for its kind, whatever
\* clients start and stop and whatever other operations do between two scans.
THEOREM DevicesAreSet == Spec => []DevicesFollow
<1>1. IInv => DevicesFollow
  <2>. SUFFICES ASSUME IInv, Receiving  PROVE DevicesFollow
    BY DEF DevicesFollow
  <2>1. lib.on /\ lib.todo # <<>> /\ scan.fe = Kind /\ lib.at # "vbi"
    BY DEF Receiving, IInv, Queued, KindKept, Working
  <2>2. Kind \in Kinds /\ Kind # None
    BY <2>1, ChannelIsSound, ScannerAssumption DEF Sound
  <2>3. dev = Tuner(Kind)
    BY <2>1, <2>2 DEF IInv, KindKept
  <2>4. Kind = "digital" /\ needVbiAssist(scan.paras) => ~scan.vbi
    BY <2>1 DEF IInv, KindKept
  <2>. QED
    BY <2>3, <2>4 DEF DevicesFollow, Tuner
<1>. QED
  BY <1>1, InitKept, StepKeeps, PTL DEF Spec

\* A signal is told as a new analog channel exactly when one has been locked,
\* although the kind is read from the event that was sent last.
THEOREM LockIsToldRight == Spec => []LockToldRight
<1>1. IInv => LockToldRight
  BY DEF IInv
<1>. QED
  BY <1>1, InitKept, StepKeeps, PTL DEF Spec

-----------------------------------------------------------------------------
(***************************************************************************)
(* ProgressSteady.  In a list channels of one kind have one total and      *)
(* growing indices, or frequencies that lead from one limit to the other   *)
(* (InOrder), and the percentage grows with both.  Progress relates what   *)
(* was told to the channel at the head of the list.                        *)
(***************************************************************************)

\* d comes after c in a list of channels for p.
Follows(c, d, p) ==
    d.kind = c.kind =>
      /\ d.index = c.index + 1 /\ d.total = c.total
      /\ Steps(p, c) => IF p.a1 <= p.a2 THEN c.freq <= d.freq ELSE d.freq <= c.freq

InOrder(s, p) == \A i \in 1..(Len(s) - 1) : Follows(s[i], s[i + 1], p)

Lists == lib.on => InOrder(lib.todo, scan.paras)

\* From the message about a channel to the next one.
Received == {"signal", "mgt", "vct", "store", "next"}

\* What ChannelBegin tells of a channel.
Percent(p, c) == IF Steps(p, c) THEN AtvPercent(p, c) ELSE TsPercent(p, c)

\* A channel that comes next is told a percentage no lower than the last, and
\* one that is received has its own, unless it is the only one.
Progress ==
    lib.on /\ lib.at # "begin" =>
      /\ told.percent = ev.percent
      /\ lib.at \in {"tune", "vbi", "channel"} /\ lib.todo # <<>>
           /\ told.kind = Kind /\ ev.total = Channel.total => ev.percent <= Percent(scan.paras, Channel)
      /\ lib.at \in Received =>
           /\ told.kind = Kind /\ (Kind = "digital" => ev.percent <= 99)
           /\ ev.total = Channel.total /\ ev.total # 1 => ev.percent = Percent(scan.paras, Channel)
      /\ lib.at \in {"mgt", "vct"} => Kind = "digital"

\* A larger part has a larger share.
LEMMA DivGrows ==
    ASSUME NEW a \in Nat, NEW b \in Nat, NEW w \in Nat, a <= b, w > 0
    PROVE  a \div w <= b \div w
<1>. DEFINE q == a \div w
            r == b \div w
<1>1. q \in Int /\ w * q <= a /\ a < w * q + w
  OBVIOUS
<1>2. r \in Int /\ w * r <= b /\ b < w * r + w
  OBVIOUS
<1>. HIDE DEF q, r
<1>3. ASSUME r < q  PROVE FALSE
  <2>1. w * (r + 1) <= w * q
    BY <1>1, <1>2, <1>3
  <2>2. w * (r + 1) = w * r + w
    BY <1>2
  <2>. QED
    BY <1>1, <1>2, <2>1, <2>2
<1>4. q <= r
  BY <1>1, <1>2, <1>3
<1>. QED
  BY <1>4 DEF q, r

\* So has a larger number of shares, also of nothing.
LEMMA ShareGrows ==
    ASSUME NEW a \in Nat, NEW b \in Nat, NEW w \in Nat, NEW f \in Nat, a <= b
    PROVE  Share(a * f, w) <= Share(b * f, w)
<1>1. a * f \in Nat /\ b * f \in Nat /\ a * f <= b * f
  OBVIOUS
<1>. DEFINE x == a * f
            y == b * f
<1>. HIDE DEF x, y
<1>2. Share(x, w) <= Share(y, w)
  BY <1>1, DivGrows DEF Share, x, y
<1>. QED
  BY <1>2 DEF x, y

\* Of two channels of a kind the later has the higher percentage.
LEMMA PercentGrows ==
    ASSUME NEW p \in Requests, NEW c, NEW d, Sound(c, p), Sound(d, p),
           Follows(c, d, p), d.kind = c.kind
    PROVE  Percent(p, c) <= Percent(p, d)
<1>1. Factor(p) \in {50, 100}
  BY DEF Factor
<1>2. p.a1 \in Nat /\ p.a2 \in Nat
  BY ScannerAssumption DEF Scans
<1>3. CASE Steps(p, c)
  <2>. DEFINE gone(x) == IF p.a1 <= p.a2 THEN x.freq - p.a1 ELSE p.a1 - x.freq
              whole == IF p.a1 <= p.a2 THEN p.a2 - p.a1 ELSE p.a1 - p.a2
              some == IF Factor(p) = 50 THEN 50 ELSE 0
  <2>1. gone(c) \in Nat /\ gone(d) \in Nat /\ whole \in Nat /\ gone(c) <= gone(d)
    BY <1>2, <1>3 DEF Sound, Steps, Follows
  <2>2. Steps(p, d)
    BY <1>3 DEF Steps
  <2>3. \A x : AtvPercent(p, x) = Share((gone(x) \div Megahertz) * Factor(p), whole \div Megahertz) + some
    BY DEF AtvPercent
  <2>. HIDE DEF gone, whole
  <2>4. /\ gone(c) \div Megahertz \in Nat /\ gone(d) \div Megahertz \in Nat
        /\ whole \div Megahertz \in Nat /\ gone(c) \div Megahertz <= gone(d) \div Megahertz
    BY <2>1 DEF Megahertz
  <2>5. Share((gone(c) \div Megahertz) * Factor(p), whole \div Megahertz)
          <= Share((gone(d) \div Megahertz) * Factor(p), whole \div Megahertz)
    BY <1>1, <2>4, ShareGrows
  <2>6. AtvPercent(p, c) <= AtvPercent(p, d)
    <3>1. \A n \in Nat, w \in Nat : Share(n * Factor(p), w) \in Int
      BY <1>1 DEF Share
    <3>. QED
      BY <2>3, <2>4, <2>5, <3>1, <1>1
  <2>. QED
    BY <1>3, <2>2, <2>6 DEF Percent
<1>4. CASE ~Steps(p, c)
  <2>1. ~Steps(p, d)
    BY <1>4 DEF Steps
  <2>2. c.index \in Nat /\ d.index \in Nat /\ c.index <= d.index /\ d.total = c.total /\ c.total \in Nat /\ c.total > 0
    BY DEF Sound, Follows
  <2>3. Share(c.index * Factor(p), c.total) <= Share(d.index * Factor(p), c.total)
    BY <1>1, <2>2, ShareGrows
  <2>4. (c.index * Factor(p)) \div c.total <= (d.index * Factor(p)) \div d.total
    BY <2>2, <2>3 DEF Share
  <2>5. /\ (c.index * Factor(p)) \div c.total \in 0..Factor(p)
        /\ (d.index * Factor(p)) \div d.total \in 0..Factor(p)
    BY <1>1, ShareFits DEF Sound
  <2>6. TsPercent(p, c) <= TsPercent(p, d)
    <3>. DEFINE x == (c.index * Factor(p)) \div c.total
                y == (d.index * Factor(p)) \div d.total
    <3>. HIDE DEF x, y
    <3>1. x \in 0..Factor(p) /\ y \in 0..Factor(p) /\ x <= y
      BY <2>4, <2>5 DEF x, y
    <3>2. Least(x, Factor(p) - 1) <= Least(y, Factor(p) - 1)
      BY <1>1, <3>1 DEF Least
    <3>. QED
      BY <3>2 DEF TsPercent, x, y
  <2>. QED
    BY <1>4, <2>1, <2>6 DEF Percent
<1>. QED
  BY <1>3, <1>4

\* What is told is a percentage, and no digital channel is told the hundred.
LEMMA PercentFits ==
    ASSUME NEW p \in Requests, NEW c, Sound(c, p)
    PROVE  Percent(p, c) \in 0..100 /\ (c.kind = "digital" => Percent(p, c) <= 99)
<1>1. CASE Steps(p, c)
  BY <1>1, AtvPercentFits DEF Percent, Steps
<1>2. CASE ~Steps(p, c)
  <2>1. TsPercent(p, c) \in 0..100
    BY TsPercentFits
  <2>2. Factor(p) \in {50, 100}
    BY DEF Factor
  <2>3. (c.index * Factor(p)) \div c.total \in 0..Factor(p)
    BY <2>2, ShareFits DEF Sound
  <2>4. TsPercent(p, c) <= 99
    BY <2>2, <2>3 DEF TsPercent, Least
  <2>. QED
    BY <1>2, <2>1, <2>4 DEF Percent
<1>. QED
  BY <1>1, <1>2

-----------------------------------------------------------------------------
(* The order of a list. *)

\* libdvb steps from one limit to the other.
LEMMA BetweenInOrder ==
    ASSUME NEW a \in Nat, NEW b \in Nat
    PROVE  \A i \in 1..(Len(Between(a, b)) - 1) :
              IF a <= b THEN Between(a, b)[i] <= Between(a, b)[i + 1]
              ELSE Between(a, b)[i + 1] <= Between(a, b)[i]
<1>1. CASE a <= b
  <2>1. b - a + 1 \in Nat
    BY <1>1
  <2>2. Between(a, b) = [i \in 1..(b - a + 1) |-> a + i - 1]
    BY <1>1 DEF Between
  <2>3. Len(Between(a, b)) = b - a + 1
    BY <2>1, <2>2
  <2>. QED
    BY <1>1, <2>1, <2>2, <2>3
<1>2. CASE ~(a <= b)
  <2>1. a - b + 1 \in Nat
    BY <1>2
  <2>2. Between(a, b) = [i \in 1..(a - b + 1) |-> a - i + 1]
    BY <1>2 DEF Between
  <2>3. Len(Between(a, b)) = a - b + 1
    BY <2>1, <2>2
  <2>. QED
    BY <1>2, <2>1, <2>2, <2>3
<1>. QED
  BY <1>1, <1>2

\* The channels of one kind, when the frequencies lead from limit to limit.
LEMMA ChannelsInOrder ==
    ASSUME NEW p \in Requests, NEW kind \in Kinds, NEW freqs, Len(freqs) \in Nat,
           kind = "analog" /\ ~ByList(p) => \A i \in 1..(Len(freqs) - 1) :
              IF p.a1 <= p.a2 THEN freqs[i] <= freqs[i + 1] ELSE freqs[i + 1] <= freqs[i]
    PROVE  /\ InOrder(Channels(kind, freqs), p)
           /\ \A i \in 1..Len(Channels(kind, freqs)) : Channels(kind, freqs)[i].kind = kind
           /\ \E S : Channels(kind, freqs) \in Seq(S)
<1>. DEFINE n == Len(freqs)
            c(i) == [kind |-> kind, freq |-> freqs[i], index |-> i - 1, total |-> n]
            s == Channels(kind, freqs)
<1>1. s = [i \in 1..n |-> c(i)] /\ n \in Nat
  BY DEF Channels
<1>. HIDE DEF s, n, c
<1>2. Len(s) = n /\ s \in Seq({c(i) : i \in 1..n})
  BY <1>1
<1>3. \A i \in 1..n : s[i] = c(i)
  BY <1>1
<1>4. ASSUME NEW i \in 1..(n - 1)
      PROVE  Follows(s[i], s[i + 1], p)
  <2>1. i \in 1..n /\ i + 1 \in 1..n
    BY <1>1
  <2>2. Follows(c(i), c(i + 1), p)
    BY <1>1, <2>1 DEF Follows, Steps, c, n
  <2>. QED
    BY <1>3, <2>1, <2>2
<1>5. \A i \in 1..n : s[i].kind = kind
  <2>1. \A i : c(i).kind = kind
    BY DEF c
  <2>. QED
    BY <1>3, <2>1
<1>6. InOrder(s, p)
  BY <1>2, <1>4 DEF InOrder
<1>. QED
  BY <1>2, <1>5, <1>6 DEF s

\* One list behind the other, when the kinds differ.
LEMMA BothInOrder ==
    ASSUME NEW p, NEW S, NEW s \in Seq(S), NEW T, NEW t \in Seq(T), InOrder(s, p), InOrder(t, p),
           \A i \in 1..Len(s), k \in 1..Len(t) : s[i].kind # t[k].kind
    PROVE  InOrder(s \o t, p)
<1>1. SUFFICES ASSUME NEW i \in 1..(Len(s \o t) - 1)
               PROVE  Follows((s \o t)[i], (s \o t)[i + 1], p)
  BY DEF InOrder
<1>. DEFINE m == Len(s)
            n == Len(t)
<1>2. m \in Nat /\ n \in Nat /\ Len(s \o t) = m + n
  OBVIOUS
<1>3. \A k \in 1..(m + n) : (s \o t)[k] = IF k <= m THEN s[k] ELSE t[k - m]
  BY <1>2
<1>4. i \in 1..(m + n - 1) /\ i \in 1..(m + n) /\ i + 1 \in 1..(m + n)
  BY <1>2
<1>5. CASE i < m
  <2>1. i \in 1..(m - 1) /\ i + 1 <= m
    BY <1>2, <1>4, <1>5
  <2>. QED
    BY <1>3, <1>4, <1>5, <2>1 DEF InOrder
<1>6. CASE i = m
  <2>1. i \in 1..m /\ 1 \in 1..n
    BY <1>2, <1>4, <1>6
  <2>2. (s \o t)[i] = s[i] /\ (s \o t)[i + 1] = t[1]
    BY <1>2, <1>3, <1>4, <1>6
  <2>. QED
    BY <2>1, <2>2 DEF Follows
<1>7. CASE i > m
  <2>1. i - m \in 1..(n - 1) /\ (i + 1) - m = (i - m) + 1
    BY <1>2, <1>4, <1>7
  <2>2. (s \o t)[i] = t[i - m] /\ (s \o t)[i + 1] = t[(i - m) + 1]
    BY <1>2, <1>3, <1>4, <1>7, <2>1
  <2>. QED
    BY <2>1, <2>2 DEF InOrder
<1>. QED
  BY <1>2, <1>4, <1>5, <1>6, <1>7

\* The channels of a scan.
LEMMA SearchedInOrder ==
    ASSUME NEW p \in Requests, NEW filled \in BOOLEAN
    PROVE  InOrder(Searched(p, filled), p)
<1>. DEFINE atv == Channels("analog", createAtvParas(p, filled))
            dtv == Channels("digital", createDtvParas(p, filled))
<1>1. p.a1 \in Nat /\ p.a2 \in Nat
  BY ScannerAssumption DEF Scans
<1>2. ~ByList(p) => \A i \in 1..(Len(createAtvParas(p, filled)) - 1) :
        IF p.a1 <= p.a2 THEN createAtvParas(p, filled)[i] <= createAtvParas(p, filled)[i + 1]
        ELSE createAtvParas(p, filled)[i + 1] <= createAtvParas(p, filled)[i]
  <2>1. CASE p.atv = "NONE"
    BY <2>1 DEF createAtvParas
  <2>2. CASE p.atv # "NONE"
    BY <1>1, <2>2, BetweenInOrder DEF createAtvParas
  <2>. QED
    BY <2>1, <2>2
<1>3. /\ InOrder(atv, p) /\ (\A i \in 1..Len(atv) : atv[i].kind = "analog")
      /\ \E S : atv \in Seq(S)
  BY <1>2, AtvIsList, ChannelsInOrder DEF Kinds
<1>4. /\ InOrder(dtv, p) /\ (\A i \in 1..Len(dtv) : dtv[i].kind = "digital")
      /\ \E S : dtv \in Seq(S)
  BY DtvIsList, ChannelsInOrder DEF Kinds
<1>. HIDE DEF atv, dtv
<1>5. PICK A : atv \in Seq(A)
  BY <1>3
<1>6. PICK D : dtv \in Seq(D)
  BY <1>4
<1>7. InOrder(atv \o dtv, p)
  BY <1>3, <1>4, <1>5, <1>6, BothInOrder
<1>8. InOrder(dtv \o atv, p)
  BY <1>3, <1>4, <1>5, <1>6, BothInOrder
<1>. QED
  BY <1>7, <1>8 DEF Searched, atv, dtv

\* What is left after a channel, and the channel that comes next.
LEMMA TailInOrder ==
    ASSUME NEW p, NEW S, NEW s \in Seq(S), s # <<>>, InOrder(s, p)
    PROVE  /\ InOrder(Tail(s), p)
           /\ Tail(s) # <<>> => Follows(Head(s), Head(Tail(s)), p)
<1>1. Len(s) \in Nat \ {0} /\ Len(Tail(s)) = Len(s) - 1 /\ \A i \in 1..(Len(s) - 1) : Tail(s)[i] = s[i + 1]
  OBVIOUS
<1>2. InOrder(Tail(s), p)
  BY <1>1 DEF InOrder
<1>3. ASSUME Tail(s) # <<>>  PROVE Follows(Head(s), Head(Tail(s)), p)
  <2>1. Len(Tail(s)) # 0
    BY <1>3
  <2>2. Head(s) = s[1] /\ Head(Tail(s)) = s[2] /\ 1 \in 1..(Len(s) - 1)
    BY <1>1, <2>1
  <2>. QED
    BY <2>2 DEF InOrder
<1>. QED
  BY <1>2, <1>3

-----------------------------------------------------------------------------
(* What was told, and what comes next. *)

\* The first state.
LEMMA ListsInit == Init => Lists /\ Progress
BY DEF Init, Idle, Lists, Progress

\* A scan begins with a list in order, and libdvb goes through it.
LEMMA ListsStep ==
    ASSUME IInv, Lists, [Next]_vars
    PROVE  Lists'
<1>1. CASE \E created \in BOOLEAN : Scan(created)
  <2>1. PICK created \in BOOLEAN : Scan(created)
    BY <1>1
  <2>. DEFINE filled == db \/ AtvImports(client.wants, db)
  <2>2. client.wants \in Requests /\ filled \in BOOLEAN
    BY <2>1 DEF Scan, IInv, TypeOK, Ordered
  <2>3. lib'.on => lib'.todo = Searched(client.wants, filled)
    BY <2>1 DEF Scan, Idle
  <2>4. scan'.paras = client.wants
    BY <2>1 DEF Scan, IInv, TypeOK
  <2>. QED
    BY <2>2, <2>3, <2>4, SearchedInOrder DEF Lists
<1>2. CASE NextChannel
  <2>1. lib.on /\ lib.todo # <<>> /\ lib'.todo = Tail(lib.todo) /\ scan' = scan
    BY <1>2 DEF NextChannel, At, IInv, Queued
  <2>2. PICK S : lib.todo \in Seq(S)
    BY <2>1 DEF IInv, Queued, Channelled
  <2>. QED
    BY <2>1, <2>2, TailInOrder DEF Lists
<1>3. CASE ScanExit
  BY <1>3 DEF ScanExit, Lists, Idle
<1>4. CASE UNCHANGED vars
  BY <1>4 DEF vars, Lists
<1>5. CASE stopVBI
  <2>1. lib'.on = lib.on /\ lib'.todo = lib.todo /\ scan'.paras = scan.paras
    BY <1>5 DEF stopVBI, IInv, TypeOK, Queued
  <2>. QED
    BY <2>1 DEF Lists
<1>6. CASE stopScan
  BY <1>6 DEF stopScan, Lists, IInv, TypeOK, Queued
<1>7. CASE (\E p \in Requests \cup {None} : Call(p)) \/ Others
  BY <1>7 DEF Call, Others, Lists
<1>8. CASE \/ ScanBegin \/ FETypeHelperCB \/ (\E starts \in BOOLEAN : resetVBI(starts)) \/ ChannelBegin
           \/ (\E locked \in BOOLEAN : Signal(locked)) \/ MgtDone \/ VctDone \/ NewProgramMore \/ ScanEnd
  <2>1. lib'.on = lib.on /\ lib'.todo = lib.todo
    <3>1. \E at : lib' = [lib EXCEPT !.at = at]
      BY <1>8 DEF ScanBegin, FETypeHelperCB, resetVBI, ChannelBegin, Signal, MgtDone, VctDone,
                  NewProgramMore, ScanEnd
    <3>. QED
      BY <3>1, LibMoves
  <2>2. scan'.paras = scan.paras
    BY <1>8 DEF ScanBegin, FETypeHelperCB, resetVBI, ChannelBegin, Signal, MgtDone, VctDone,
                NewProgramMore, ScanEnd, IInv, TypeOK
  <2>. QED
    BY <2>1, <2>2 DEF Lists
<1>. QED
  BY <1>1, <1>2, <1>3, <1>4, <1>5, <1>6, <1>7, <1>8 DEF Next

\* What a message tells.
LEMMA SendTells ==
    ASSUME NEW type, NEW e, NEW locked, NEW new, SendLock(type, e, locked, new)
    PROVE  ev' = e /\ told'.type = type /\ told'.percent = e.percent /\ told'.kind = Kind
BY DEF SendLock

\* The progress of one step to the next message.
Steady ==
    TotalIsRight /\ told'.type # "begin" /\ told'.kind = told.kind => told.percent <= told'.percent

\* A step that tells nothing is steady.
LEMMA SilentSteady ==
    ASSUME IInv, told' = told
    PROVE  Steady
<1>1. told.percent \in 0..100
  BY DEF IInv, TypeOK
<1>2. told'.percent = told.percent
  OBVIOUS
<1>. QED
  BY <1>1, <1>2 DEF Steady

\* A step that tells nothing and stays in the channel.
LEMMA QuietProgress ==
    ASSUME IInv, Progress, told' = told, ev'.percent = ev.percent, ev'.total = ev.total,
           scan'.paras = scan.paras, NEW at, lib' = [lib EXCEPT !.at = at],
           lib.at # "begin", at # "begin", at \notin {"mgt", "vct"},
           \/ lib.at \in {"tune", "vbi", "channel"} /\ at \in {"tune", "vbi", "channel"}
           \/ /\ lib.at \in Received
              /\ at \notin {"tune", "vbi", "channel"}
    PROVE  Progress'
<1>1. lib'.on = lib.on /\ lib'.at = at /\ lib'.todo = lib.todo /\ Kind' = Kind /\ Channel' = Channel
  BY LibMoves DEF Channel
<1>2. Percent(scan'.paras, Channel') = Percent(scan.paras, Channel)
  BY <1>1
<1>. QED
  BY <1>1, <1>2 DEF Progress, Received

\* The first channel is told at least the nothing that the scan begins with.
LEMMA ScanBeginProgress ==
    ASSUME IInv, ScanBegin
    PROVE  Progress' /\ Steady
<1>1. /\ ev' = [ev EXCEPT !.percent = 0] /\ told'.type = "begin"
      /\ told'.percent = [ev EXCEPT !.percent = 0].percent /\ scan' = scan
  BY SendTells DEF ScanBegin, Send
<1>2. ev'.percent = 0 /\ told'.percent = 0
  BY <1>1 DEF IInv, TypeOK
<1>3. /\ lib'.on = lib.on /\ lib'.at = "tune" /\ lib'.todo = lib.todo
      /\ Kind' = Kind /\ Channel' = Channel
  BY LibMoves DEF ScanBegin, Channel
<1>4. ASSUME lib.todo # <<>>
      PROVE  ev'.percent <= Percent(scan.paras, Channel)
  <2>1. Percent(scan.paras, Channel) \in 0..100
    BY <1>4, ChannelIsSound, PercentFits
  <2>. DEFINE x == Percent(scan.paras, Channel)
  <2>2. x \in 0..100
    BY <2>1
  <2>. HIDE DEF x
  <2>3. ev'.percent <= x
    BY <1>2, <2>2
  <2>. QED
    BY <2>3 DEF x
<1>5. Percent(scan'.paras, Channel') = Percent(scan.paras, Channel)
  BY <1>1, <1>3
<1>6. Progress'
  BY <1>1, <1>2, <1>3, <1>4, <1>5 DEF Progress, Received
<1>. QED
  BY <1>1, <1>6 DEF Steady

\* A channel is told its percentage.
LEMMA ChannelProgress ==
    ASSUME IInv, Progress, ChannelBegin
    PROVE  Progress' /\ Steady
<1>. DEFINE e == IF Steps(scan.paras, Channel) THEN AtvTuning(scan.paras, Channel, ev)
                 ELSE TsBegin(scan.paras, Channel, ev)
<1>1. ev' = e /\ told'.percent = e.percent /\ told'.kind = Kind /\ scan' = scan
  <2>1. SendLock("channel", e, FALSE, FALSE) /\ scan' = scan
    BY DEF ChannelBegin, Send
  <2>. HIDE DEF e
  <2>. QED
    BY <2>1, SendTells
<1>2. /\ lib'.on = lib.on /\ lib'.at = "signal" /\ lib'.todo = lib.todo
      /\ Kind' = Kind /\ Channel' = Channel
  BY LibMoves DEF ChannelBegin, Channel
<1>3. /\ lib.on /\ lib.at = "channel" /\ lib.todo # <<>> /\ Sound(Channel, scan.paras)
      /\ scan.paras \in Requests /\ Kind = Channel.kind
  BY ChannelIsSound DEF ChannelBegin, At, IInv, Queued, Working
<1>4. e.percent = Percent(scan.paras, Channel)
  <2>1. [ev EXCEPT !.percent = AtvPercent(scan.paras, Channel), !.base = "analog"].percent
          = AtvPercent(scan.paras, Channel)
    BY DEF IInv, TypeOK
  <2>. QED
    BY <2>1 DEF Percent, AtvTuning, TsBegin
<1>5. Percent(scan.paras, Channel) \in 0..100 /\ (Kind = "digital" => Percent(scan.paras, Channel) <= 99)
  BY <1>3, PercentFits
<1>6. Percent(scan'.paras, Channel') = Percent(scan.paras, Channel)
  BY <1>1, <1>2
<1>. HIDE DEF e
<1>7. Progress'
  BY <1>1, <1>2, <1>4, <1>5, <1>6 DEF Progress, Received
<1>8. Steady
  BY <1>1, <1>3, <1>4 DEF Steady, Progress, TotalIsRight
<1>. QED
  BY <1>7, <1>8

\* A signal tells what the channel was told.
LEMMA SignalProgress ==
    ASSUME IInv, Progress, NEW locked \in BOOLEAN, Signal(locked)
    PROVE  Progress' /\ Steady
<1>1. ev' = ev /\ told'.percent = ev.percent /\ told'.kind = Kind /\ scan' = scan
  BY SendTells DEF Signal
<1>2. PICK at \in {"next", "mgt", "store"} :
         lib' = [lib EXCEPT !.at = at] /\ (at = "mgt" => Kind = "digital")
  BY DEF Signal
<1>3. /\ lib'.on = lib.on /\ lib'.at = at /\ lib'.todo = lib.todo
      /\ Kind' = Kind /\ Channel' = Channel
  BY <1>2, LibMoves DEF Channel
<1>4. lib.on /\ lib.at = "signal"
  BY DEF Signal, At
<1>5. Percent(scan'.paras, Channel') = Percent(scan.paras, Channel)
  BY <1>1, <1>3
<1>6. ev.percent \in 0..100
  BY DEF IInv, TypeOK
<1>7. told.percent = ev.percent /\ told.kind = Kind
  BY <1>4 DEF Progress, Received
<1>8. Steady
  BY <1>1, <1>6, <1>7 DEF Steady
<1>9. Progress'
  BY <1>1, <1>2, <1>3, <1>4, <1>5, <1>6 DEF Progress, Received
<1>. QED
  BY <1>8, <1>9

\* Only the single channel of a search moves by its tables, and not beyond 99.
LEMMA TablesProgress ==
    ASSUME IInv, Progress, MgtDone \/ VctDone
    PROVE  Progress' /\ Steady
<1>1. PICK add \in {10, 30}, at \in {"vct", "store"} :
         /\ Send("tables", Tables(ev, add)) /\ lib' = [lib EXCEPT !.at = at]
         /\ lib.on /\ lib.at \in {"mgt", "vct"} /\ scan' = scan
  BY DEF MgtDone, VctDone, At
<1>. DEFINE e == Tables(ev, add)
<1>2. ev' = e /\ told'.percent = e.percent /\ told'.kind = Kind
  BY <1>1, SendTells DEF Send
<1>3. /\ lib'.on = lib.on /\ lib'.at = at /\ lib'.todo = lib.todo
      /\ Kind' = Kind /\ Channel' = Channel
  BY <1>1, LibMoves DEF Channel
<1>4. Kind = "digital" /\ told.percent = ev.percent /\ ev.percent <= 99 /\ ev.percent \in 0..100
  BY <1>1 DEF Progress, IInv, TypeOK, Received
<1>5. /\ e.total = ev.total /\ e.percent <= 99 /\ ev.percent <= e.percent
      /\ ev.total # 1 => e = ev
  BY <1>1, <1>4 DEF Tables, Least, IInv, TypeOK
<1>6. Percent(scan'.paras, Channel') = Percent(scan.paras, Channel)
  BY <1>1, <1>3
<1>. HIDE DEF e
<1>. QED
  BY <1>1, <1>2, <1>3, <1>4, <1>5, <1>6 DEF Progress, Received, Steady

\* The channel that comes next is told no less than the last.
LEMMA NextChannelProgress ==
    ASSUME IInv, Lists, Progress, NextChannel
    PROVE  Progress' /\ Steady
<1>1. /\ lib.on /\ lib.at = "next" /\ lib.todo # <<>> /\ scan' = scan /\ ev' = ev /\ told' = told
      /\ lib'.on = lib.on /\ lib'.at = "tune" /\ lib'.todo = Tail(lib.todo)
  BY DEF NextChannel, At, IInv, Queued
<1>2. PICK S : lib.todo \in Seq(S) /\ \A c \in S : Sound(c, scan.paras)
  BY <1>1 DEF IInv, Queued, Channelled
<1>3. Sound(Channel, scan.paras) /\ scan.paras \in Requests /\ Kind = Channel.kind
  BY <1>1, ChannelIsSound
<1>4. ASSUME lib'.todo # <<>>, told'.kind = Kind', ev'.total = Channel'.total
      PROVE  ev'.percent <= Percent(scan.paras, Channel')
  <2>1. Follows(Channel, Channel', scan.paras)
    BY <1>1, <1>2, <1>4, TailInOrder DEF Lists, Channel
  <2>2. Sound(Channel', scan.paras)
    BY <1>1, <1>2, <1>4 DEF Channel
  <2>3. Kind' = Channel'.kind /\ told.kind = Kind
    BY <1>1, <1>4 DEF Kind, Channel, Progress, Received
  <2>4. Channel'.kind = Channel.kind
    BY <1>1, <1>3, <1>4, <2>3
  <2>5. Channel.total = ev.total /\ Channel'.index = Channel.index + 1 /\ Channel'.index < Channel'.total
    BY <1>1, <1>4, <2>1, <2>2, <2>4 DEF Follows, Sound
  <2>6. ev.total # 1
    BY <1>1, <1>3, <1>4, <2>5 DEF Sound
  <2>7. ev.percent = Percent(scan.paras, Channel)
    BY <1>1, <2>5, <2>6 DEF Progress, Received
  <2>. QED
    BY <1>1, <1>3, <2>1, <2>2, <2>4, <2>7, PercentGrows
<1>5. Percent(scan'.paras, Channel') = Percent(scan.paras, Channel')
  BY <1>1
<1>6. told'.percent = ev'.percent
  BY <1>1 DEF Progress
<1>7. Progress'
  BY <1>1, <1>4, <1>5, <1>6 DEF Progress, Received
<1>8. Steady
  BY <1>1, SilentSteady
<1>. QED
  BY <1>7, <1>8

\* The end is a hundred, and the exit tells it again.
LEMMA EndProgress ==
    ASSUME IInv, Progress, ScanEnd \/ ScanExit
    PROVE  Progress' /\ Steady
<1>1. ev.percent \in 0..100 /\ told.percent \in 0..100
  BY DEF IInv, TypeOK
<1>2. CASE ScanEnd
  <2>1. /\ ev' = [ev EXCEPT !.percent = 100] /\ told'.percent = [ev EXCEPT !.percent = 100].percent
    BY <1>2, SendTells DEF ScanEnd, Send
  <2>2. ev'.percent = 100 /\ told'.percent = 100
    BY <2>1 DEF IInv, TypeOK
  <2>3. lib'.at = "exit"
    BY <1>2, LibMoves DEF ScanEnd
  <2>4. Progress'
    BY <2>2, <2>3 DEF Progress, Received
  <2>5. Steady
    BY <1>1, <2>2 DEF Steady
  <2>. QED
    BY <2>4, <2>5
<1>3. CASE ScanExit
  <2>1. told'.percent = ev.percent /\ lib.on /\ lib.at = "exit"
    BY <1>3, SendTells DEF ScanExit, Send, At
  <2>2. lib'.on = FALSE
    BY <1>3 DEF ScanExit, Idle
  <2>3. told.percent = ev.percent
    BY <2>1 DEF Progress
  <2>4. Progress'
    BY <2>2 DEF Progress
  <2>5. Steady
    BY <1>1, <2>1, <2>3 DEF Steady
  <2>. QED
    BY <2>4, <2>5
<1>. QED
  BY <1>2, <1>3

\* The client's thread tells nothing; what it starts begins before Progress counts.
LEMMA ClientProgress ==
    ASSUME IInv, Progress, NEW created \in BOOLEAN,
           \/ \E p \in Requests \cup {None} : Call(p)
           \/ stopVBI \/ stopScan \/ Scan(created) \/ Others
    PROVE  Progress' /\ Steady
<1>1. told' = told /\ told.percent \in 0..100
  BY DEF Call, stopVBI, stopScan, Scan, Others, IInv, TypeOK
<1>2. CASE Scan(created)
  <2>1. lib'.on => lib'.at = "begin"
    BY <1>2 DEF Scan, Idle
  <2>2. Progress'
    BY <2>1 DEF Progress
  <2>. QED
    BY <1>2, <1>1, <2>2, SilentSteady
<1>3. CASE stopVBI \/ stopScan \/ Others \/ \E p \in Requests \cup {None} : Call(p)
  <2>1. /\ lib'.on = lib.on /\ lib'.at = lib.at /\ lib'.todo = lib.todo
        /\ Kind' = Kind /\ Channel' = Channel
    <3>1. CASE stopVBI
      BY <3>1 DEF stopVBI, IInv, Queued, Kind, Channel
    <3>2. CASE stopScan \/ Others \/ \E p \in Requests \cup {None} : Call(p)
      <4>1. lib' = lib
        BY <3>2 DEF Call, stopScan, Others
      <4>. QED
        BY <4>1 DEF Kind, Channel
    <3>. QED
      BY <1>3, <3>1, <3>2
  <2>2. scan'.paras = scan.paras /\ ev' = ev
    BY <1>3 DEF Call, stopVBI, stopScan, Others, IInv, TypeOK
  <2>3. Percent(scan'.paras, Channel') = Percent(scan.paras, Channel)
    BY <2>1, <2>2
  <2>4. Progress'
    BY <1>1, <2>1, <2>2, <2>3 DEF Progress, Received
  <2>. QED
    BY <1>1, <2>4, SilentSteady
<1>. QED
  BY <1>2, <1>3

\* Every step keeps Progress and is steady.
LEMMA ProgressStep ==
    ASSUME IInv, Lists, Progress, [Next]_vars
    PROVE  Progress' /\ [Steady]_told
<1>1. CASE FETypeHelperCB \/ (\E starts \in BOOLEAN : resetVBI(starts)) \/ NewProgramMore
  <2>1. told' = told /\ ev'.percent = ev.percent /\ ev'.total = ev.total /\ scan'.paras = scan.paras
    BY <1>1 DEF FETypeHelperCB, resetVBI, NewProgramMore, IInv, TypeOK
  <2>2. PICK at \in {"vbi", "channel", "next"} :
           /\ lib' = [lib EXCEPT !.at = at]
           /\ \/ lib.at \in {"tune", "vbi"} /\ at # "next"
              \/ lib.at = "store" /\ at = "next"
    BY <1>1 DEF FETypeHelperCB, resetVBI, NewProgramMore, At
  <2>3. Progress'
    BY <2>1, <2>2, QuietProgress DEF Received
  <2>. QED
    BY <2>1, <2>3
<1>2. CASE UNCHANGED vars
  BY <1>2 DEF vars, Progress, Kind, Channel, Percent, Steps, AtvPercent, TsPercent
<1>. QED
  BY <1>1, <1>2, ScanBeginProgress, ChannelProgress, SignalProgress, TablesProgress,
     NextChannelProgress, EndProgress, ClientProgress DEF Next

\* While channels of one kind are searched the progress that clients are told
\* never goes back, whatever the limits and the tables, as long as mCurEv has
\* the number of the channels that are searched (mTotalChannelCount).
THEOREM ProgressIsSteady == Spec => ProgressSteady
<1>1. IInv /\ Lists /\ Progress /\ [Next]_vars => (IInv /\ Lists /\ Progress)'
  BY StepKeeps, ListsStep, ProgressStep
<1>2. IInv /\ Lists /\ Progress /\ [Next]_vars
        => [TotalIsRight /\ told'.type # "begin" /\ told'.kind = told.kind
              => told.percent <= told'.percent]_told
  BY ProgressStep DEF Steady
<1>3. Init => IInv /\ Lists /\ Progress
  BY InitKept, ListsInit
<1>. QED
  BY <1>1, <1>2, <1>3, PTL DEF Spec, ProgressSteady
=============================================================================
