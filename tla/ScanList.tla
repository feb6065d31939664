------------------------------ MODULE ScanList ------------------------------
(***************************************************************************)
(* CTvScanner (libtv/tv/CTvScanner.cpp): what the clients are told of the  *)
(* services that a scan finds.                                             *)
(*                                                                         *)
(* libdvb collects the transport streams it has received, analog channels  *)
(* included, and has storeScan run after each one and again at the end:    *)
(* every pass goes through all streams and tells every service anew.  The  *)
(* tables in a stream (PAT, PMT, SDT, VCT, NIT) are libdvb's.  An analog   *)
(* channel of ATSC gets the number that a VCT gives to its stream id; the  *)
(* id comes from the thread of the VBI capture, and evtCallback notes it   *)
(* when the channel is locked.                                             *)
(*                                                                         *)
(* Abstractions: of a service the model has its number, its kind, whether  *)
(* it is scrambled or hidden, and its channel number; names, languages,    *)
(* PIDs, captions and subtitles are left out, and with them the check for  *)
(* packets on the PIDs.  A frequency is a number of megahertz.  The order  *)
(* in which a pass tells services depends on heap addresses: the lists are *)
(* lists of pointers and std::list::merge compares those.  It matters for  *)
(* the last service only, which is chosen freely.                          *)
(***************************************************************************)
EXTENDS Integers, Sequences, SequencesExt, FiniteSets

CONSTANTS Scans,     \* what may be on the air, a sequence of streams, and how it is scanned
          Table,     \* the region table of the analog channels: a sequence of [freq, number]
          DtvTable,  \* and of the digital ones
          Nothing    \* no id, no entry

Flags == {"FTA", "NOVCT", "NOVCTHIDE", "NOTV", "NORADIO", "INVALIDPID", "NOPAL", "NOSECAM", "LCN"}

IsStream(ts) ==
    \/ /\ ts.kind = "digital"
       /\ ts.freq \in Nat
       /\ \A part \in ToSet(ts.parts) :       \* the PLPs of DVB-T2; else one
            /\ \A pat \in ToSet(part.pats) : pat.tsid \in Nat
            /\ \A pmt \in ToSet(part.pmts) : {pmt.video, pmt.audio, pmt.ca} \subseteq BOOLEAN
            /\ part.pmts # <<>> => part.pats # <<>>
       /\ \A n \in ToSet(ts.nit) : n.slot \in 0..1
    \/ ts.kind = "analog" /\ ts.freq \in Nat /\ ts.system \in {"NTSC", "PAL", "SECAM"}

ASSUME ScanListAssumption ==
    /\ \A scan \in Scans : /\ \A i \in 1..Len(scan.air) : IsStream(scan.air[i])
                           /\ scan.set \in [atsc : BOOLEAN, flags : SUBSET Flags]
    /\ \A row \in ToSet(Table) \cup ToSet(DtvTable) : row.freq \in Nat /\ row.number \in Nat

VARIABLES air,      \* what is on the air
          set,      \* the standard and the mode of the scan
          at,       \* the stream libdvb is at, and whether it is "off", "tuned" or "locked"
          result,   \* result->tses
          vbi,      \* mVbiTsId
          tsids,    \* tsid_list
          told,     \* the services told in the last pass
          lcns      \* and the logical channel numbers

vars == <<air, set, at, result, vbi, tsids, told, lcns>>

Init ==
    /\ \E scan \in Scans : air = scan.air /\ set = scan.set
    /\ at = [i |-> 0, step |-> "off"]
    /\ result = <<>> /\ told = <<>> /\ lcns = <<>>
    /\ vbi = Nothing
    /\ tsids = <<>>

-----------------------------------------------------------------------------
(* A stream. *)

OneSegment == 65535  \* the id of the PAT that ISDB-T inserts for one segment

First(seq) == IF seq = <<>> THEN Nothing ELSE Head(seq)

\* Faulty variant: the first PAT is taken.
getValidPat_First(ts) == First(FlattenSeq([p \in DOMAIN ts.parts |-> ts.parts[p].pats]))

\* getValidPats: with DVB-T2 the PAT of the first PLP that has one; with ISDB-T
\* the first one that is not that of one segment, or else the first one, which
\* gets the id that the SDT gives.
getValidPat(ts) ==
    LET own == SelectSeq(ts.parts[1].pats, LAMBDA pat : pat.tsid # OneSegment)
        sdt == ts.parts[1].sdt
    IN  CASE ts.system = "T2" -> First(FlattenSeq([p \in DOMAIN ts.parts |-> ts.parts[p].pats]))
          [] ts.system = "ISDBT" ->
               IF own # <<>> THEN Head(own)
               ELSE IF ts.parts[1].pats # <<>> /\ sdt # Nothing
                    THEN [Head(ts.parts[1].pats) EXCEPT !.tsid = sdt.tsid]
                    ELSE First(ts.parts[1].pats)
          [] OTHER -> First(ts.parts[1].pats)

\* processTsInfo.  use_vct_tsid is the stream's own, as the last pass left it.
TsId(ts) ==
    LET pat == getValidPat(ts)
    IN  IF pat # Nothing /\ ~ts.useVct
        THEN IF ts.parts[1].sdt # Nothing THEN ts.parts[1].sdt.tsid ELSE pat.tsid
        ELSE IF ts.vcts # <<>> THEN ts.vcts[1].ext ELSE Nothing

\* What a pass of processAtscTs makes of use_vct_tsid.
UsesVct(ts) ==
    \/ ts.useVct
    \/ /\ ts.vcts # <<>> /\ ts.parts[1].pats # <<>>
       /\ ts.vcts[1].ext # ts.parts[1].pats[1].tsid /\ ts.parts[1].pats[1].tsid = 0

-----------------------------------------------------------------------------
(* A service. *)

\* getServiceInfo
NewService(ts, num) ==
    [kind |-> ts.kind, freq |-> ts.freq, plp |-> 1, num |-> num, video |-> FALSE,
     tsid |-> IF ts.kind = "analog" THEN Nothing ELSE TsId(ts),
     audio |-> FALSE, scrambled |-> FALSE, hidden |-> FALSE, major |-> 0, minor |-> 0]

\* The streams of a PMT, CA descriptors included.
FromPmt(ts, pmt) ==
    [NewService(ts, pmt.num) EXCEPT !.video = pmt.video, !.audio = pmt.audio, !.scrambled = pmt.ca]

\* extractSrvInfoFromVc, after AM_SI_ExtractAVFromVC if av.
FromVct(s, c, av) ==
    [s EXCEPT !.major = c.major, !.minor = c.minor, !.hidden = c.hidden,
              !.video = @ \/ (av /\ c.video), !.audio = @ \/ (av /\ c.audio)]

\* updateServiceInfo: whatever a table says of its kind, the PIDs decide.
SrvType(s) == IF s.video THEN "DTV" ELSE IF s.audio THEN "RADIO" ELSE "UNKNOWN"

checkIsSkipProgram(s) ==
    \/ s.scrambled /\ "FTA" \in set.flags
    \/ s.hidden /\ "NOVCTHIDE" \in set.flags
    \/ SrvType(s) = "DTV" /\ "NOTV" \in set.flags
    \/ SrvType(s) = "RADIO" /\ "NORADIO" \in set.flags
    \/ SrvType(s) = "UNKNOWN" /\ "INVALIDPID" \in set.flags

-----------------------------------------------------------------------------
(* DVB and ISDB: the services of the PMTs, then those that only the SDT has, *)
(* PLP by PLP.                                                               *)

HasPmt(part, num) == \E pmt \in ToSet(part.pmts) : pmt.num = num

processDvbTs(ts) ==
    LET InSdt(part) ==
          IF part.sdt = Nothing THEN <<>>
          ELSE SelectSeq(part.sdt.services, LAMBDA num : ~HasPmt(part, num))
        FromPart(part, plp) ==
          [i \in DOMAIN part.pmts |-> [FromPmt(ts, part.pmts[i]) EXCEPT !.plp = plp]]
            \o [i \in DOMAIN InSdt(part) |-> NewService(ts, InSdt(part)[i])]
        Some(part) == part.pmts # <<>>
    IN  IF getValidPat(ts) = Nothing \/ (ts.system # "T2" /\ ~Some(ts.parts[1])) THEN <<>>
        ELSE FlattenSeq([p \in DOMAIN ts.parts |-> FromPart(ts.parts[p], p)])

-----------------------------------------------------------------------------
(* ATSC. *)

Inactive == {0, 65535}

Channels(ts) ==
    FlattenSeq([v \in DOMAIN ts.vcts |->
       [i \in DOMAIN ts.vcts[v].channels |-> [ext |-> ts.vcts[v].ext, c |-> ts.vcts[v].channels[i]]]])

\* The channels of the VCTs' own streams.
OwnChannels(ts) ==
    SelectSeq(Channels(ts), LAMBDA x : x.c.num \notin Inactive /\ x.c.tsid = x.ext)

\* Faulty variant: the mark that the PAT's id is not to be used comes too late.
Named_Late(ts, x) == ts.useVct \/ x.ext = ts.parts[1].pats[1].tsid

\* Those of the stream that the PAT names, unless its id is not to be used.
Named(ts, x) == UsesVct(ts) \/ x.ext = ts.parts[1].pats[1].tsid

\* First the table of the named stream, then any.
VctEntry(ts, num) ==
    LET all == SelectSeq(OwnChannels(ts), LAMBDA x : x.c.num = num)
        own == SelectSeq(all, LAMBDA x : Named(ts, x))
    IN  IF own # <<>> THEN Head(own) ELSE First(all)

\* Without an entry the number comes from the region table, the last row that fits.
FromTable(s) ==
    LET rows == SelectSeq(DtvTable, LAMBDA row : row.freq = s.freq)
    IN  IF rows = <<>> THEN s ELSE [s EXCEPT !.major = Last(rows).number, !.minor = s.num]

AtscService(ts, pmt) ==
    LET x == VctEntry(ts, pmt.num)
    IN  IF x = Nothing THEN FromTable(FromPmt(ts, pmt))
        ELSE FromVct(FromPmt(ts, pmt), x.c, Named(ts, x))

processAtscTs(ts) ==
    LET part == ts.parts[1]
        pmts == SelectSeq(part.pmts, LAMBDA pmt :
                   /\ ~(pmt.ca /\ "FTA" \in set.flags)
                   /\ ~checkIsSkipProgram(AtscService(ts, pmt)))
        vcts == SelectSeq(OwnChannels(ts), LAMBDA x :
                   /\ ~HasPmt(part, x.c.num)
                   /\ ~checkIsSkipProgram(FromVct(NewService(ts, x.c.num), x.c, TRUE)))
    IN  IF part.pats = <<>> /\ ts.vcts = <<>> THEN <<>>
        ELSE [i \in DOMAIN pmts |-> AtscService(ts, pmts[i])]
             \o (IF "NOVCT" \in set.flags THEN <<>>
                 ELSE [i \in DOMAIN vcts |-> FromVct(NewService(ts, vcts[i].c.num), vcts[i].c, TRUE)])

Digital(ts) == IF set.atsc THEN processAtscTs(ts) ELSE processDvbTs(ts)

-----------------------------------------------------------------------------
(* Analog channels. *)

Tolerance == 2

\* The id noted for the frequency: the last one.
NotedId(freq) ==
    LET noted == SelectSeq(tsids, LAMBDA n : n.freq = freq)
    IN  IF noted = <<>> THEN Nothing ELSE Last(noted).tsid

OnTable(freq) ==
    SelectSeq(Table, LAMBDA row : row.freq - freq <= Tolerance /\ freq - row.freq <= Tolerance)

\* Faulty variant: numbering begins anew at the number of the table's channels.
OffTable_Size(back) == IF back <= Len(Table) + 1 THEN Len(Table) ELSE back + 1

\* The number of a channel off the table; back is that of the last service.
OffTable(back) == IF back <= Len(Table) + 1 THEN Len(Table) + 2 ELSE back + 1

\* processAnalogTs: the last entry of the VCTs with the id, the table, a free number.
AnalogNumber(ts, back) ==
    LET id == NotedId(ts.freq)
        entries == IF id = Nothing THEN <<>>
                   ELSE SelectSeq(Channels(ts), LAMBDA x : x.c.tsid = id)
    IN  IF entries # <<>> THEN [major |-> Last(entries).c.major, minor |-> Last(entries).c.minor]
        ELSE IF OnTable(ts.freq) # <<>> THEN [major |-> Head(OnTable(ts.freq)).number, minor |-> 0]
        ELSE [major |-> OffTable(back), minor |-> 0]

Analog(ts, back) ==
    LET number == IF set.atsc THEN AnalogNumber(ts, back) ELSE [major |-> 0, minor |-> 0]
    IN  [NewService(ts, 65535) EXCEPT !.major = number.major, !.minor = number.minor]

\* Some kinds of analog channels are not stored.
Stored(ts) ==
    /\ ~(ts.system = "PAL" /\ "NOPAL" \in set.flags)
    /\ ~(ts.system = "SECAM" /\ "NOSECAM" \in set.flags)

-----------------------------------------------------------------------------
(* Logical channel numbers: slot 0 is of descriptor 0x83, slot 1 of 0x88. *)

Same(a, b) == a.net = b.net /\ a.tsid = b.tsid /\ a.num = b.num

\* Faulty variant: the entry of the other descriptor is overwritten.
insertLcn_Replace(list, n) ==
    LET new == [net |-> n.net, tsid |-> n.tsid, num |-> n.num,
                lcn |-> [slot \in 0..1 |-> IF slot = n.slot THEN n.lcn ELSE Nothing]]
    IN  IF \E i \in DOMAIN list : Same(list[i], n)
        THEN [i \in DOMAIN list |-> IF Same(list[i], n) THEN new ELSE list[i]]
        ELSE Append(list, new)

insertLcn(list, n) ==
    IF \E i \in DOMAIN list : Same(list[i], n)
    THEN [i \in DOMAIN list |->
            IF Same(list[i], n) THEN [list[i] EXCEPT !.lcn[n.slot] = n.lcn] ELSE list[i]]
    ELSE Append(list, [net |-> n.net, tsid |-> n.tsid, num |-> n.num,
                       lcn |-> [slot \in 0..1 |-> IF slot = n.slot THEN n.lcn ELSE Nothing]])

getLcnInfo(ts) ==
    IF ts.kind = "analog" \/ set.atsc THEN <<>> ELSE FoldLeft(insertLcn, <<>>, ts.nit)

-----------------------------------------------------------------------------
(* A pass of storeScan over the streams: the digital ones, then the analog   *)
(* ones.  last is the digital stream whose last service ended the list.      *)

OfKind(streams, kind) == SelectSeq(streams, LAMBDA ts : ts.kind = kind)

\* notifyService keeps back what has neither video nor audio.
Sent(s) == s.kind = "analog" \/ s.video \/ s.audio

Lists(streams) ==
    LET digital == OfKind(streams, "digital") IN [i \in DOMAIN digital |-> Digital(digital[i])]

Ends(streams) == {i \in DOMAIN Lists(streams) : Lists(streams)[i] # <<>>}

Services(streams, last) ==
    LET start == [list |-> FlattenSeq(Lists(streams)),
                  back |-> IF last = 0 THEN 0 ELSE Last(Lists(streams)[last]).major]
        Add(acc, ts) ==
          LET s == Analog(ts, acc.back)
          IN  IF Stored(ts) THEN [list |-> Append(acc.list, s), back |-> s.major] ELSE acc
    IN  FoldLeft(Add, start, OfKind(streams, "analog")).list

Marked(streams) ==
    [i \in DOMAIN streams |->
       IF streams[i].kind = "digital" /\ set.atsc
       THEN [streams[i] EXCEPT !.useVct = UsesVct(streams[i])] ELSE streams[i]]

\* The streams as they are after the pass.
Pass(streams) ==
    /\ \E last \in IF Ends(streams) = {} THEN {0} ELSE Ends(streams) :
         told' = SelectSeq(Services(streams, last), Sent)
    /\ lcns' = IF "LCN" \in set.flags
               THEN FlattenSeq([i \in DOMAIN streams |-> getLcnInfo(streams[i])]) ELSE <<>>
    /\ result' = Marked(streams)
    /\ tsids' = <<>>

-----------------------------------------------------------------------------
(* libdvb's thread. *)

\* The next channel.  A change of its kind stops the VBI capture, or restarts it.
Tune ==
    /\ at.step \in {"off", "locked"} /\ at.i < Len(air)
    /\ at' = [i |-> at.i + 1, step |-> "tuned"]
    /\ vbi' = IF set.atsc /\ (at.i = 0 \/ air[at.i].kind # air[at.i + 1].kind) THEN Nothing ELSE vbi
    /\ UNCHANGED <<air, set, result, tsids, told, lcns>>

\* The thread of the capture has read the id of an analog channel.
CC_VBINetworkCb ==
    /\ at.step = "tuned" /\ set.atsc
    /\ air[at.i].kind = "analog" /\ air[at.i].tsid # Nothing
    /\ vbi' = air[at.i].tsid
    /\ UNCHANGED <<air, set, at, result, tsids, told, lcns>>

\* checkVbiDataReady, when a channel is locked: whatever id has been read last.
Lock ==
    /\ at.step = "tuned"
    /\ at' = [at EXCEPT !.step = "locked"]
    /\ tsids' = IF set.atsc /\ air[at.i].kind = "analog" /\ vbi # Nothing
                THEN Append(tsids, [freq |-> air[at.i].freq, tsid |-> vbi]) ELSE tsids
    /\ UNCHANGED <<air, set, result, vbi, told, lcns>>

\* NEW_PROGRAM_MORE
Found ==
    /\ at.step = "locked"
    /\ Pass(Append(result, air[at.i]))
    /\ at' = [at EXCEPT !.step = "off"]
    /\ UNCHANGED <<air, set, vbi>>

\* The end of a scan, also of one that is stopped.
Store ==
    /\ at.step # "end"
    /\ Pass(result)
    /\ at' = [at EXCEPT !.step = "end"]
    /\ UNCHANGED <<air, set, vbi>>

\* Another scan.  tsid_list is left as it is, result is libdvb's.
Scan ==
    /\ at.step = "end"
    /\ \E scan \in Scans : air' = scan.air /\ set' = scan.set
    /\ at' = [i |-> 0, step |-> "off"]
    /\ result' = <<>> /\ told' = <<>> /\ lcns' = <<>>
    /\ vbi' = Nothing
    /\ UNCHANGED tsids

Next == Tune \/ CC_VBINetworkCb \/ Lock \/ Found \/ Store \/ Scan

Spec == Init /\ [][Next]_vars

-----------------------------------------------------------------------------
(* Properties. *)

Ids(ts, part) ==
    {pat.tsid : pat \in ToSet(part.pats)} \cup {v.ext : v \in ToSet(ts.vcts)}
      \cup (IF part.sdt = Nothing THEN {} ELSE {part.sdt.tsid})

\* Every digital service told is one that its stream has, in a PMT or a VCT, and
\* goes with an id that a table of the stream gives; the id of one segment only if
\* there is no other.  DVB-T2 with several PLPs is excepted: all of them are told
\* with the id of the first one.
OwnStream ==
    \A i \in DOMAIN told : told[i].kind = "digital" =>
      \E ts \in ToSet(result) :
        /\ ts.kind = "digital" /\ ts.freq = told[i].freq
        /\ LET s == told[i]  part == ts.parts[s.plp] IN
           /\ HasPmt(part, s.num) \/ \E x \in ToSet(OwnChannels(ts)) : x.c.num = s.num
           /\ s.plp = 1 => s.tsid \in Ids(ts, part)
           /\ s.plp = 1 /\ s.tsid = OneSegment => Ids(ts, part) = {OneSegment}

TableNumbers == {row.number : row \in ToSet(Table)}

\* Numbers are where they belong.  An analog channel off the table gets no number
\* of the table, whatever was told before it, unless a VCT says so.  Every logical
\* channel number of a stream that was received is told with its service, that of
\* 0x83 beside that of 0x88; the last one counts.
NumbersKept ==
    /\ set.atsc => \A i \in DOMAIN told :
         LET s == told[i] IN
         s.kind = "analog" /\ OnTable(s.freq) = <<>> /\ s.minor = 0 => s.major \notin TableNumbers
    /\ "LCN" \in set.flags /\ ~set.atsc /\ told # <<>> =>
         \A ts \in ToSet(result) : ts.kind = "digital" =>
         \A i \in DOMAIN ts.nit :
           (\A j \in DOMAIN ts.nit :
              j > i => ~(Same(ts.nit[i], ts.nit[j]) /\ ts.nit[i].slot = ts.nit[j].slot))
             => \E l \in ToSet(lcns) :
                  Same(l, ts.nit[i]) /\ l.lcn[ts.nit[i].slot] = ts.nit[i].lcn

PatSaysZero(freq) ==
    \E ts \in ToSet(result') : ts.freq = freq /\ ts.kind = "digital" /\ ts.useVct

\* Each pass tells again what the passes before it told in the same scan: the
\* service, with its number and stream.  A stream whose PAT says 0 changes its id
\* after its first pass, and an analog channel may change its number.
ToldAgain ==
    [][at'.i # 0 => \A i \in DOMAIN told : \E j \in DOMAIN told' :
         LET s == told[i]  t == told'[j] IN
         /\ s.freq = t.freq /\ s.kind = t.kind /\ s.num = t.num /\ s.plp = t.plp
         /\ s.kind = "digital" => s.major = t.major /\ s.minor = t.minor
         /\ s.tsid = t.tsid \/ PatSaysZero(s.freq)]_<<told, at>>
=============================================================================
