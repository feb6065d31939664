----------------------------- MODULE MCScanList -----------------------------
EXTENDS ScanList

No == Nothing

Pmt(num, video, audio, ca) == [num |-> num, video |-> video, audio |-> audio, ca |-> ca]

Part(tsid, pmts, sdt) == [pats |-> <<[tsid |-> tsid]>>, pmts |-> pmts, sdt |-> sdt]

Stream(freq, system, parts) ==
    [kind |-> "digital", freq |-> freq, system |-> system, parts |-> parts,
     vcts |-> <<>>, nit |-> <<>>, useVct |-> FALSE]

Entry(num, tsid, major, minor, hidden) ==
    [num |-> num, tsid |-> tsid, major |-> major, minor |-> minor, hidden |-> hidden,
     video |-> TRUE, audio |-> TRUE]

\* A channel with the table of another stream beside its own.
Own == [Stream(57, "ATSC", <<Part(7, <<Pmt(1, TRUE, TRUE, FALSE), Pmt(2, FALSE, TRUE, TRUE)>>, No)>>)
          EXCEPT !.vcts = <<[ext |-> 8, channels |-> <<Entry(1, 8, 80, 1, FALSE)>>],
                            [ext |-> 7, channels |-> <<Entry(1, 7, 70, 1, FALSE), Entry(2, 7, 70, 2, TRUE),
                                                      Entry(3, 7, 70, 3, TRUE), Entry(0, 7, 70, 0, FALSE)>>]>>]

\* One whose PAT says 0, with two tables.
Zero == [Stream(63, "ATSC", <<Part(0, <<Pmt(1, TRUE, TRUE, FALSE), Pmt(4, FALSE, FALSE, FALSE)>>, No)>>)
          EXCEPT !.vcts = <<[ext |-> 9, channels |-> <<Entry(1, 5, 50, 1, FALSE), Entry(4, 9, 3, 4, FALSE)>>],
                            [ext |-> 0, channels |-> <<Entry(4, 0, 90, 1, FALSE)>>]>>]

\* One without a table.
Bare == Stream(69, "ATSC", <<Part(6, <<Pmt(5, TRUE, FALSE, FALSE)>>, No)>>)

AnalogStream(freq, system, tsid) ==
    [kind |-> "analog", freq |-> freq, system |-> system, tsid |-> tsid, useVct |-> FALSE,
     vcts |-> <<[ext |-> 7, channels |-> <<Entry(6, 21, 12, 1, FALSE)>>]>>]

AtscAirs ==
    {<<AnalogStream(50, "NTSC", No), AnalogStream(57, "NTSC", 21), AnalogStream(90, "NTSC", No), Own>>,
     <<Own, Zero, Bare, AnalogStream(95, "NTSC", No)>>,
     <<AnalogStream(40, "PAL", No), AnalogStream(57, "NTSC", 21), AnalogStream(63, "SECAM", 22), Zero>>}

Sdt(tsid, services) == [tsid |-> tsid, services |-> services]

Nit == <<[net |-> 1, tsid |-> 3, num |-> 1, slot |-> 0, lcn |-> 101],
         [net |-> 1, tsid |-> 3, num |-> 1, slot |-> 1, lcn |-> 1],
         [net |-> 1, tsid |-> 4, num |-> 1, slot |-> 1, lcn |-> 2],
         [net |-> 1, tsid |-> 4, num |-> 1, slot |-> 1, lcn |-> 3]>>

T2 == [Stream(60, "T2", <<Part(3, <<Pmt(1, TRUE, TRUE, FALSE)>>, No),
                          Part(4, <<Pmt(1, TRUE, TRUE, TRUE)>>, Sdt(4, <<1, 2>>))>>) EXCEPT !.nit = Nit]

\* ISDB-T: a PAT of one segment before that of the channel.
Segment == Stream(66, "ISDBT",
    <<[pats |-> <<[tsid |-> 65535], [tsid |-> 5]>>, pmts |-> <<Pmt(8, TRUE, TRUE, FALSE)>>, sdt |-> No]>>)

OnlySegment == Stream(72, "ISDBT",
    <<[pats |-> <<[tsid |-> 65535]>>, pmts |-> <<Pmt(9, TRUE, TRUE, FALSE)>>, sdt |-> Sdt(6, <<9, 10>>)]>>)

NoSdt == Stream(78, "ISDBT",
    <<[pats |-> <<[tsid |-> 65535]>>, pmts |-> <<Pmt(9, FALSE, TRUE, FALSE)>>, sdt |-> No]>>)

DvbAirs == {<<T2, Segment, OnlySegment, NoSdt>>,
            <<AnalogStream(50, "PAL", No), AnalogStream(57, "SECAM", No), T2>>}

Atsc == [air : AtscAirs,
         set : [atsc : {TRUE},
                flags : {{"NOVCT"}, {"NOVCTHIDE"}, {"FTA", "NOVCT", "NOPAL", "NOSECAM"},
                         {"NOTV", "INVALIDPID"}, {"NORADIO"}}]]

Dvb == [air : DvbAirs, set : [atsc : {FALSE}, flags : {{"LCN"}, {"FTA", "NOPAL"}}]]

Both == Atsc \cup Dvb

\* Channels 2, 3 and 4.
Channels234 == <<[freq |-> 57, number |-> 2], [freq |-> 63, number |-> 3], [freq |-> 69, number |-> 4]>>
=============================================================================
