----------------------------- MODULE MCScanner -----------------------------
EXTENDS Scanner

NoScan == [atv |-> "NONE", a1 |-> 0, a2 |-> 0, dtv |-> "NONE", d1 |-> 0, d2 |-> 0,
           atsc |-> FALSE, first |-> "digital"]

\* All digital channels.
AllBand == [NoScan EXCEPT !.dtv = "ALLBAND"]

\* One digital channel of ATSC, by a frequency that is not in the table.
Single == [NoScan EXCEPT !.dtv = "MANUAL", !.d1 = 7, !.d2 = 7, !.atsc = TRUE]

\* A range of digital channels.
Span == [NoScan EXCEPT !.dtv = "MANUAL", !.d1 = 6, !.d2 = 9, !.atsc = TRUE]

\* Analog channels by frequency, downwards.
Down == [NoScan EXCEPT !.atv = "MANUAL", !.a1 = 6, !.a2 = 3, !.first = "analog"]

\* Digital channels, then analog ones step by step.
Mix == [NoScan EXCEPT !.atv = "AUTO", !.a1 = 2, !.a2 = 5, !.dtv = "AUTO", !.d1 = 4, !.d2 = 12]

\* ATSC: analog channels by the table, then digital ones.
Atsc == [NoScan EXCEPT !.atv = "FREQ", !.dtv = "ALLBAND", !.atsc = TRUE, !.first = "analog"]

\* Limits in the wrong order.
Wrong == [NoScan EXCEPT !.atv = "AUTO", !.a1 = 5, !.a2 = 2, !.first = "analog"]

TwoKinds == {AllBand, Single, Span, Down, Mix, Atsc, Wrong}

Analog == {4, 8}

Digital == {4, 6, 9}
============================================================================
