-------------------------------- MODULE Demura --------------------------------
(***************************************************************************)
(* How CTvPanel makes the tables of the timing controller out of the bytes *)
(* in the flash of the panel: each conversion loop, with its own positions *)
(* in the packed input and in the output, the arithmetic on what it reads, *)
(* and the check sums (CTvPanel.cpp, PANEL_*_data_Conversion and helpers). *)
(*                                                                         *)
(* The content of the flash is not chosen: a value that a loop assembles   *)
(* is the set of the input bits it is made of, each with its weight, so    *)
(* that a run says where every bit goes whatever the bits are.  Bit b of   *)
(* the input is bit b % 8 of byte b \div 8.                                *)
(***************************************************************************)
EXTENDS Integers, Sequences, FiniteSets

CONSTANTS Lines,  \* the lines of a table; 271 in the code
          Bytes,  \* what is fed to the check sums: sets of the bits that are set
          Fed,    \* how much of it
          Edges   \* ranges and minima of the 50-inch table that are tried

Points == 481  \* of a line
Planes(job) == CASE job = "50INX" -> 5 [] job = "55SDC" -> 7 [] OTHER -> 3
Total(job) == Lines * Points * Planes(job)

Packed12 == {"43D10", "65D02_3", "65D02_H", "50T01"}
Tables == Packed12 \cup {"50INX", "55SDC"}
Sums == {"50INX crc", "50T01 crc", "CRC16"}

\* How much of the flash each conversion reads into memory (from offset 0: the
\* header of a 43D10 is read with it).
Size(job) ==
    CASE job = "43D10" -> 36 + Lines * 3 * 784
      [] job = "65D02_3" -> Lines * 3 * 784
      [] job = "65D02_H" -> Lines * 3 * 726
      [] job = "50T01" -> (Total(job) * 12 + 7) \div 8 + 12
      [] job = "50INX" -> Lines * 1760
      [] job = "55SDC" -> 7 * (Lines * Points + 1) + 1

VARIABLES job,    \* what is being done
          at,     \* the position in the input
          count,  \* values written so far
          loop,   \* the loop variables
          read,   \* the values written in the last step, and where to
          used,   \* planes that a 50-inch panel has
          cell,   \* three bytes of the ACC file: the source of each bit
          sum,    \* a check sum so far
          true,   \* what it should be
          value   \* the number that is converted
vars == <<job, at, count, loop, read, used, cell, sum, true, value>>

-----------------------------------------------------------------------------
(* Bits. *)

\* buffer[b] << l, as 32 bits, then >> r.
Cut(b, l, r) == {<<n + l - r, 8 * b + n>> : n \in {n \in 0..7 : n + l < 32 /\ n + l >= r}}

\* buffer[i] + (buffer[i+1] % 0x10) * 0x100 and buffer[i+2] * 0x10 + buffer[i+1] / 0x10.
Even(i) == Cut(i, 0, 0) \cup {<<8 + n, 8 * (i + 1) + n>> : n \in 0..3}
Odd(i) == Cut(i + 1, 0, 4) \cup Cut(i + 2, 4, 0)

\* (buffer[i] << 4) + ((buffer[i+1] & 0xf0) >> 4) and ((buffer[i+1] & 0xf) << 8) + buffer[i+2].
Even50T01(i) == Cut(i, 4, 0) \cup Cut(i + 1, 0, 4)
Odd50T01(i) == {<<8 + n, 8 * (i + 1) + n>> : n \in 0..3} \cup Cut(i + 2, 0, 0)

\* One of the four records in 45 bytes of a 50-inch table, which starts at or in
\* byte a: 16 codes, 4 modes, a range and a minimum.
Record1(a) ==
    [code |-> [n \in 0..15 |-> IF n % 2 = 0 THEN Cut(a + n \div 2, 28, 28)
                                            ELSE Cut(a + n \div 2, 0, 4)],
     mode |-> <<Cut(a + 8, 29, 29), Cut(a + 8, 26, 29),
                Cut(a + 8, 0, 6) \cup Cut(a + 9, 31, 29), Cut(a + 9, 28, 29)>>,
     range |-> Cut(a + 9, 0, 4) \cup Cut(a + 10, 29, 25),
     min |-> Cut(a + 10, 0, 3) \cup Cut(a + 11, 30, 25)]

Record2(a) ==
    [code |-> [n \in 0..15 |-> IF n % 2 = 0 THEN Cut(a + n \div 2, 26, 28)
                               ELSE Cut(a + n \div 2, 0, 6) \cup Cut(a + n \div 2 + 1, 30, 28)],
     mode |-> <<Cut(a + 8, 27, 29), Cut(a + 8, 0, 5), Cut(a + 9, 29, 29), Cut(a + 9, 26, 29)>>,
     range |-> Cut(a + 9, 0, 6) \cup Cut(a + 10, 27, 25),
     min |-> Cut(a + 10, 0, 5) \cup Cut(a + 11, 28, 25)]

Record3(a) ==
    [code |-> [n \in 0..15 |-> IF n % 2 = 0 THEN Cut(a + n \div 2, 0, 4)
                                            ELSE Cut(a + n \div 2 + 1, 28, 28)],
     mode |-> <<Cut(a + 8, 25, 29), Cut(a + 8, 0, 7) \cup Cut(a + 9, 30, 29),
                Cut(a + 9, 27, 29), Cut(a + 9, 0, 5)>>,
     range |-> Cut(a + 10, 25, 25),
     min |-> Cut(a + 10, 0, 7) \cup Cut(a + 11, 26, 25)]

\* Faulty variant: the position is not moved on before the low bits of the range.
Record4_Early(a) ==
    [code |-> [n \in 0..15 |-> IF n % 2 = 0 THEN Cut(a + n \div 2, 0, 6) \cup Cut(a + n \div 2 + 1, 30, 28)
                                            ELSE Cut(a + n \div 2 + 1, 26, 28)],
     mode |-> <<Cut(a + 8, 0, 6) \cup Cut(a + 9, 31, 29), Cut(a + 9, 28, 29),
                Cut(a + 9, 25, 29), Cut(a + 9, 0, 7) \cup Cut(a + 10, 30, 29)>>,
     range |-> Cut(a + 10, 0, 2) \cup Cut(a + 10, 31, 25),
     min |-> Cut(a + 11, 0, 1)]

Record4(a) ==
    [code |-> [n \in 0..15 |-> IF n % 2 = 0 THEN Cut(a + n \div 2, 0, 6) \cup Cut(a + n \div 2 + 1, 30, 28)
                                            ELSE Cut(a + n \div 2 + 1, 26, 28)],
     mode |-> <<Cut(a + 8, 0, 6) \cup Cut(a + 9, 31, 29), Cut(a + 9, 28, 29),
                Cut(a + 9, 25, 29), Cut(a + 9, 0, 7) \cup Cut(a + 10, 30, 29)>>,
     range |-> Cut(a + 10, 0, 2) \cup Cut(a + 11, 31, 25),
     min |-> Cut(a + 11, 0, 1)]

-----------------------------------------------------------------------------
(* Where the loops that sort the planes put the k-th value. *)

\* Lines of 481 points of each of three planes in turn.
Sorted(k) == 3 * ((k \div 1443) * Points + (k % Points)) + ((k % 1443) \div Points)

\* The lines of a 50-inch table have 30 times 16 points of each plane in turn,
\* and the last point of each.
Sorted50(k) ==
    LET line == k \div 2405
        c == k % 2405
        plane == IF c < 2400 THEN (c % 80) \div 16 ELSE c - 2400
        point == IF c < 2400 THEN 16 * (c \div 80) + (c % 16) ELSE 480
    IN  5 * (line * Points + point) + plane

-----------------------------------------------------------------------------
(* The conversions, one action for an iteration of the innermost loop. *)

Init ==
    /\ job = "none" /\ at = 0 /\ count = 0 /\ loop = <<>> /\ read = {}
    /\ used = 5 /\ cell = <<>> /\ sum = {} /\ true = {} /\ value = 0

NoSum == UNCHANGED <<used, cell, sum, true, value>>

Start(j) ==
    /\ job = "none" /\ job' = j
    /\ at' = (IF j = "43D10" THEN 36 ELSE 0) /\ count' = 0 /\ read' = {}
    /\ loop' = CASE j = "50INX" -> <<0, 0, 0>>           \* i, j and the record
                 [] j = "65D02_3" -> <<0, 0, 0>>         \* l, k, j
                 [] j \in {"55SDC", "acc"} -> <<0, 0>>   \* j, i
                 [] OTHER -> <<>>
    /\ used' \in IF j = "50INX" THEN 3..5 ELSE {5}
    /\ cell' = IF j = "acc" THEN [b \in 0..23 |-> <<0, 0>>] ELSE <<>>
    /\ sum' = (IF j = "50INX crc" THEN 0..7 ELSE {}) /\ true' = sum'
    /\ value' = 0

Out(k, bits) == [to |-> k, bits |-> bits]
Puts(outs) == read' = outs /\ count' = count + Cardinality(outs)

\* PANEL_43D10_data_Conversion.  The loop goes on at i = data_size + 36, where
\* its data have ended.
Step43D10 ==
    /\ job = "43D10" /\ at <= Size(job) /\ UNCHANGED loop
    /\ \/ at % 16 = 3 /\ at' = at + 1 /\ Puts({})
       \/ /\ at % 16 # 3 /\ at % 784 = 20
          /\ at' = at + 15 /\ Puts({Out(Sorted(count), Even(at))})
       \/ /\ at % 16 # 3 /\ at % 784 # 20
          /\ at' = at + 3
          /\ Puts({Out(Sorted(count), Even(at)), Out(Sorted(count + 1), Odd(at))})
    /\ UNCHANGED job /\ NoSum

\* PANEL_65D02_H_data_Conversion.
Step65D02_H ==
    /\ job = "65D02_H" /\ at < Size(job) /\ UNCHANGED loop
    /\ IF at % 726 = 720
       THEN at' = at + 6 /\ Puts({Out(Sorted(count), Even(at))})
       ELSE at' = at + 3 /\ Puts({Out(Sorted(count), Even(at)), Out(Sorted(count + 1), Odd(at))})
    /\ UNCHANGED job /\ NoSum

\* PANEL_65D02_3_data_Conversion: at is offset, and what is counted is local of
\* the plane.
Step65D02_3 ==
    /\ job = "65D02_3" /\ loop[1] < 3
    /\ LET l == loop[1]
           k == loop[2]
           j == loop[3]
           local == count - l * Lines * Points
           offset == 16 * j + k * 784 * 3 + 784 * l
           values == IF j = 48 THEN {0} ELSE 0..9
           Of(i) == IF i % 2 = 0 THEN Even(offset + 3 * (i \div 2)) ELSE Odd(offset + 3 * (i \div 2))
       IN  /\ Puts({Out((local + i) * 3 + l, Of(i)) : i \in values})
           /\ at' = offset
           /\ loop' = CASE j < 48 -> <<l, k, j + 1>>
                        [] j = 48 /\ k < Lines - 1 -> <<l, k + 1, 0>>
                        [] OTHER -> <<l + 1, 0, 0>>
    /\ UNCHANGED job /\ NoSum

\* PANEL_50T01_data_Conversion: the flash has the planes in the order of the table.
Step50T01 ==
    /\ job = "50T01" /\ count < Total(job) /\ UNCHANGED loop
    /\ Puts({Out(count, Even50T01(at))} \cup
            IF count = Total(job) - 1 THEN {} ELSE {Out(count + 1, Odd50T01(at))})
    /\ at' = at + 3
    /\ UNCHANGED job /\ NoSum

\* PANEL_50INX_data_Conversion.  The 39th 45 bytes of a line have three records,
\* and the last five records of a line have one value.
Single(j, q) == j = 38 \/ (j = 37 /\ q >= 2)
Planed(outs) == {o \in outs : o.to % 5 < used}

Step50INX ==
    /\ job = "50INX" /\ loop[1] < Lines
    /\ LET j == loop[2]
           q == loop[3]
           r == CASE q = 0 -> Record1(at) [] q = 1 -> Record2(at)
                  [] q = 2 -> Record3(at) [] q = 3 -> Record4(at)
           values == IF Single(j, q) THEN {0} ELSE 0..15
           last == q = 3 \/ (j = 38 /\ q = 2)
       IN  /\ read' = Planed({Out(Sorted50(count + n),
                                  [code |-> r.code[n], mode |-> r.mode[n \div 4 + 1],
                                   range |-> r.range, min |-> r.min]) : n \in values})
           /\ count' = count + Cardinality(values)
           /\ at' = at + (IF q = 3 THEN 12 ELSE 11) + (IF j = 38 /\ last THEN 17 ELSE 0)
           /\ loop' = CASE ~last -> <<loop[1], j, q + 1>>
                        [] last /\ j < 38 -> <<loop[1], j + 1, 0>>
                        [] OTHER -> <<loop[1] + 1, 0, 0>>
    /\ UNCHANGED job /\ NoSum

\* PANEL_55SDC_data_Conversion: the gains are pairs of bits in three bytes.
Gain(g) ==
    CASE g = 6 -> <<<<0, 0>>, <<1, 7>>>> [] g = 5 -> <<<<1, 6>>, <<1, 5>>>>
      [] g = 4 -> <<<<1, 4>>, <<1, 3>>>> [] g = 3 -> <<<<1, 2>>, <<1, 1>>>>
      [] g = 2 -> <<<<1, 0>>, <<2, 7>>>> [] g = 1 -> <<<<2, 6>>, <<2, 5>>>>
      [] g = 0 -> <<<<2, 4>>, <<2, 3>>>>

Step55SDC ==
    /\ job = "55SDC" /\ loop[1] < 7
    /\ LET j == loop[1]
           i == loop[2]
       IN  /\ Puts({Out((i + 1) * 7 - 1 - j,
                        [from |-> i + (Lines * Points + 1) * j, gain |-> Gain(6 - j)])})
           /\ at' = i + (Lines * Points + 1) * j
           /\ loop' = IF i < Lines * Points - 1 THEN <<j, i + 1>> ELSE <<j + 1, 0>>
    /\ UNCHANGED job /\ NoSum

\* PANEL_55SDC_Acc_Conversion: every fourth of 1024 numbers of each colour, the
\* last one twice (or 0xfff for the second, if it is 0), as 12 bits each.  What
\* is written at an even place is cut by what follows at the odd one.
Sample(i) == IF i = 256 THEN 255 ELSE i

Pair(i, c) ==
    IF i % 2 = 0 THEN [b \in 0..23 |-> IF b < 16 THEN <<i, b>> ELSE c[b]]
    ELSE [b \in 0..23 |-> IF b >= 12 THEN <<i, b - 12>> ELSE c[b]]

StepAcc ==
    /\ job = "acc" /\ loop[1] < 3
    /\ LET j == loop[1]
           i == loop[2]
       IN  /\ read' = {Out((i \div 2) * 3 + j * 387, 2 * (4 * (256 * j + Sample(i))))}
           /\ count' = i
           /\ cell' = Pair(i, cell)
           /\ at' = (i \div 2) * 3 + j * 387
           /\ loop' = IF i < 256 THEN <<j, i + 1>> ELSE <<j + 1, 0>>
    /\ UNCHANGED <<job, used, sum, true, value>>

-----------------------------------------------------------------------------
(* Arithmetic. *)

\* An integer quotient in C drops the fraction towards zero.
Quo(a, b) == IF a >= 0 THEN a \div b ELSE -((-a) \div b)
Byte(a) == a % 256

\* Two's complement of 12 bits, and 2048 for zero, to a byte.
Signed12(a) == Byte(IF a > 2047 THEN Quo(a - 4096, 4) + 256 ELSE a \div 4)
Offset12(a) == Byte(IF a >= 2048 THEN (a - 2048) \div 4 ELSE Quo(a - 2048, 4) + 256)

\* PANEL_Decode_50inch, whose floating point numbers are exact.
Sub(q, v) == v.min + (q * v.range + 2) \div 4
Upper(v) ==
    CASE v.mode \in {0, 4, 5, 6} -> v.min + v.range [] v.mode \in {1, 7} -> Sub(3, v)
      [] v.mode = 2 -> Sub(2, v) [] v.mode = 3 -> Sub(1, v)
Lower(v) ==
    CASE v.mode \in 0..3 -> v.min [] v.mode \in {4, 7} -> Sub(1, v)
      [] v.mode = 5 -> Sub(2, v) [] v.mode = 6 -> Sub(3, v)

\* Faulty variant: without the half that rounds.
Decode_Down(v, code) ==
    LET q == Upper(v) - Lower(v)
        d == (code * 546 * q) \div 8192 + Lower(v) - 64
    IN  IF d < 0 THEN d + 256 ELSE d

Decode(v, code) ==
    LET q == Upper(v) - Lower(v)
        d == IF q # 0 THEN (code * 546 * q + 4096) \div 8192 + Lower(v) - 64 ELSE Lower(v) - 64
    IN  IF d < 0 THEN d + 256 ELSE d

Scale ==
    /\ job = "scale" /\ value < 4095 /\ value' = value + 1
    /\ UNCHANGED <<job, at, count, loop, read, used, cell, sum, true>>

Choose50(mode, range, min) ==
    /\ job = "decode" /\ value = 0 /\ value' = 1
    /\ loop' = <<mode, range, min>>
    /\ UNCHANGED <<job, at, count, read, used, cell, sum, true>>

-----------------------------------------------------------------------------
(* Check sums, as sets of bits. *)

Xor(a, b) == (a \ b) \cup (b \ a)

\* PANEL_50INX_DEMURA_CRC: eight shifts at once.
Sum50INX(crc, din) ==
    LET x == Xor(crc, din)
        s1 == 7 \in x
        s2 == 6 \in x
        s3 == 5 \in x
        s4 == 4 \in x
        s5 == (3 \in x) # s1
        s6 == ((2 \in x) # s1) # s2
        s7 == (((1 \in x) # s1) # s2) # s3
        s8 == (((0 \in x) # s2) # s3) # s4
        out == [n \in 0..7 |->
                  CASE n = 7 -> ((s1 # s3) # s4) # s5 [] n = 6 -> ((s2 # s4) # s5) # s6
                    [] n = 5 -> ((s3 # s5) # s6) # s7 [] n = 4 -> ((s4 # s6) # s7) # s8
                    [] n = 3 -> (s5 # s7) # s8 [] n = 2 -> s6 # s8 [] n = 1 -> s7 [] n = 0 -> s8]
    IN  {n \in 0..7 : out[n]}

\* PANEL_50T01_DEMURA_CRC: the lowest bit of a byte comes first.
Bit50T01(crc, bit) ==
    LET t1 == (15 \in crc) # bit
        t2 == (1 \in crc) # t1
        t3 == (14 \in crc) # t1
    IN  ({n + 1 : n \in crc} \cap ((1..14) \ {2})) \cup (IF t1 THEN {0} ELSE {})
          \cup (IF t2 THEN {2} ELSE {}) \cup (IF t3 THEN {15} ELSE {})

Sum50T01(crc, byte) ==
    LET after[n \in 0..8] == IF n = 0 THEN crc ELSE Bit50T01(after[n - 1], (n - 1) \in byte)
    IN  after[8]

\* Polynomial division: x^16 + x^15 + x^2 + 1 and x^8 + x^4 + x^3 + x^2 + 1.
Shift(w, poly, x) ==
    LET y == {n + 1 : n \in x} \ {w} IN IF w - 1 \in x THEN Xor(y, poly) ELSE y
Remainder(w, poly, x) ==
    LET after[n \in 0..8] == IF n = 0 THEN x ELSE Shift(w, poly, after[n - 1]) IN after[8]
Poly16 == {0, 2, 15}
Poly8 == {0, 2, 3, 4}

\* CalcCRC16.  CRC16_TABLE has the remainder of every byte; crcData is not cut
\* to 16 bits until it is returned.
CRC16_TABLE(byte) == Remainder(16, Poly16, {n + 8 : n \in byte})
\* Faulty variant: the byte that leaves the sum is not looked at.
CalcCRC16_NoDat(crcData, byte) ==
    Xor({n + 8 : n \in crcData} \cap (0..63), CRC16_TABLE(byte))

CalcCRC16(crcData, byte) ==
    LET dat == {n - 8 : n \in crcData \cap (8..15)}
    IN  Xor({n + 8 : n \in crcData} \cap (0..63), CRC16_TABLE(Xor(dat, byte)))

Mirrored(byte) == {7 - n : n \in byte}
Expected(byte) ==
    CASE job = "50INX crc" -> Remainder(8, Poly8, Xor(true, byte))
      [] job = "50T01 crc" -> Remainder(16, Poly16, Xor(true, {n + 8 : n \in Mirrored(byte)}))
      [] job = "CRC16" -> Remainder(16, Poly16, Xor(true, {n + 8 : n \in byte}))

Feed(byte) ==
    /\ job \in Sums /\ count < Fed
    /\ sum' = CASE job = "50INX crc" -> Sum50INX(sum, byte)
                [] job = "50T01 crc" -> Sum50T01(sum, byte)
                [] job = "CRC16" -> CalcCRC16(sum, byte)
    /\ true' = Expected(byte) /\ count' = count + 1
    /\ UNCHANGED <<job, at, loop, read, used, cell, value>>

-----------------------------------------------------------------------------
Over ==
    CASE job = "43D10" -> at > Size(job)
      [] job = "65D02_H" -> at >= Size(job)
      [] job = "50T01" -> count >= Total(job)
      [] job = "65D02_3" -> loop[1] = 3
      [] job = "50INX" -> loop[1] = Lines
      [] job = "55SDC" -> loop[1] = 7
      [] job = "acc" -> loop[1] = 3
      [] job = "scale" -> value = 4095
      [] job = "decode" -> value # 0
      [] OTHER -> count = Fed

Finish ==
    /\ job # "none" /\ Over /\ job' = "none"
    /\ at' = 0 /\ count' = 0 /\ loop' = <<>> /\ read' = {}
    /\ used' = 5 /\ cell' = <<>> /\ sum' = {} /\ true' = {} /\ value' = 0

Next ==
    \/ \E j \in Tables \cup Sums \cup {"acc", "scale", "decode"} : Start(j)
    \/ Step43D10 \/ Step65D02_H \/ Step65D02_3 \/ Step50T01 \/ Step50INX \/ Step55SDC
    \/ StepAcc
    \/ Scale
    \/ \E m \in 0..7, r, n \in Edges : Choose50(m, r, n)
    \/ \E byte \in Bytes : Feed(byte)
    \/ Finish

Spec == Init /\ [][Next]_vars

-----------------------------------------------------------------------------
(* What the flash holds, and properties. *)

Field(start, width) == {<<n, start + n>> : n \in 0..width - 1}
\* With the highest bit first.
FieldDown(start, width) ==
    {<<width - 1 - n, 8 * ((start + n) \div 8) + 7 - ((start + n) % 8)>> : n \in 0..width - 1}

\* The bits of the entry of a table: its point and line, its plane.
Stored(e) ==
    LET p == Planes(job)
        plane == e % p
        line == (e \div p) \div Points
        point == (e \div p) % Points
        row == 3 * line + plane
        record == 8 * 1760 * line + 90 * (5 * (point \div 16) + plane)
    IN  CASE job = "43D10" -> Field(8 * (36 + 784 * row + 16 * (point \div 10)) + 12 * (point % 10), 12)
          [] job = "65D02_3" -> Field(8 * (784 * row + 16 * (point \div 10)) + 12 * (point % 10), 12)
          [] job = "65D02_H" -> Field(8 * 726 * row + 12 * point, 12)
          [] job = "50T01" -> FieldDown(12 * e, 12)
          [] job = "50INX" -> [code |-> Field(record + 4 * (point % 16), 4),
                               mode |-> Field(record + 64 + 3 * ((point % 16) \div 4), 3),
                               range |-> Field(record + 76, 7), min |-> Field(record + 83, 7)]
          [] job = "55SDC" -> [from |-> (6 - plane) * (Lines * Points + 1) + e \div 7,
                               gain |-> [n \in 1..2 |->
                                  LET bit == 7 + 2 * (6 - plane) + n - 1 IN <<bit \div 8, 7 - (bit % 8)>>]]

AccPacked ==
    job = "acc" /\ read # {} =>
      /\ count % 2 = 1 => \A b \in 0..23 : cell[b] = <<count - 1 + b \div 12, b % 12>>
      /\ count = 256 => \A b \in 0..11 : cell[b] = <<256, b>>

\* Every entry of a table is made of the bits that are stored for it, of no
\* other and of all of them; no entry is left out.  What a 43D10's loop takes
\* for two entries more after the last belongs to no table.  Pairs of numbers
\* of the ACC file keep their bits although each is written over the other.
EntriesInPlace ==
    /\ job \in Tables =>
         /\ \A o \in read : o.to < Total(job) => o.bits = Stored(o.to)
         /\ \A o \in read : o.to >= Total(job) => job = "43D10"
         /\ Over => count = Total(job) + (IF job = "43D10" THEN 2 ELSE 0)
    /\ AccPacked

AsSigned(b) == IF b > 127 THEN b - 256 ELSE b

\* A converted number has the sign and a quarter of the value, as long as that
\* fits a byte, and a decoded point is between its bounds and reaches both.
Converted ==
    /\ job = "scale" =>
         /\ value < 512 => AsSigned(Signed12(value)) = value \div 4
         /\ value >= 4096 - 512 => AsSigned(Signed12(value)) = Quo(value - 4096, 4)
         /\ value \in 2048 - 512 .. 2048 + 511 => AsSigned(Offset12(value)) = Quo(value - 2048, 4)
    /\ job = "decode" /\ value # 0 =>
         LET v == [mode |-> loop[1], range |-> loop[2], min |-> loop[3]]
             d == [c \in 0..15 |-> (Decode(v, c) + 64) % 256]
         IN  /\ d[0] = Lower(v) /\ d[15] = Upper(v)
             /\ \A c \in 0..14 : d[c] <= d[c + 1]
             /\ v.min <= d[0] /\ d[15] <= v.min + v.range

\* The sums are remainders of polynomial division, whatever way they are computed
\* in, and bits beyond the width do not come back.
SumsAgree == job \in Sums => sum \cap (IF job = "50INX crc" THEN 0..7 ELSE 0..15) = true
=============================================================================
