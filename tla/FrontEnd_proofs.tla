--------------------------- MODULE FrontEnd_proofs ---------------------------
(***************************************************************************)
(* Proofs about CFrontEnd, for any channels and digital modes.             *)
(*                                                                         *)
(* What setPara believes goes wrong only while somebody has the means to   *)
(* put it right: an operation that disturbs the channel received goes on   *)
(* to a setPara that will not skip, or closes the frontend, or scans, and  *)
(* CTv::mLock lets no other operation come between.  The two that do not   *)
(* take the lock disturb nothing.                                          *)
(***************************************************************************)
EXTENDS FrontEnd, SequenceTheorems, TLAPS

-----------------------------------------------------------------------------
(* Facts about one state of CFrontEnd. *)

\* A device is open or closed, and what it is tuned to is of its mode.
Chips(s) ==
    /\ \A d \in Devices : s.open[d] <=> s.chip[d] # "closed"
    /\ \A d \in Devices : s.tuned[d] # None =>
          Dev(s.tuned[d]) = d /\ s.chip[d] = s.tuned[d].mode
    /\ s.paras # None /\ ~s.failed => s.chip[Dev(s.paras)] # "closed"

Sound(s) == s \in States /\ Chips(s)

\* The cache speaks of a channel that is not received any more.
Lost(s) == s.paras # None /\ ~s.failed /\ s.tuned[Dev(s.paras)] # s.paras

\* From s to r, only channels of another mode than m are lost.
KeepsMode(s, r, m) ==
    /\ r.paras = s.paras /\ r.failed = s.failed
    /\ \A d \in Devices : r.tuned[d] \in {s.tuned[d], None}
    /\ \A d \in Devices : s.tuned[d] # None =>
          r.tuned[d] = s.tuned[d] \/ s.tuned[d].mode # m

\* The analog standards that there are.
Existing ==
    {s \in [video : Videos, audio : Audios] :
        s.video # "AUTO" /\ SoundBits(s.video, s.audio) # {}}
RealStandards == \A p \in Paras : p.mode = "ANALOG" => p.std \in Existing

\* A channel that a client may ask for, up to a standard that does not exist.
Known(p) ==
    /\ \E q \in Paras : q.mode = p.mode /\ q.freq = p.freq
    /\ RealStandards => p \in Paras

LEMMA ModeFacts ==
  /\ "dtv" \in Devices /\ "atv" \in Devices /\ "dtv" # "atv"
  /\ Digital \subseteq Modes /\ "ANALOG" \in Modes /\ "AUTO" \in Modes
  /\ \A m \in Modes : m # "closed"
  /\ "ANALOG" \notin Digital /\ "AUTO" \notin Digital
  /\ \A p \in Parameters : /\ p # None /\ p.mode \in Modes /\ p.mode # "AUTO"
                           /\ Dev(p) \in Devices
                           /\ Dev(p) = "atv" <=> p.mode = "ANALOG"
  BY FrontEndAssumption DEF FrontEndAssumption, Devices, Modes, Dev, Parameters

LEMMA SwitchKeeps ==
  ASSUME NEW s, Sound(s), NEW d \in Devices, NEW m \in Modes
  PROVE  Sound(Switch(s, d, m)) /\ KeepsMode(s, Switch(s, d, m), m)
  <1> DEFINE r == Switch(s, d, m)
  <1>1. r \in States BY ModeFacts DEF Sound, States, Switch
  <1>2. /\ r.open = s.open /\ r.paras = s.paras /\ r.failed = s.failed
        /\ \A e \in Devices \ {d} : r.chip[e] = s.chip[e] /\ r.tuned[e] = s.tuned[e]
        /\ r.tuned[d] = IF s.chip[d] = m THEN s.tuned[d] ELSE None
        /\ r.chip[d] = IF s.chip[d] = "closed" THEN "closed" ELSE m
    BY DEF Sound, States, Switch
  <1> HIDE DEF r
  <1>3. Chips(r) BY <1>2, ModeFacts DEF Sound, Chips, States
  <1>4. KeepsMode(s, r, m) BY <1>2 DEF KeepsMode, Sound, Chips
  <1> QED BY <1>1, <1>3, <1>4 DEF Sound, r

LEMMA PowerUpKeeps ==
  ASSUME NEW s, Sound(s), NEW d \in Devices, NEW m \in Modes, NEW n, ~s.open[d]
  PROVE  Sound(PowerUp(s, d, m)) /\ KeepsMode(s, PowerUp(s, d, m), n)
  <1> DEFINE r == PowerUp(s, d, m)
  <1>1. r \in States BY ModeFacts DEF Sound, States, PowerUp
  <1>2. /\ r.open[d] /\ r.chip[d] = m /\ r.tuned[d] = None
        /\ r.paras = s.paras /\ r.failed = s.failed
        /\ \A e \in Devices \ {d} : /\ r.chip[e] = s.chip[e] /\ r.tuned[e] = s.tuned[e]
                                    /\ r.open[e] = s.open[e]
    BY DEF Sound, States, PowerUp
  <1> HIDE DEF r
  <1>3. Chips(r) BY <1>2, ModeFacts DEF Sound, Chips, States
  <1>4. s.tuned[d] = None BY ModeFacts DEF Sound, Chips, States
  <1>5. KeepsMode(s, r, n) BY <1>2, <1>4 DEF KeepsMode
  <1> QED BY <1>1, <1>3, <1>5 DEF Sound, r

LEMMA KeepsTwice ==
  ASSUME NEW s, NEW t, NEW r, NEW m, KeepsMode(s, t, m), KeepsMode(t, r, m),
         Sound(s), Sound(t)
  PROVE  KeepsMode(s, r, m)
  BY ModeFacts DEF KeepsMode, Sound, States

\* Opening an open frontend in mode AUTO does nothing.
LEMMA OpenKeeps ==
  ASSUME NEW s, Sound(s), NEW m \in Modes, NEW ok \in [Devices -> BOOLEAN]
  PROVE  /\ Sound(Open(s, m, ok)) /\ KeepsMode(s, Open(s, m, ok), m)
         /\ m = "AUTO" => \A n \in Modes : KeepsMode(s, Open(s, m, ok), n)
  <1> DEFINE v == IF ~s.open["atv"]
                  THEN IF m \in {"ANALOG", "AUTO"} /\ ok["atv"] THEN PowerUp(s, "atv", m) ELSE s
                  ELSE IF s.mode["atv"] # m /\ m = "ANALOG" THEN Switch(s, "atv", m) ELSE s
             r == IF ~v.open["dtv"]
                  THEN IF m # "ANALOG" /\ ok["dtv"] THEN PowerUp(v, "dtv", m) ELSE v
                  ELSE IF v.mode["dtv"] # m /\ m \in Digital THEN Switch(v, "dtv", m) ELSE v
  <1>1. \A n : KeepsMode(s, s, n) BY DEF KeepsMode
  <1>2. /\ Sound(v) /\ KeepsMode(s, v, m)
        /\ m = "AUTO" => \A n \in Modes : KeepsMode(s, v, n)
    BY <1>1, ModeFacts, SwitchKeeps, PowerUpKeeps
  <1> HIDE DEF v
  <1>3. \A n : KeepsMode(v, v, n) BY DEF KeepsMode
  <1>4. /\ Sound(r) /\ KeepsMode(v, r, m)
        /\ m = "AUTO" => \A n \in Modes : KeepsMode(v, r, n)
    BY <1>2, <1>3, ModeFacts, SwitchKeeps, PowerUpKeeps
  <1>5. r = Open(s, m, ok) BY DEF v, Open
  <1> HIDE DEF r
  <1> QED BY <1>2, <1>4, <1>5, KeepsTwice

LEMMA SetModeKeeps ==
  ASSUME NEW s, Sound(s), NEW m \in Modes
  PROVE  Sound(setMode(s, m)) /\ KeepsMode(s, setMode(s, m), m)
  <1>1. KeepsMode(s, s, m) BY DEF KeepsMode
  <1>2. CASE m = "ANALOG"
    <2> DEFINE t == Switch(s, "dtv", m)
    <2>1. Sound(t) /\ KeepsMode(s, t, m) BY SwitchKeeps, ModeFacts
    <2>2. Sound(Switch(t, "atv", m)) /\ KeepsMode(t, Switch(t, "atv", m), m)
      BY <2>1, SwitchKeeps, ModeFacts
    <2> HIDE DEF t
    <2>3. KeepsMode(s, Switch(t, "atv", m), m) BY <2>1, <2>2, KeepsTwice
    <2>4. setMode(s, m) \in {s, Switch(t, "atv", m)} BY <1>2 DEF setMode, t
    <2> QED BY <1>1, <2>2, <2>3, <2>4
  <1>3. CASE m # "ANALOG"
    <2> DEFINE t == Switch(s, "atv", "AUTO")
    <2>1. Sound(t) /\ KeepsMode(s, t, "AUTO") BY SwitchKeeps, ModeFacts
    <2>2. KeepsMode(s, t, m)
      <3>1. /\ t.paras = s.paras /\ t.failed = s.failed
            /\ t.tuned["dtv"] = s.tuned["dtv"]
        BY ModeFacts DEF Switch, Sound, States
      <3>2. s.tuned["atv"] # None => s.tuned["atv"].mode = "ANALOG"
        BY ModeFacts DEF Sound, Chips, States
      <3> QED BY <1>3, <2>1, <3>1, <3>2 DEF KeepsMode, Devices
    <2>3. Sound(Switch(t, "dtv", m)) /\ KeepsMode(t, Switch(t, "dtv", m), m)
      BY <2>1, SwitchKeeps, ModeFacts
    <2> HIDE DEF t
    <2>4. KeepsMode(s, Switch(t, "dtv", m), m) BY <2>1, <2>2, <2>3, KeepsTwice
    <2>5. setMode(s, m) \in {s, t, Switch(t, "dtv", m)} BY <1>3 DEF setMode, t
    <2> QED BY <1>1, <2>1, <2>2, <2>3, <2>4, <2>5
  <1> QED BY <1>2, <1>3

LEMMA CloseForgets ==
  ASSUME NEW s, Sound(s)
  PROVE  /\ Sound(Close(s)) /\ Close(s).paras = None
         /\ \A d \in Devices : Close(s).tuned[d] = None
  BY ModeFacts DEF Sound, States, Chips, Close, Devices

LEMMA SetParaTunes ==
  ASSUME NEW s, Sound(s), NEW p \in Parameters, NEW force \in BOOLEAN,
         NEW ok \in [Devices -> BOOLEAN]
  PROVE  /\ Sound(setPara(s, p, force, ok))
         /\ Same(s, p, force) => setPara(s, p, force, ok) = s
         /\ ~Same(s, p, force) => /\ setPara(s, p, force, ok).paras = p
                                  /\ ~Lost(setPara(s, p, force, ok))
         /\ \A e \in Devices : setPara(s, p, force, ok).tuned[e] \in {s.tuned[e], p, None}
  <1> DEFINE d == Dev(p)
             done == ok[d] /\ s.chip[d] # "closed"
             r == [s EXCEPT !.paras = p, !.mode = Believed(p), !.failed = ~done,
                            !.chip[d] = IF done THEN p.mode ELSE @,
                            !.tuned[d] = IF done THEN p ELSE None]
  <1>1. d \in Devices /\ p.mode \in Modes BY ModeFacts
  <1>2. Believed(p) \in [Devices -> Modes \cup {"none"}] BY ModeFacts DEF Believed
  <1>3. r \in States BY <1>1, <1>2 DEF Sound, States
  <1>4. /\ r.paras = p /\ r.failed = ~done /\ r.open = s.open
        /\ r.chip[d] = IF done THEN p.mode ELSE s.chip[d]
        /\ r.tuned[d] = IF done THEN p ELSE None
        /\ \A e \in Devices \ {d} : r.chip[e] = s.chip[e] /\ r.tuned[e] = s.tuned[e]
    BY <1>1 DEF Sound, States
  <1>5. setPara(s, p, force, ok) = IF Same(s, p, force) THEN s ELSE r BY DEF setPara
  <1> HIDE DEF r
  <1>6. Chips(r)
    <2>1. p.mode # "closed" /\ p # None BY ModeFacts
    <2>2. (r.chip[d] # "closed") <=> (s.chip[d] # "closed") BY <1>4, <2>1
    <2> HIDE DEF done
    <2>3. \A e \in Devices : r.open[e] <=> r.chip[e] # "closed"
      BY <1>4, <2>2 DEF Sound, Chips
    <2>4. \A e \in Devices : r.tuned[e] # None =>
             Dev(r.tuned[e]) = e /\ r.chip[e] = r.tuned[e].mode
      BY <1>4 DEF Sound, Chips
    <2>5. r.paras # None /\ ~r.failed => r.chip[Dev(r.paras)] # "closed"
      BY <1>4, <2>1 DEF Sound, States
    <2> QED BY <2>3, <2>4, <2>5 DEF Chips
  <1>7. ~Lost(r) BY <1>4 DEF Lost
  <1> QED BY <1>3, <1>4, <1>5, <1>6, <1>7 DEF Sound

\* Parameters of another mode than the cache's are never skipped: a digital
\* channel is another one, and an analog one has another frequency.
LEMMA OtherModeIsOther ==
  ASSUME NEW s \in States, NEW p \in Parameters, s.paras # None,
         Known(p), Known(s.paras), p.mode # s.paras.mode
  PROVE  ~Same(s, p, FALSE)
  BY FrontEndAssumption DEF FrontEndAssumption, States, Same, Known, Dev

-----------------------------------------------------------------------------
(* The inductive invariant. *)

Ends(L) == \E i \in 1..Len(L) : L[i].op = "close"

\* An operation that asks for a mode tunes to a channel of that mode in the
\* end; one that asks for AUTO by setMode closes the frontend later, or scans,
\* and does not tune.  What is tuned comes last.
GoesOn(c, L) == c.op \in {"open", "mode"} /\ c.mode # "AUTO" =>
    L # <<>> /\ L[Len(L)].op = "para" /\ L[Len(L)].para.mode = c.mode

Plan(L, scan) ==
    \A i \in 1..Len(L) :
      /\ GoesOn(L[i], L)
      /\ L[i].op = "mode" /\ L[i].mode = "AUTO" =>
           /\ scan \/ \E j \in 1..Len(L) : j > i /\ L[j].op = "close"
           /\ L[Len(L)].op # "para"
      /\ L[i].op = "para" => Known(L[i].para) /\ i = Len(L)

\* Without the lock only AUTO is asked for, which disturbs nothing.
Harmless(L) ==
    \A i \in 1..Len(L) : \/ L[i].op = "open" /\ L[i].mode = "AUTO"
                         \/ L[i].op = "para" /\ Known(L[i].para) /\ i = Len(L)

WillTune(s, L) ==
    L # <<>> /\ L[Len(L)].op = "para" /\ ~Same(s, L[Len(L)].para, FALSE)

Mended(s, L, scan) == Lost(s) => scan \/ Ends(L) \/ WillTune(s, L)

IInv ==
    /\ Sound(f) /\ (f.paras # None => Known(f.paras))
    /\ \A d \in Devices : f.tuned[d] # None => Known(f.tuned[d])
    /\ todo \in [Threads -> Seq(Calls)] /\ scanning \in BOOLEAN
    /\ Plan(todo["locked"], scanning) /\ Harmless(todo["unlocked"])
    /\ Mended(f, todo["locked"], scanning)

-----------------------------------------------------------------------------
(* Sequences of calls. *)

LEMMA CallFacts ==
  /\ \A m \in Modes : /\ OpenCall(m) \in Calls /\ OpenCall(m).op = "open" /\ OpenCall(m).mode = m
                      /\ ModeCall(m) \in Calls /\ ModeCall(m).op = "mode" /\ ModeCall(m).mode = m
  /\ CloseCall \in Calls /\ CloseCall.op = "close"
  /\ \A p \in Parameters, b \in BOOLEAN :
        /\ ParaCall(p, b) \in Calls /\ ParaCall(p, b).op = "para"
        /\ ParaCall(p, b).para = p /\ ParaCall(p, b).force = b
  /\ \A c \in Calls : \/ c.op \in {"open", "mode"} /\ c.mode \in Modes
                      \/ c.op = "close"
                      \/ c.op = "para" /\ c.para \in Parameters /\ c.force \in BOOLEAN
  BY DEF OpenCall, ModeCall, CloseCall, ParaCall, Calls

LEMMA Pair == ASSUME NEW a, NEW b PROVE <<a>> \o <<b>> = <<a, b>>
  <1> DEFINE S == {a, b}
  <1>1. <<a>> \in Seq(S) /\ <<b>> \in Seq(S) /\ <<a, b>> \in Seq(S) OBVIOUS
  <1>2. Len(<<a>>) = 1 /\ Len(<<b>>) = 1 /\ Len(<<a, b>>) = 2 OBVIOUS
  <1>3. <<a>> \o <<b>> \in Seq(S) /\ Len(<<a>> \o <<b>>) = 2
    BY <1>1, <1>2, ConcatProperties
  <1>4. \A i \in 1..2 : (<<a>> \o <<b>>)[i] = <<a, b>>[i] BY <1>1, <1>2, ConcatProperties
  <1> QED BY <1>1, <1>2, <1>3, <1>4, SeqEqual

LEMMA Triple == ASSUME NEW a, NEW b, NEW c PROVE <<a>> \o <<b, c>> = <<a, b, c>>
  <1> DEFINE S == {a, b, c}
  <1>1. <<a>> \in Seq(S) /\ <<b, c>> \in Seq(S) /\ <<a, b, c>> \in Seq(S) OBVIOUS
  <1>2. Len(<<a>>) = 1 /\ Len(<<b, c>>) = 2 /\ Len(<<a, b, c>>) = 3 OBVIOUS
  <1>3. <<a>> \o <<b, c>> \in Seq(S) /\ Len(<<a>> \o <<b, c>>) = 3
    BY <1>1, <1>2, ConcatProperties
  <1>4. \A i \in 1..3 : (<<a>> \o <<b, c>>)[i] = <<a, b, c>>[i]
    BY <1>1, <1>2, ConcatProperties
  <1> QED BY <1>1, <1>2, <1>3, <1>4, SeqEqual

LEMMA TailFacts ==
  ASSUME NEW L \in Seq(Calls), L # <<>>
  PROVE  /\ Head(L) = L[1] /\ Head(L) \in Calls /\ Tail(L) \in Seq(Calls)
         /\ Len(L) \in Nat /\ Len(L) > 0 /\ Len(Tail(L)) = Len(L) - 1
         /\ \A i \in 1..Len(Tail(L)) : Tail(L)[i] = L[i + 1]
         /\ Tail(L) # <<>> => Tail(L)[Len(Tail(L))] = L[Len(L)]
         /\ Tail(L) = <<>> => Len(L) = 1
  <1>1. Head(L) = L[1] /\ Tail(L) \in Seq(Calls) /\ Len(Tail(L)) = Len(L) - 1 OBVIOUS
  <1>2. Len(L) \in Nat /\ Len(L) > 0 OBVIOUS
  <1>3. \A i \in 1..Len(Tail(L)) : Tail(L)[i] = L[i + 1] OBVIOUS
  <1>4. Head(L) \in Calls BY <1>1, <1>2
  <1>5. Tail(L) # <<>> => Len(Tail(L)) \in 1..Len(Tail(L)) BY <1>1, EmptySeq
  <1>6. Tail(L) # <<>> => Tail(L)[Len(Tail(L))] = L[Len(L)] BY <1>1, <1>2, <1>3, <1>5
  <1>7. Tail(L) = <<>> => Len(Tail(L)) = 0 BY EmptySeq
  <1> QED BY <1>1, <1>2, <1>3, <1>4, <1>6, <1>7

LEMMA ConsFacts ==
  ASSUME NEW c \in Calls, NEW L \in Seq(Calls)
  PROVE  LET M == <<c>> \o L
         IN  /\ M \in Seq(Calls) /\ M # <<>> /\ Len(M) = Len(L) + 1 /\ M[1] = c
             /\ \A i \in 1..Len(L) : M[i + 1] = L[i]
             /\ \A i \in 2..Len(M) : M[i] = L[i - 1] /\ i - 1 \in 1..Len(L)
             /\ L # <<>> => M[Len(M)] = L[Len(L)]
  <1> DEFINE M == <<c>> \o L
  <1>1. M \in Seq(Calls) /\ Len(M) = Len(L) + 1 /\ Len(L) \in Nat OBVIOUS
  <1>2. M[1] = c OBVIOUS
  <1>3. \A i \in 1..Len(M) : i > 1 => M[i] = L[i - 1] OBVIOUS
  <1> HIDE DEF M
  <1>4. M # <<>> BY <1>1
  <1>5. \A i \in 1..Len(L) : i + 1 \in 1..Len(M) /\ i + 1 > 1 BY <1>1
  <1>6. \A i \in 1..Len(L) : M[i + 1] = L[i] BY <1>3, <1>5
  <1>7. \A i \in 2..Len(M) : M[i] = L[i - 1] /\ i - 1 \in 1..Len(L) BY <1>1, <1>3
  <1>8. L # <<>> => M[Len(M)] = L[Len(L)]
    <2>1. L # <<>> => Len(L) \in 1..Len(L) OBVIOUS
    <2> QED BY <1>1, <1>6, <2>1
  <1> QED BY <1>1, <1>2, <1>4, <1>6, <1>7, <1>8 DEF M

LEMMA PlanTail ==
  ASSUME NEW L \in Seq(Calls), L # <<>>, NEW scan, Plan(L, scan)
  PROVE  Plan(Tail(L), scan)
  <1> SUFFICES ASSUME NEW i \in 1..Len(Tail(L))
               PROVE  LET c == Tail(L)[i] IN
                      /\ GoesOn(c, Tail(L))
                      /\ c.op = "mode" /\ c.mode = "AUTO" =>
                           /\ scan \/ \E j \in 1..Len(Tail(L)) : j > i /\ Tail(L)[j].op = "close"
                           /\ Tail(L)[Len(Tail(L))].op # "para"
                      /\ c.op = "para" => Known(c.para) /\ i = Len(Tail(L))
    BY DEF Plan
  <1>1. i + 1 \in 1..Len(L) /\ Tail(L)[i] = L[i + 1] /\ Tail(L) # <<>> BY TailFacts
  <1>2. GoesOn(Tail(L)[i], Tail(L)) BY <1>1, TailFacts DEF Plan, GoesOn
  <1>3. ASSUME NEW j \in 1..Len(L), j > i + 1, L[j].op = "close"
        PROVE  \E k \in 1..Len(Tail(L)) : k > i /\ Tail(L)[k].op = "close"
    <2>1. j - 1 \in 1..Len(Tail(L)) /\ j - 1 > i /\ Tail(L)[j - 1] = L[j]
      BY <1>3, TailFacts
    <2> QED BY <1>3, <2>1
  <1>4. Tail(L)[Len(Tail(L))] = L[Len(L)] /\ (i + 1 = Len(L) => i = Len(Tail(L)))
    BY <1>1, TailFacts
  <1> QED BY <1>1, <1>2, <1>3, <1>4 DEF Plan

LEMMA PlanCons ==
  ASSUME NEW L \in Seq(Calls), NEW c \in Calls, NEW scan, Plan(L, scan),
         GoesOn(c, L) /\ c.op # "para",
         c.op = "mode" /\ c.mode = "AUTO" =>
            L # <<>> /\ L[Len(L)].op # "para" /\ (scan \/ Ends(L))
  PROVE  Plan(<<c>> \o L, scan) /\ <<c>> \o L \in Seq(Calls)
  <1> DEFINE M == <<c>> \o L
  <1>1. /\ M \in Seq(Calls) /\ M # <<>> /\ Len(M) = Len(L) + 1 /\ M[1] = c
        /\ \A i \in 1..Len(L) : M[i + 1] = L[i]
        /\ \A i \in 2..Len(M) : M[i] = L[i - 1] /\ i - 1 \in 1..Len(L)
        /\ L # <<>> => M[Len(M)] = L[Len(L)]
    BY ConsFacts
  <1> HIDE DEF M
  <1>2. \A i \in 1..Len(L) : L[i].op = "close" =>
           i + 1 \in 1..Len(M) /\ M[i + 1].op = "close"
    BY <1>1
  <1>3. ASSUME NEW i \in 1..Len(M) PROVE GoesOn(M[i], M)
    <2>1. CASE i = 1 BY <1>1, <2>1 DEF GoesOn
    <2>2. CASE i # 1
      <3>1. i - 1 \in 1..Len(L) /\ M[i] = L[i - 1] /\ L # <<>> BY <1>1, <2>2
      <3>2. GoesOn(L[i - 1], L) BY <3>1 DEF Plan
      <3> QED BY <1>1, <3>1, <3>2 DEF GoesOn
    <2> QED BY <2>1, <2>2
  <1>4. ASSUME NEW i \in 1..Len(M), M[i].op = "mode", M[i].mode = "AUTO"
        PROVE  /\ scan \/ \E j \in 1..Len(M) : j > i /\ M[j].op = "close"
               /\ M[Len(M)].op # "para"
    <2>1. CASE i = 1
      <3>1. scan \/ \E k \in 1..Len(L) : L[k].op = "close" BY <1>1, <1>4, <2>1 DEF Ends
      <3>2. \A k \in 1..Len(L) : k + 1 > 1 OBVIOUS
      <3> QED BY <1>1, <1>2, <1>4, <2>1, <3>1, <3>2
    <2>2. CASE i # 1
      <3>1. i - 1 \in 1..Len(L) /\ M[i] = L[i - 1] BY <1>1, <2>2
      <3>2. /\ scan \/ \E k \in 1..Len(L) : k > i - 1 /\ L[k].op = "close"
            /\ L[Len(L)].op # "para" /\ L # <<>>
        BY <1>4, <3>1 DEF Plan
      <3>3. \A k \in 1..Len(L) : k > i - 1 => k + 1 > i OBVIOUS
      <3> QED BY <1>1, <1>2, <3>2, <3>3
    <2> QED BY <2>1, <2>2
  <1>5. ASSUME NEW i \in 1..Len(M), M[i].op = "para" PROVE Known(M[i].para) /\ i = Len(M)
    <2>1. i # 1 BY <1>1, <1>5
    <2>2. i - 1 \in 1..Len(L) /\ M[i] = L[i - 1] BY <1>1, <2>1
    <2> QED BY <1>1, <1>5, <2>2 DEF Plan
  <1>6. Plan(M, scan) BY <1>3, <1>4, <1>5 DEF Plan
  <1> QED BY <1>1, <1>6 DEF M
-----------------------------------------------------------------------------
(* The operations have plans. *)

LEMMA ThereAndBack == \A s \in Existing : ViaWord(s) = s
  <1> SUFFICES ASSUME NEW s \in Existing PROVE ViaWord(s) = s OBVIOUS
  <1> DEFINE v == s.video
             a == s.audio
             w == enumToStdAndColor(v, a)
  <1>1. v \in {"PAL", "NTSC", "SECAM"} /\ a \in Audios /\ SoundBits(v, a) # {}
    BY DEF Existing, Videos
  <1>2. stdAndColorToVideoEnum(w) = v
    BY <1>1 DEF enumToStdAndColor, Colour, SoundBits, stdAndColorToVideoEnum, Audios,
           PAL_DK, PAL_BG, PAL_I, PAL_M, NTSC_M, SECAM_DK, SECAM_L, SECAM_LC
  <1>3. stdAndColorToAudioEnum(w) = a
    BY <1>1 DEF enumToStdAndColor, Colour, SoundBits, stdAndColorToAudioEnum, Audios,
           PAL_DK, PAL_BG, PAL_I, PAL_M, NTSC_M, SECAM_DK, SECAM_L, SECAM_LC
  <1>4. s = [video |-> v, audio |-> a] BY DEF Existing
  <1> QED BY <1>2, <1>3, <1>4 DEF ViaWord

LEMMA ConvertedKnown ==
  ASSUME NEW p \in Paras
  PROVE  /\ p \in Parameters /\ Known(p)
         /\ Converted(p) \in Parameters /\ Known(Converted(p)) /\ Converted(p).mode = p.mode
  <1>1. p \in Parameters BY FrontEndAssumption DEF FrontEndAssumption
  <1>2. ViaWord(p.std) \in [video : Videos, audio : Audios]
    BY DEF ViaWord, stdAndColorToVideoEnum, stdAndColorToAudioEnum, Videos, Audios
  <1>3. Converted(p) \in Parameters BY <1>1, <1>2 DEF Converted, Parameters
  <1>4. Converted(p).mode = p.mode /\ Converted(p).freq = p.freq
    BY <1>1 DEF Converted, Parameters
  <1>5. RealStandards => Converted(p) = p
    BY <1>1, ThereAndBack DEF RealStandards, Converted, Parameters
  <1> QED BY <1>1, <1>3, <1>4, <1>5 DEF Known

\* The plans are put together from their ends.
LEMMA EndPlans ==
  /\ \A scan : Plan(<<>>, scan) /\ <<>> \in Seq(Calls)
  /\ \A scan : Plan(<<CloseCall>>, scan) /\ <<CloseCall>> \in Seq(Calls) /\ Ends(<<CloseCall>>)
  /\ \A scan : \A p \in Parameters, b \in BOOLEAN :
        Known(p) => /\ Plan(<<ParaCall(p, b)>>, scan) /\ <<ParaCall(p, b)>> \in Seq(Calls)
                    /\ Harmless(<<ParaCall(p, b)>>)
  BY CallFacts DEF Plan, GoesOn, Ends, Harmless

LEMMA TunePlan ==
  ASSUME NEW p \in Parameters, Known(p), NEW b \in BOOLEAN, NEW scan,
         NEW c \in {OpenCall(p.mode), ModeCall(p.mode)}
  PROVE  /\ Plan(<<c, ParaCall(p, b)>>, scan)
         /\ <<c, ParaCall(p, b)>> \in Seq(Calls)
  <1> DEFINE L == <<ParaCall(p, b)>>
  <1>1. Plan(L, scan) /\ L \in Seq(Calls) BY EndPlans
  <1>2. L # <<>> /\ L[Len(L)] = ParaCall(p, b) OBVIOUS
  <1>3. /\ c \in Calls /\ c.op \in {"open", "mode"} /\ c.mode = p.mode /\ p.mode # "AUTO"
        /\ ParaCall(p, b).op = "para" /\ ParaCall(p, b).para = p
    BY CallFacts, ModeFacts
  <1>4. <<c>> \o L = <<c, ParaCall(p, b)>> BY Pair
  <1> HIDE DEF L
  <1> QED BY <1>1, <1>2, <1>3, <1>4, PlanCons DEF GoesOn

LEMMA AutoPlan ==
  ASSUME NEW L \in Seq(Calls), NEW scan, Plan(L, scan)
  PROVE  /\ Plan(<<OpenCall("AUTO")>> \o L, scan) /\ <<OpenCall("AUTO")>> \o L \in Seq(Calls)
         /\ Plan(<<CloseCall>> \o L, scan) /\ <<CloseCall>> \o L \in Seq(Calls)
         /\ Ends(<<CloseCall>> \o L)
  <1>1. OpenCall("AUTO") \in Calls /\ OpenCall("AUTO").op = "open" /\ OpenCall("AUTO").mode = "AUTO"
    BY CallFacts, ModeFacts
  <1>2. CloseCall \in Calls /\ CloseCall.op = "close" BY CallFacts
  <1>3. Plan(<<OpenCall("AUTO")>> \o L, scan) /\ <<OpenCall("AUTO")>> \o L \in Seq(Calls)
    BY <1>1, PlanCons DEF GoesOn
  <1>4. Plan(<<CloseCall>> \o L, scan) /\ <<CloseCall>> \o L \in Seq(Calls)
    BY <1>2, PlanCons DEF GoesOn
  <1>5. Ends(<<CloseCall>> \o L) BY <1>2, ConsFacts DEF Ends
  <1> QED BY <1>3, <1>4, <1>5

LEMMA LockedBegins ==
  ASSUME IInv, NEW L \in Seq(Calls), NEW scan \in BOOLEAN, Plan(L, scan),
         Begin("locked", L, scan), scanning => scan \/ Ends(L)
  PROVE  IInv'
  <1>1. /\ f' = f /\ scanning' = scan /\ todo["locked"] = <<>>
        /\ todo' = [todo EXCEPT !["locked"] = L]
    BY DEF Begin
  <1>2. todo' \in [Threads -> Seq(Calls)] /\ todo'["locked"] = L /\ todo'["unlocked"] = todo["unlocked"]
    BY <1>1 DEF IInv, Threads
  <1>3. Lost(f) => scanning BY <1>1 DEF IInv, Mended, Ends, WillTune
  <1>4. Mended(f, L, scan) BY <1>3 DEF Mended
  <1> QED BY <1>1, <1>2, <1>4 DEF IInv

LEMMA UnlockedBegins ==
  ASSUME IInv, NEW L \in Seq(Calls), Harmless(L), Begin("unlocked", L, scanning)
  PROVE  IInv'
  <1>1. f' = f /\ scanning' = scanning /\ todo' = [todo EXCEPT !["unlocked"] = L]
    BY DEF Begin
  <1>2. todo' \in [Threads -> Seq(Calls)] /\ todo'["locked"] = todo["locked"] /\ todo'["unlocked"] = L
    BY <1>1 DEF IInv, Threads
  <1> QED BY <1>1, <1>2 DEF IInv

\* The close that ends a scan comes before whatever else is planned.
LEMMA EndScanPlan ==
  ASSUME NEW L \in Seq(Calls), NEW scan, Plan(L, scan)
  PROVE  /\ Plan(EndScanCalls \o L, scan) /\ EndScanCalls \o L \in Seq(Calls)
         /\ scanning => Ends(EndScanCalls \o L)
  <1>1. CASE scanning BY <1>1, AutoPlan DEF EndScanCalls
  <1>2. CASE ~scanning
    <2>1. <<>> \o L = L OBVIOUS
    <2> QED BY <1>2, <2>1 DEF EndScanCalls
  <1> QED BY <1>1, <1>2

LEMMA OperationsPlan ==
  ASSUME IInv,
         \/ playDtvProgram \/ playAtvProgram \/ setFrontEnd
         \/ SetSourceSwitchInput \/ Scan \/ stopScan \/ StopTv
  PROVE  IInv'
  <1>1. CASE playDtvProgram
    <2>1. PICK p \in Paras, same \in BOOLEAN :
            Begin("locked",
                  EndScanCalls \o (IF same THEN <<>> ELSE <<OpenCall("AUTO")>>)
                      \o <<OpenCall(p.mode), ParaCall(p, FALSE)>>,
                  FALSE)
      BY <1>1 DEF playDtvProgram
    <2> DEFINE L == <<OpenCall(p.mode), ParaCall(p, FALSE)>>
               M == (IF same THEN <<>> ELSE <<OpenCall("AUTO")>>) \o L
    <2>2. Plan(L, FALSE) /\ L \in Seq(Calls) BY ConvertedKnown, TunePlan
    <2>3. EndScanCalls \in Seq(Calls) BY CallFacts DEF EndScanCalls
    <2>4. OpenCall("AUTO") \in Calls BY CallFacts, ModeFacts
    <2> HIDE DEF L
    <2>5. Plan(M, FALSE) /\ M \in Seq(Calls)
      <3>1. <<>> \o L = L BY <2>2
      <3> QED BY <2>2, <3>1, AutoPlan
    <2>6. EndScanCalls \o (IF same THEN <<>> ELSE <<OpenCall("AUTO")>>) \o L = EndScanCalls \o M
      <3> DEFINE X == IF same THEN <<>> ELSE <<OpenCall("AUTO")>>
      <3>1. X \in Seq(Calls) BY <2>4
      <3> HIDE DEF X
      <3>2. (EndScanCalls \o X) \o L = EndScanCalls \o (X \o L)
        BY <2>2, <2>3, <3>1, ConcatAssociative
      <3> QED BY <3>2 DEF X
    <2> HIDE DEF M
    <2>7. Begin("locked", EndScanCalls \o M, FALSE) BY <2>1, <2>6 DEF L
    <2> QED BY <2>5, <2>7, EndScanPlan, LockedBegins
  <1>2. CASE playAtvProgram
    <2>1. PICK p \in Paras :
            /\ p.mode = "ANALOG"
            /\ Begin("locked", EndScanCalls \o <<OpenCall("AUTO"), OpenCall("ANALOG"),
                                                 ParaCall(Converted(p), FALSE)>>, FALSE)
      BY <1>2 DEF playAtvProgram
    <2> DEFINE L == <<OpenCall("ANALOG"), ParaCall(Converted(p), FALSE)>>
               M == <<OpenCall("AUTO"), OpenCall("ANALOG"), ParaCall(Converted(p), FALSE)>>
    <2>2. Plan(L, FALSE) /\ L \in Seq(Calls) BY <2>1, ConvertedKnown, TunePlan
    <2>3. <<OpenCall("AUTO")>> \o L = M BY Triple
    <2> HIDE DEF L
    <2>4. Plan(M, FALSE) /\ M \in Seq(Calls) BY <2>2, <2>3, AutoPlan
    <2> QED BY <2>1, <2>4, EndScanPlan, LockedBegins
  <1>3. CASE setFrontEnd
    <2>1. PICK p \in Paras, force \in BOOLEAN :
            /\ ~scanning
            /\ Begin("locked", <<OpenCall("AUTO"), ModeCall(p.mode), ParaCall(p, force)>>, FALSE)
      BY <1>3 DEF setFrontEnd
    <2> DEFINE L == <<ModeCall(p.mode), ParaCall(p, force)>>
               M == <<OpenCall("AUTO"), ModeCall(p.mode), ParaCall(p, force)>>
    <2>2. Plan(L, FALSE) /\ L \in Seq(Calls) BY ConvertedKnown, TunePlan
    <2>3. <<OpenCall("AUTO")>> \o L = M BY Triple
    <2> HIDE DEF L
    <2>4. Plan(M, FALSE) /\ M \in Seq(Calls) BY <2>2, <2>3, AutoPlan
    <2> QED BY <2>1, <2>4, LockedBegins
  <1>4. CASE SetSourceSwitchInput
    <2>1. PICK c \in {OpenCall("AUTO"), CloseCall} : Begin("locked", EndScanCalls \o <<c>>, FALSE)
      BY <1>4 DEF SetSourceSwitchInput
    <2>2. Plan(<<c>>, FALSE) /\ <<c>> \in Seq(Calls)
      <3>1. <<OpenCall("AUTO")>> \o <<>> = <<OpenCall("AUTO")>> OBVIOUS
      <3> QED BY <3>1, AutoPlan, EndPlans
    <2> QED BY <2>1, <2>2, EndScanPlan, LockedBegins
  <1>5. CASE Scan
    <2>1. PICK L \in {<<ModeCall("AUTO"), OpenCall("AUTO")>>, <<>>} : Begin("locked", L, TRUE)
      BY <1>5 DEF Scan
    <2>2. Plan(L, TRUE) /\ L \in Seq(Calls)
      <3> DEFINE M == <<OpenCall("AUTO")>>
      <3>1. M \o <<>> = M OBVIOUS
      <3>2. Plan(M, TRUE) /\ M \in Seq(Calls) BY <3>1, AutoPlan, EndPlans
      <3>3. ModeCall("AUTO") \in Calls /\ ModeCall("AUTO").op = "mode" /\ ModeCall("AUTO").mode = "AUTO"
        BY CallFacts, ModeFacts
      <3>4. <<ModeCall("AUTO")>> \o M = <<ModeCall("AUTO"), OpenCall("AUTO")>> BY Pair
      <3>5. M # <<>> /\ M[Len(M)].op # "para" BY CallFacts, ModeFacts
      <3> HIDE DEF M
      <3>6. Plan(<<ModeCall("AUTO")>> \o M, TRUE) /\ <<ModeCall("AUTO")>> \o M \in Seq(Calls)
        BY <3>2, <3>3, <3>5, PlanCons DEF GoesOn
      <3> QED BY <3>4, <3>6, EndPlans
    <2> QED BY <2>1, <2>2, LockedBegins
  <1>6. CASE stopScan
    BY <1>6, EndPlans, LockedBegins DEF stopScan
  <1>7. CASE StopTv
    <2> DEFINE L == <<CloseCall>>
    <2>1. /\ Plan(L, FALSE) /\ L \in Seq(Calls) /\ Ends(L)
          /\ L # <<>> /\ L[Len(L)].op # "para"
      BY EndPlans, CallFacts
    <2>2. ModeCall("AUTO") \in Calls /\ ModeCall("AUTO").op = "mode" /\ ModeCall("AUTO").mode = "AUTO"
      BY CallFacts, ModeFacts
    <2>3. <<ModeCall("AUTO")>> \o L = <<ModeCall("AUTO"), CloseCall>> BY Pair
    <2> HIDE DEF L
    <2>4. /\ Plan(<<ModeCall("AUTO"), CloseCall>>, FALSE)
          /\ <<ModeCall("AUTO"), CloseCall>> \in Seq(Calls)
      BY <2>1, <2>2, <2>3, PlanCons DEF GoesOn
    <2>5. Ends(<<ModeCall("AUTO"), CloseCall>>) BY CallFacts DEF Ends
    <2> QED BY <1>7, <2>4, <2>5, LockedBegins DEF StopTv
  <1> QED BY <1>1, <1>2, <1>3, <1>4, <1>5, <1>6, <1>7

LEMMA UnlockedPlan ==
  ASSUME IInv, resetFrontEndPara \/ operateDeviceForScan
  PROVE  IInv'
  <1>1. /\ OpenCall("AUTO") \in Calls /\ OpenCall("AUTO").op = "open"
        /\ OpenCall("AUTO").mode = "AUTO"
    BY CallFacts, ModeFacts
  <1>2. CASE resetFrontEndPara
    <2>1. PICK p \in Paras :
            Begin("unlocked", <<OpenCall("AUTO"), ParaCall(Converted(p), FALSE)>>, scanning)
      BY <1>2 DEF resetFrontEndPara
    <2>2. /\ ParaCall(Converted(p), FALSE) \in Calls
          /\ ParaCall(Converted(p), FALSE).op = "para"
          /\ Known(ParaCall(Converted(p), FALSE).para)
      <3>1. Converted(p) \in Parameters /\ Known(Converted(p)) BY ConvertedKnown
      <3> QED BY <3>1, CallFacts
    <2>3. /\ Harmless(<<OpenCall("AUTO"), ParaCall(Converted(p), FALSE)>>)
          /\ <<OpenCall("AUTO"), ParaCall(Converted(p), FALSE)>> \in Seq(Calls)
      <3> DEFINE a == OpenCall("AUTO")
                 b == ParaCall(Converted(p), FALSE)
      <3>1. Len(<<a, b>>) = 2 /\ <<a, b>>[1] = a /\ <<a, b>>[2] = b OBVIOUS
      <3>2. \A i \in 1..2 : i = 1 \/ i = 2 OBVIOUS
      <3>3. a \in Calls /\ b \in Calls BY <1>1, <2>2
      <3> HIDE DEF a, b
      <3>4. <<a, b>> \in Seq(Calls) BY <3>3
      <3>5. Harmless(<<a, b>>) BY <1>1, <2>2, <3>1, <3>2 DEF Harmless, a, b
      <3> QED BY <3>4, <3>5 DEF a, b
    <2> QED BY <2>1, <2>3, UnlockedBegins
  <1>3. CASE operateDeviceForScan
    <2>1. Harmless(<<OpenCall("AUTO")>>) /\ <<OpenCall("AUTO")>> \in Seq(Calls)
      BY <1>1 DEF Harmless
    <2> QED BY <1>3, <2>1, UnlockedBegins DEF operateDeviceForScan
  <1> QED BY <1>2, <1>3
-----------------------------------------------------------------------------
(* The calls. *)

\* A call of the locked thread leaves the cache true, or the plan mends it.
LEMMA LockedCall ==
  ASSUME IInv, Call("locked")
  PROVE  IInv'
  <1> DEFINE L == todo["locked"]
             h == Head(L)
  <1>1. PICK ok \in [Devices -> BOOLEAN] : f' = Apply(h, ok) BY DEF Call
  <1>2. L # <<>> /\ L \in Seq(Calls) BY DEF Call, IInv, Threads
  <1>3. /\ scanning' = scanning /\ todo' \in [Threads -> Seq(Calls)]
        /\ todo'["locked"] = Tail(L) /\ todo'["unlocked"] = todo["unlocked"]
    BY <1>2, TailFacts DEF Call, IInv, Threads
  <1>4. Plan(L, scanning) /\ Mended(f, L, scanning) /\ Sound(f) /\ Harmless(todo["unlocked"])
    BY DEF IInv
  <1>5. f.paras # None => Known(f.paras) /\ f.paras \in Parameters
    BY DEF IInv, Sound, States
  <1>0. \A d \in Devices : f.tuned[d] # None => Known(f.tuned[d]) BY DEF IInv
  <1> HIDE DEF L
  <1>6. Plan(Tail(L), scanning) BY <1>2, <1>4, PlanTail
  <1>7. h \in Calls /\ h = L[1] /\ 1 \in 1..Len(L) BY <1>2, TailFacts
  <1>8. \A i \in 2..Len(L) : i - 1 \in 1..Len(Tail(L)) /\ Tail(L)[i - 1] = L[i]
    BY <1>2, TailFacts
  <1>9. ASSUME h.op # "close", Ends(L) PROVE Ends(Tail(L))
    <2>1. PICK i \in 1..Len(L) : L[i].op = "close" BY <1>9 DEF Ends
    <2>2. i \in 2..Len(L) BY <1>2, <1>7, <1>9, <2>1, TailFacts
    <2> QED BY <1>8, <2>1, <2>2 DEF Ends
  <1>10. ASSUME h.op # "para", L[Len(L)].op = "para"
         PROVE  Tail(L) # <<>> /\ Tail(L)[Len(Tail(L))] = L[Len(L)]
    BY <1>2, <1>7, <1>10, TailFacts
  <1>11. CASE h.op \in {"open", "mode"}
    <2>1. h.mode \in Modes BY <1>7, <1>11, CallFacts
    <2>2. /\ Sound(f') /\ KeepsMode(f, f', h.mode)
          /\ h.op = "open" /\ h.mode = "AUTO" => \A n \in Modes : KeepsMode(f, f', n)
      BY <1>1, <1>4, <1>11, <2>1, OpenKeeps, SetModeKeeps DEF Apply
    <2>3. f'.paras = f.paras /\ f'.failed = f.failed BY <2>2 DEF KeepsMode
    <2>4. ASSUME Lost(f), WillTune(f, L) PROVE WillTune(f', Tail(L))
      BY <1>10, <1>11, <2>3, <2>4 DEF WillTune, Same
    <2>5. ASSUME Lost(f'), ~Lost(f)
          PROVE  scanning \/ Ends(Tail(L)) \/ WillTune(f', Tail(L))
      <3>1. /\ f.paras # None /\ f.paras \in Parameters /\ Known(f.paras)
            /\ f.tuned[Dev(f.paras)] = f.paras /\ f'.tuned[Dev(f.paras)] # f.paras
        BY <1>5, <2>3, <2>5 DEF Lost
      <3>2. Dev(f.paras) \in Devices /\ f.paras.mode \in Modes BY <3>1, ModeFacts
      <3>3. f.paras.mode # h.mode /\ ~(h.op = "open" /\ h.mode = "AUTO")
        BY <2>2, <3>1, <3>2 DEF KeepsMode
      <3>4. CASE h.mode = "AUTO"
        <4>1. scanning \/ \E j \in 1..Len(L) : j > 1 /\ L[j].op = "close"
          BY <1>4, <1>7, <1>11, <3>3, <3>4 DEF Plan
        <4> QED BY <1>9, <1>11, <4>1 DEF Ends
      <3>5. CASE h.mode # "AUTO"
        <4>1. L[Len(L)].op = "para" /\ L[Len(L)].para.mode = h.mode
          BY <1>4, <1>7, <1>11, <3>5 DEF Plan, GoesOn
        <4>2. Len(L) \in 1..Len(L) /\ L[Len(L)] \in Calls BY <1>2
        <4>3. L[Len(L)].para \in Parameters /\ Known(L[Len(L)].para)
          BY <1>4, <4>1, <4>2, CallFacts DEF Plan
        <4>4. f' \in States BY <2>2 DEF Sound
        <4>5. ~Same(f', L[Len(L)].para, FALSE)
          BY <2>3, <3>1, <3>3, <4>1, <4>3, <4>4, OtherModeIsOther
        <4> QED BY <1>10, <1>11, <4>1, <4>5 DEF WillTune
      <3> QED BY <3>4, <3>5
    <2>6. Mended(f', Tail(L), scanning)
      BY <1>4, <1>9, <1>11, <2>4, <2>5 DEF Mended
    <2>7. \A d \in Devices : f'.tuned[d] # None => Known(f'.tuned[d])
      BY <1>0, <2>2 DEF KeepsMode
    <2> QED BY <1>3, <1>4, <1>5, <1>6, <2>2, <2>3, <2>6, <2>7 DEF IInv
  <1>12. CASE h.op = "close"
    <2>1. Sound(f') /\ f'.paras = None /\ \A d \in Devices : f'.tuned[d] = None
      BY <1>1, <1>4, <1>12, CloseForgets DEF Apply
    <2> QED BY <1>3, <1>4, <1>6, <2>1 DEF IInv, Mended, Lost
  <1>13. CASE h.op = "para"
    <2>1. h.para \in Parameters /\ h.force \in BOOLEAN /\ Known(h.para)
      BY <1>4, <1>7, <1>13, CallFacts DEF Plan
    <2>2. f' = setPara(f, h.para, h.force, ok) BY <1>1, <1>13 DEF Apply
    <2>3. Sound(f') BY <1>4, <2>1, <2>2, SetParaTunes
    <2>4. CASE ~Same(f, h.para, h.force)
      <3>1. f'.paras = h.para /\ ~Lost(f') BY <1>4, <2>1, <2>2, <2>4, SetParaTunes
      <3>2. \A d \in Devices : f'.tuned[d] # None => Known(f'.tuned[d])
        BY <1>4, <1>0, <2>1, <2>2, SetParaTunes
      <3> QED BY <1>3, <1>4, <1>6, <2>1, <2>3, <3>1, <3>2 DEF IInv, Mended
    <2>5. CASE Same(f, h.para, h.force)
      <3>1. f' = f BY <1>4, <2>1, <2>2, <2>5, SetParaTunes
      <3>2. Same(f, h.para, FALSE) BY <2>5 DEF Same
      <3>3. WillTune(f, L) => WillTune(f, Tail(L))
        <4>1. SUFFICES ASSUME WillTune(f, L) PROVE WillTune(f, Tail(L)) OBVIOUS
        <4>2. Len(L) # 1 BY <1>7, <3>2, <4>1 DEF WillTune
        <4>3. Tail(L) # <<>> BY <1>2, <4>2, TailFacts
        <4> QED BY <1>2, <4>1, <4>3, TailFacts DEF WillTune
      <3>4. Mended(f', Tail(L), scanning) BY <1>4, <1>9, <1>13, <3>1, <3>3 DEF Mended
      <3> QED BY <1>3, <1>4, <1>5, <1>6, <2>3, <3>1, <3>4 DEF IInv
    <2> QED BY <2>4, <2>5
  <1> QED BY <1>7, <1>11, <1>12, <1>13, CallFacts

LEMMA UnlockedCall ==
  ASSUME IInv, Call("unlocked")
  PROVE  IInv'
  <1> DEFINE L == todo["unlocked"]
             h == Head(L)
  <1>1. PICK ok \in [Devices -> BOOLEAN] : f' = Apply(h, ok) BY DEF Call
  <1>2. L # <<>> /\ L \in Seq(Calls) BY DEF Call, IInv, Threads
  <1>3. /\ scanning' = scanning /\ todo' \in [Threads -> Seq(Calls)]
        /\ todo'["unlocked"] = Tail(L) /\ todo'["locked"] = todo["locked"]
    BY <1>2, TailFacts DEF Call, IInv, Threads
  <1>4. /\ Plan(todo["locked"], scanning) /\ Mended(f, todo["locked"], scanning)
        /\ Sound(f) /\ Harmless(L) /\ (f.paras # None => Known(f.paras))
    BY DEF IInv
  <1>0. \A d \in Devices : f.tuned[d] # None => Known(f.tuned[d]) BY DEF IInv
  <1> HIDE DEF L
  <1>5. h \in Calls /\ h = L[1] /\ 1 \in 1..Len(L) BY <1>2, TailFacts
  <1>6. Harmless(Tail(L))
    <2>1. \A i \in 1..Len(Tail(L)) :
             /\ i + 1 \in 1..Len(L) /\ Tail(L)[i] = L[i + 1]
             /\ i + 1 = Len(L) => i = Len(Tail(L))
      BY <1>2, TailFacts
    <2> QED BY <1>4, <2>1 DEF Harmless
  <1>7. CASE h.op = "open" /\ h.mode = "AUTO"
    <2>1. /\ Sound(f') /\ KeepsMode(f, f', "AUTO")
          /\ \A n \in Modes : KeepsMode(f, f', n)
      BY <1>1, <1>4, <1>7, OpenKeeps, ModeFacts DEF Apply
    <2>2. f'.paras = f.paras /\ f'.failed = f.failed BY <2>1 DEF KeepsMode
    <2>3. Lost(f') => Lost(f)
      <3>1. f.paras # None => Dev(f.paras) \in Devices /\ f.paras.mode \in Modes
        BY <1>4, ModeFacts DEF Sound, States
      <3> QED BY <2>1, <2>2, <3>1 DEF Lost, KeepsMode
    <2>4. Mended(f', todo["locked"], scanning)
      BY <1>4, <2>2, <2>3 DEF Mended, WillTune, Same
    <2>5. \A d \in Devices : f'.tuned[d] # None => Known(f'.tuned[d])
      BY <1>0, <2>1 DEF KeepsMode
    <2> QED BY <1>3, <1>4, <1>6, <2>1, <2>2, <2>4, <2>5 DEF IInv
  <1>8. CASE h.op = "para" /\ Known(h.para)
    <2>1. h.para \in Parameters /\ h.force \in BOOLEAN BY <1>5, <1>8, CallFacts
    <2>2. f' = setPara(f, h.para, h.force, ok) BY <1>1, <1>8 DEF Apply
    <2>3. Sound(f') BY <1>4, <2>1, <2>2, SetParaTunes
    <2>4. CASE ~Same(f, h.para, h.force)
      <3>1. f'.paras = h.para /\ ~Lost(f') BY <1>4, <2>1, <2>2, <2>4, SetParaTunes
      <3>2. \A d \in Devices : f'.tuned[d] # None => Known(f'.tuned[d])
        BY <1>4, <1>8, <1>0, <2>1, <2>2, SetParaTunes
      <3> QED BY <1>3, <1>4, <1>6, <1>8, <2>3, <3>1, <3>2 DEF IInv, Mended
    <2>5. CASE Same(f, h.para, h.force)
      <3>1. f' = f BY <1>4, <2>1, <2>2, <2>5, SetParaTunes
      <3> QED BY <1>3, <1>4, <1>6, <3>1 DEF IInv
    <2> QED BY <2>4, <2>5
  <1> QED BY <1>4, <1>5, <1>7, <1>8 DEF Harmless

-----------------------------------------------------------------------------
LEMMA InitIInv == Init => IInv
  <1> SUFFICES ASSUME Init PROVE IInv OBVIOUS
  <1>1. Sound(f) BY ModeFacts DEF Init, Sound, States, Chips
  <1>2. f.paras = None BY DEF Init
  <1>3. todo \in [Threads -> Seq(Calls)] /\ todo["locked"] = <<>> /\ todo["unlocked"] = <<>>
    BY DEF Init, Threads
  <1>4. Plan(<<>>, scanning) /\ Harmless(<<>>) BY DEF Plan, Harmless
  <1> QED BY <1>1, <1>2, <1>3, <1>4 DEF IInv, Mended, Lost, Init

LEMMA StepIInv == IInv /\ [Next]_vars => IInv'
  <1> SUFFICES ASSUME IInv, [Next]_vars PROVE IInv' OBVIOUS
  <1>1. CASE ScannerTunes
    <2>1. PICK d \in Devices : f' = [f EXCEPT !.tuned[d] = None] BY <1>1 DEF ScannerTunes
    <2>2. scanning /\ UNCHANGED <<todo, scanning>> BY <1>1 DEF ScannerTunes
    <2>3. Sound(f') BY <2>1 DEF IInv, Sound, States, Chips
    <2>4. f'.paras = f.paras BY <2>1 DEF IInv, Sound, States
    <2>5. \A e \in Devices : f'.tuned[e] \in {f.tuned[e], None}
      BY <2>1 DEF IInv, Sound, States
    <2> QED BY <2>2, <2>3, <2>4, <2>5 DEF IInv, Mended
  <1>2. CASE \E t \in Threads : Call(t) BY <1>2, LockedCall, UnlockedCall DEF Threads
  <1>3. CASE UNCHANGED vars BY <1>3 DEF vars, IInv
  <1> QED BY <1>1, <1>2, <1>3, OperationsPlan, UnlockedPlan DEF Next

\* CFrontEnd, its devices and the calls on their way have their types.
THEOREM TypeCorrect == Spec => []TypeOK
  <1>1. IInv => TypeOK BY DEF IInv, Sound, TypeOK
  <1> QED BY InitIInv, StepIInv, <1>1, PTL DEF Spec

\* What setPara would skip is what the device is tuned to, once no operation is
\* under way.
THEOREM CacheIsBacked == Spec => []CacheBacked
  <1>1. IInv => CacheBacked
    <2> SUFFICES ASSUME IInv, Quiet PROVE ~Lost(f) BY DEF CacheBacked, Lost
    <2>1. ~scanning /\ todo["locked"] = <<>> BY DEF Quiet, Threads
    <2>2. ~Ends(<<>>) /\ ~WillTune(f, <<>>) BY DEF Ends, WillTune
    <2> QED BY <2>1, <2>2 DEF IInv, Mended
  <1> QED BY InitIInv, StepIInv, <1>1, PTL DEF Spec

\* An analog channel is tuned in the standard that the client named, as long as
\* it names one that exists (convertParas, setPara).
THEOREM StandardsAreKept == ASSUME RealStandards PROVE Spec => []StandardKept
  <1>1. IInv => StandardKept BY DEF IInv, StandardKept, Known
  <1> QED BY InitIInv, StepIInv, <1>1, PTL DEF Spec

\* Outside a scan only its own calls shorten what a thread has to do.
LEMMA ReplayStep ==
  ASSUME IInv, Next, NEW t \in Threads, todo[t] # <<>>, todo'[t] # todo[t]
  PROVE  Call(t)
  <1>1. ASSUME NEW u \in Threads, NEW calls, NEW scans, Begin(u, calls, scans) PROVE FALSE
    BY <1>1 DEF Begin, IInv
  <1>2. \A u \in Threads : Call(u) => u = t BY DEF Call, IInv
  <1>3. ~ScannerTunes BY DEF ScannerTunes
  <1>4. "locked" \in Threads /\ "unlocked" \in Threads BY DEF Threads
  <1>5. ~(playDtvProgram \/ playAtvProgram \/ setFrontEnd)
    BY <1>1, <1>4 DEF playDtvProgram, playAtvProgram, setFrontEnd
  <1>6. ~(SetSourceSwitchInput \/ Scan \/ stopScan \/ StopTv)
    BY <1>1, <1>4 DEF SetSourceSwitchInput, Scan, stopScan, StopTv
  <1>7. ~(resetFrontEndPara \/ operateDeviceForScan)
    BY <1>1, <1>4 DEF resetFrontEndPara, operateDeviceForScan
  <1> QED BY <1>2, <1>3, <1>5, <1>6, <1>7 DEF Next

\* Asking again for the channel that is received leaves it alone, at each call
\* of the operation that asks (CFrontEnd::Open, setMode, setPara).
THEOREM ReplayIsQuiet == Spec => ReplayKeepsSignal
  <1> DEFINE A == \A t \in Threads :
          LET p == Last(todo[t]).para
          IN  /\ todo[t] # <<>> /\ todo'[t] # todo[t] /\ Last(todo[t]).op = "para"
              /\ ~scanning /\ \A u \in Threads \ {t} : todo[u] = <<>>
              /\ Head(todo[t]).op # "close" /\ ~Last(todo[t]).force
              /\ f.paras = p /\ f.tuned[Dev(p)] = p
              => f'.tuned[Dev(p)] = p
  <1>1. IInv /\ [Next]_vars => [A]_vars
    <2> SUFFICES ASSUME IInv, Next, NEW t \in Threads,
                        todo[t] # <<>>, todo'[t] # todo[t], Last(todo[t]).op = "para", ~scanning,
                        Head(todo[t]).op # "close", ~Last(todo[t]).force,
                        f.paras = Last(todo[t]).para,
                        f.tuned[Dev(Last(todo[t]).para)] = Last(todo[t]).para
                 PROVE  f'.tuned[Dev(Last(todo[t]).para)] = Last(todo[t]).para
      BY DEF vars
    <2> DEFINE L == todo[t]
               h == Head(L)
               p == Last(L).para
    <2>1. L \in Seq(Calls) /\ Last(L) = L[Len(L)] BY DEF IInv, Last
    <2>2. Len(L) \in 1..Len(L) /\ L[Len(L)] \in Calls /\ 1 \in 1..Len(L) BY <2>1
    <2>3. p \in Parameters BY <2>1, <2>2, CallFacts
    <2>4. Dev(p) \in Devices /\ p # None /\ p.mode \in Modes BY <2>3, ModeFacts
    <2>5. h = L[1] /\ h \in Calls BY <2>1, TailFacts
    <2>6. Call(t) BY ReplayStep
    <2>7. PICK ok \in [Devices -> BOOLEAN] : f' = Apply(h, ok) BY <2>6 DEF Call
    <2>8. Sound(f) BY DEF IInv
    <2>9. CASE h.op \in {"open", "mode"}
      <3>1. h.mode \in Modes BY <2>5, <2>9, CallFacts
      <3>2. /\ KeepsMode(f, f', h.mode)
            /\ h.op = "open" /\ h.mode = "AUTO" => \A n \in Modes : KeepsMode(f, f', n)
        BY <2>7, <2>8, <2>9, <3>1, OpenKeeps, SetModeKeeps DEF Apply
      <3>3. \/ h.op = "open" /\ h.mode = "AUTO"
            \/ h.mode = p.mode
        BY <2>1, <2>2, <2>5, <2>9 DEF IInv, Plan, GoesOn, Harmless, Threads
      <3>4. KeepsMode(f, f', p.mode) BY <2>4, <3>2, <3>3
      <3> QED BY <2>4, <3>4 DEF KeepsMode
    <2>10. CASE h.op = "para"
      <3>1. h = Last(L)
        BY <2>1, <2>2, <2>5, <2>10 DEF IInv, Plan, Harmless, Threads
      <3>2. h.force = FALSE BY <2>5, <2>10, <3>1, CallFacts
      <3>3. f' = setPara(f, p, FALSE, ok)
        BY <2>7, <2>10, <3>1, <3>2 DEF Apply
      <3>4. Same(f, p, FALSE) BY DEF Same
      <3> QED BY <3>3, <3>4 DEF setPara
    <2> QED BY <2>5, <2>9, <2>10, CallFacts
  <1> QED BY InitIInv, StepIInv, <1>1, PTL DEF Spec, ReplayKeepsSignal
=============================================================================
