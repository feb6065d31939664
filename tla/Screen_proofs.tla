---------------------------- MODULE Screen_proofs ----------------------------
(***************************************************************************)
(* Proofs about Screen, for any configurations, signals, requests and      *)
(* numbers of refusals and messages.                                       *)
(*                                                                         *)
(* IInv is about the devices, whatever they refuse.  What is seen depends  *)
(* on one thing more: a source of vdin is watched only after its port was  *)
(* opened, which has the poll thread report its signal.  So an operation   *)
(* that a source is watched after leaves a report to read, or has changed  *)
(* nothing (Reports), and it is enough that the answer to a report leaves  *)
(* what the properties say, and that neither the message thread nor a      *)
(* request undoes it (Keeps).                                              *)
(***************************************************************************)
EXTENDS Screen, TLAPS

Control == [v : VdinType, source : Sources, started : BOOLEAN, inVdin : BOOLEAN,
            playing : BOOLEAN, scanning : BOOLEAN, status : Statuses, told : Statuses,
            vrr : BOOLEAN, block : Blocks, channel : Blocks, enabled : BOOLEAN,
            layer : BOOLEAN, cache : BOOLEAN, cover : BOOLEAN]

\* What CTvin keeps between two operations, after the refusals R.
VGood(v, R) ==
    /\ v \in VdinType
    /\ v.decoding <=> v.started
    /\ v.decoding /\ "STOP" \notin R => DecoderResources \subseteq v.held
    /\ "CODEC_MM" \in v.held => v.started
    /\ "AMVIDEO" \in v.held => v.started \/ "CODEC_MM" \in R
    /\ "ADC_PLL" \in v.held => v.opened /\ Analog(v.port)
    /\ v.device # "none" => v.opened \/ "ADC_PLL" \in R
    /\ R = {} => v.device = v.port /\ (v.opened <=> v.device # "none")

Good(t, R) == t \in Control /\ VGood(t.v, R)

IInv == TypeOK /\ VGood(s.v, refused)

HdmiApart == "HDMI" \notin TunerSources

\* While HDMI is the source its port is open, and vdin's reports are answered.
OnHdmi ==
    refused = {} =>
      /\ s.source = "HDMI" <=> s.v.device = "HDMI"
      /\ s.source = "HDMI" => s.inVdin /\ ~s.scanning /\ signal # "NULL"

\* An analog channel plays, and vdin's reports are answered.
Plays(t) == t.source = "TV" /\ t.playing /\ t.inVdin /\ ~t.scanning

OnTv == refused = {} /\ Plays(s)

\* The decoder and the clients follow a signal that was reported.
Followed ==
    refused = {} /\ s.source = "HDMI" /\ ~edge =>
      /\ s.v.decoding <=> signal = "STABLE"
      /\ signal # "UNSTABLE" => s.told = signal

HdmiInv == OnHdmi /\ Followed

\* A lock finds the status that it has to hide.
Steady == OnTv /\ ~edge /\ signal = "STABLE" => s.status = "STABLE"

\* A locked channel is hidden, or the message thread will see the lock, but where
\* the lock was missed.
LockInv ==
    /\ Steady
    /\ ~missed /\ OnTv /\ ~edge /\ signal = "STABLE" /\ LockedBySource(s) =>
         \/ later > 0
         \/ msg \in {"waiting", "cover"}
         \/ (~s.layer \/ s.cover) /\ msg # "show"

\* Without locks a picture is seen, or the message thread will uncover it.
ShowInv ==
    /\ s.block = "NONE" /\ s.channel = "NONE" /\ msg # "cover"
    /\ ~cfg.multi => ~s.cover
    /\ Steady
    /\ (OnTv \/ (refused = {} /\ s.source = "HDMI")) /\ ~edge /\ signal = "STABLE" =>
         /\ s.v.decoding /\ s.layer
         /\ s.cover => later > 0 \/ msg \in {"waiting", "show"}

\* What every step keeps.
Keeps ==
    /\ IInv'
    /\ HdmiApart /\ HdmiInv => HdmiInv'
    /\ LockInv => LockInv'
    /\ HdmiApart /\ Requests \subseteq {"color"} /\ OnHdmi /\ ShowInv => ShowInv'

\* What nothing but a request and the ends of the TV does: to lock a channel.  And
\* without a tunnel nothing covers the picture.
Lit(r, t) ==
    /\ r.block = "NONE" => t.block = "NONE"
    /\ r.channel = "NONE" => t.channel = "NONE"
    /\ ~cfg.multi /\ t.cover => r.cover

\* t is about the same source and locks as r.
Near(r, t) ==
    /\ Lit(r, t)
    /\ t.source = r.source /\ t.started = r.started /\ t.inVdin = r.inVdin
    /\ t.playing = r.playing /\ t.scanning = r.scanning
    /\ t.status = r.status /\ t.block = r.block
    /\ t.channel = r.channel /\ t.enabled = r.enabled
    /\ t.v.device = r.v.device

-----------------------------------------------------------------------------
(* CTvin. *)

LEMMA OpenGood ==
    ASSUME NEW R, NEW bad \in SUBSET R, NEW v, VGood(v, R), NEW port \in Ports
    PROVE  VGood(OpenPort(v, port, bad), R)
<1>. DEFINE d == [v EXCEPT !.device = IF "OPEN" \in bad THEN v.device ELSE port, !.port = port]
<1>1. CASE v.opened
  BY <1>1 DEF OpenPort
<1>2. CASE ~v.opened /\ ("OPEN" \in bad \/ ~Analog(port))
  <2>1. OpenPort(v, port, bad) = [d EXCEPT !.opened = TRUE]
    BY <1>2 DEF OpenPort
  <2>. QED
    BY <1>2, <2>1 DEF VGood, VdinType, Ports, Analog
<1>3. CASE ~v.opened /\ "OPEN" \notin bad /\ Analog(port) /\ "ADC_PLL" \in bad
  <2>1. OpenPort(v, port, bad) = d
    BY <1>3 DEF OpenPort
  <2>. QED
    BY <1>3, <2>1 DEF VGood, VdinType, Ports, Analog
<1>4. CASE ~v.opened /\ "OPEN" \notin bad /\ Analog(port) /\ "ADC_PLL" \notin bad
  <2>1. OpenPort(v, port, bad) = [d EXCEPT !.held = v.held \cup {"ADC_PLL"}, !.opened = TRUE]
    BY <1>4 DEF OpenPort, VGood, VdinType
  <2>. DEFINE w == [d EXCEPT !.held = v.held \cup {"ADC_PLL"}, !.opened = TRUE]
  <2>2. v.held \cup {"ADC_PLL"} \in SUBSET Resources
    BY DEF VGood, VdinType, Resources
  <2>3. w \in VdinType
    BY <2>2 DEF VGood, VdinType, Ports
  <2>4. /\ w.decoding = v.decoding /\ w.started = v.started /\ w.opened
        /\ w.held = v.held \cup {"ADC_PLL"} /\ w.port = port /\ w.device = port
    BY <1>4 DEF VGood, VdinType
  <2>5. port # "none"
    BY DEF Ports
  <2>. HIDE DEF w, d
  <2>. QED
    BY <1>4, <2>1, <2>3, <2>4, <2>5 DEF VGood, DecoderResources, w
<1>. QED
  BY <1>1, <1>2, <1>3, <1>4

LEMMA CloseGood ==
    ASSUME NEW R, NEW v, VGood(v, R)
    PROVE  /\ VGood(ClosePort(v), R)
           /\ ClosePort(v).started = v.started /\ ~ClosePort(v).opened
           /\ R = {} => ClosePort(v).device = "none"
<1>1. CASE ~v.opened
  BY <1>1 DEF ClosePort, VGood
<1>2. CASE v.opened
  BY <1>2 DEF ClosePort, VGood, VdinType, Resources, DecoderResources
<1>. QED
  BY <1>1, <1>2

LEMMA StartGood ==
    ASSUME NEW R, NEW bad \in SUBSET R, NEW v, VGood(v, R)
    PROVE  /\ VGood(StartDecoder(v, bad), R)
           /\ StartDecoder(v, bad).device = v.device
           /\ bad = {} => StartDecoder(v, bad).started
BY DEF StartDecoder, VGood, VdinType, Resources, DecoderResources

LEMMA StopGood ==
    ASSUME NEW R, NEW bad \in SUBSET R, NEW v, VGood(v, R)
    PROVE  /\ VGood(StopDecoder(v, bad), R)
           /\ StopDecoder(v, bad).device = v.device
           /\ "STOP" \notin bad => ~StopDecoder(v, bad).started
BY DEF StopDecoder, VGood, VdinType, Resources, DecoderResources

\* A decoder that runs on loses its resources only where it did not stop.
LEMMA WaitGood ==
    ASSUME NEW R, NEW bad \in SUBSET R, NEW v, VGood(v, R),
           ~v.started \/ "STOP" \in R
    PROVE  /\ VGood(WaitPathInactive(v, bad), R)
           /\ WaitPathInactive(v, bad).device = v.device
           /\ WaitPathInactive(v, bad).opened = v.opened
BY DEF WaitPathInactive, VGood, VdinType, Resources, DecoderResources

LEMMA ReleaseGood ==
    ASSUME NEW R, NEW v, VGood(v, R), ~v.started \/ "STOP" \in R
    PROVE  VGood(Release(v), R) /\ Release(v).device = v.device
BY DEF Release, VGood, VdinType

LEMMA SnowGood ==
    ASSUME NEW R, NEW v, VGood(v, R), NEW enable \in BOOLEAN
    PROVE  /\ VGood(SwitchSnow(v, enable), R)
           /\ SwitchSnow(v, enable).device = v.device
           /\ SwitchSnow(v, enable).started = v.started
BY DEF SwitchSnow, VGood, VdinType

\* If nothing is refused the port that was asked for is open.
LEMMA SwitchGood ==
    ASSUME NEW R, NEW bad \in SUBSET R, NEW v, VGood(v, R), NEW port \in Ports
    PROVE  /\ VGood(SwitchPort(v, port, bad), R)
           /\ R = {} => SwitchPort(v, port, bad).device = port
<1>. DEFINE p == StopDecoder(v, bad)
            c == ClosePort(p)
            w == WaitPathInactive(c, bad)
<1>1. CASE v.started /\ "STOP" \in bad
  BY <1>1 DEF SwitchPort
<1>2. CASE ~(v.started /\ "STOP" \in bad)
  <2>1. VGood(p, R) /\ ~p.started
    BY <1>2, StopGood DEF StopDecoder
  <2>2. VGood(c, R) /\ ~c.started /\ ~c.opened
    BY <2>1, CloseGood
  <2>3. VGood(w, R) /\ ~w.opened
    BY <2>2, WaitGood
  <2>4. VGood(OpenPort(w, port, bad), R)
    BY <2>3, OpenGood
  <2>5. SwitchPort(v, port, bad) = IF "PATH" \in bad THEN w ELSE OpenPort(w, port, bad)
    BY <1>2 DEF SwitchPort
  <2>6. bad = {} => OpenPort(w, port, bad).device = port
    BY <2>3 DEF OpenPort, VGood, VdinType
  <2>. HIDE DEF p, c, w
  <2>. QED
    BY <2>3, <2>4, <2>5, <2>6
<1>. QED
  BY <1>1, <1>2
-----------------------------------------------------------------------------
(* The helpers of CTv. *)

\* Only the picture differs.
Painted(r, t) == Near(r, t) /\ t.v = r.v /\ t.told = r.told

LEMMA Paint ==
    ASSUME NEW R, NEW t, Good(t, R)
    PROVE  \A u \in {CoverPicture(t), ShowPicture(t), ColorOnce(t), VppColor(t),
                     EnableVideoNow(t), Blackout(t)} :
             Good(u, R) /\ Painted(t, u)
<1>. DEFINE Fine(u) == Good(u, R) /\ Painted(t, u)
<1>1. Fine(CoverPicture(t))
  BY DEF CoverPicture, Good, Control, Painted, Near, Lit
<1>2. Fine(ShowPicture(t))
  BY DEF ShowPicture, Good, Control, Painted, Near, Lit
<1>3. Fine(ColorOnce(t))
  BY DEF ColorOnce, Good, Control, Painted, Near, Lit
<1>4. Fine(VppColor(t))
  BY DEF VppColor, Good, Control, Painted, Near, Lit
<1>5. Fine(EnableVideoNow(t))
  BY DEF EnableVideoNow, Good, Control, Painted, Near, Lit
<1>6. Fine(Blackout(t))
  BY DEF Blackout, Good, Control, Painted, Near, Lit
<1>. QED
  BY <1>1, <1>2, <1>3, <1>4, <1>5, <1>6

\* Only vdin differs, but not its port.
Driven(r, t) ==
    Near(r, t) /\ t.told = r.told /\ t.layer = r.layer /\ t.cover = r.cover

LEMMA Drive ==
    ASSUME NEW R, NEW t, Good(t, R), NEW v, VGood(v, R), v.device = t.v.device
    PROVE  Good([t EXCEPT !.v = v], R) /\ Driven(t, [t EXCEPT !.v = v])
BY DEF Good, Control, VGood, Driven, Near, Lit

LEMMA DecodeGood ==
    ASSUME NEW R, NEW bad \in SUBSET R, NEW t, Good(t, R)
    PROVE  /\ Good(Decode(t, bad), R) /\ Driven(t, Decode(t, bad))
           /\ bad = {} => Decode(t, bad).v.decoding
<1>. DEFINE v == StartDecoder(t.v, bad)
<1>1. VGood(v, R) /\ v.device = t.v.device /\ (bad = {} => v.started)
  BY StartGood DEF Good
<1>2. Decode(t, bad) = [t EXCEPT !.v = v] /\ Decode(t, bad).v = v
  BY DEF Decode, Good, Control
<1>. QED
  BY <1>1, <1>2, Drive DEF VGood

LEMMA RestGood ==
    ASSUME NEW R, NEW bad \in SUBSET R, NEW t, Good(t, R)
    PROVE  /\ Good(Rest(t, bad), R) /\ Driven(t, Rest(t, bad))
           /\ "STOP" \notin bad => ~Rest(t, bad).v.decoding
<1>. DEFINE v == StopDecoder(t.v, bad)
<1>1. VGood(v, R) /\ v.device = t.v.device /\ ("STOP" \notin bad => ~v.started)
  BY StopGood DEF Good
<1>2. Rest(t, bad) = [t EXCEPT !.v = v] /\ Rest(t, bad).v = v
  BY DEF Rest, Good, Control
<1>. QED
  BY <1>1, <1>2, Drive DEF VGood

LEMMA SnowyGood ==
    ASSUME NEW R, NEW t, Good(t, R), NEW enable \in BOOLEAN
    PROVE  /\ Good(Snow(t, enable), R) /\ Driven(t, Snow(t, enable))
           /\ Snow(t, enable).v.started = t.v.started
<1>. DEFINE v == SwitchSnow(t.v, enable)
<1>1. VGood(v, R) /\ v.device = t.v.device /\ v.started = t.v.started
  BY SnowGood DEF Good
<1>2. Snow(t, enable) = [t EXCEPT !.v = v] /\ Snow(t, enable).v = v
  BY DEF Snow, Good, Control
<1>. QED
  BY <1>1, <1>2, Drive

LEMMA SnowOffGood ==
    ASSUME NEW R, NEW t, Good(t, R)
    PROVE  Good(SnowOff(t), R) /\ Driven(t, SnowOff(t))
BY SnowyGood DEF SnowOff, Driven, Near, Lit

LEMMA TellGood ==
    ASSUME NEW R, NEW t, Good(t, R)
    PROVE  /\ Good(Tell(t), R) /\ Near(t, Tell(t)) /\ Tell(t).v = t.v
           /\ Tell(t).told = t.status /\ Tell(t).layer = t.layer
BY DEF Tell, Good, Control, Near, Lit

LEMMA NearTrans ==
    ASSUME NEW a, NEW b, NEW c, Near(a, b), Near(b, c)
    PROVE  Near(a, c)
BY DEF Near, Lit

-----------------------------------------------------------------------------
(* The answers to the statuses. *)

\* A signal is decoded and told, and seen but for a lock.
LEMMA StillStableGood ==
    ASSUME NEW R, NEW bad \in SUBSET R, NEW t, Good(t, R), NEW newFormat \in BOOLEAN
    PROVE  LET u == StillStable(t, bad, newFormat)
           IN  /\ Good(u, R) /\ Near(t, u) /\ u.told = t.status
               /\ bad = {} => u.v.decoding
               /\ t.channel # "BLOCKED" => u.layer
<1>. DEFINE a == IF t.source = "TV" THEN Blackout(t) ELSE t
            b == IF NeedSnow(a) /\ a.v.snow THEN Rest(Snow(a, FALSE), bad)
                 ELSE IF a.source = "TV" /\ newFormat THEN Rest(a, bad) ELSE a
            c == IF b.source = "HDMI" THEN Rest(b, bad) ELSE b
            d == Decode(c, bad)
            e == IF Locked(d) THEN CoverPicture(d) ELSE d
            f == IF e.channel # "BLOCKED" \/ ~e.enabled THEN [e EXCEPT !.layer = TRUE] ELSE e
<1>0. Near(t, t)
  BY DEF Near, Lit
<1>1. Good(a, R) /\ Near(t, a)
  BY <1>0, Paint DEF Painted
<1>2. Good(b, R) /\ Near(t, b)
  <2>1. Good(Snow(a, FALSE), R) /\ Near(t, Snow(a, FALSE))
    BY <1>1, SnowyGood, NearTrans DEF Driven
  <2>2. Good(Rest(Snow(a, FALSE), bad), R) /\ Near(t, Rest(Snow(a, FALSE), bad))
    BY <2>1, RestGood, NearTrans DEF Driven
  <2>3. Good(Rest(a, bad), R) /\ Near(t, Rest(a, bad))
    BY <1>1, RestGood, NearTrans DEF Driven
  <2>. HIDE DEF a
  <2>. QED
    BY <1>1, <2>2, <2>3
<1>. HIDE DEF a, b
<1>3. Good(c, R) /\ Near(t, c)
  BY <1>2, RestGood, NearTrans DEF Driven
<1>. HIDE DEF c
<1>4. Good(d, R) /\ Near(t, d) /\ (bad = {} => d.v.decoding)
  BY <1>3, DecodeGood, NearTrans DEF Driven
<1>. HIDE DEF d
<1>5. Good(e, R) /\ Near(t, e) /\ (bad = {} => e.v.decoding)
  BY <1>4, Paint, NearTrans DEF Painted
<1>. HIDE DEF e
<1>6. Good(f, R) /\ Near(t, f) /\ (bad = {} => f.v.decoding)
        /\ (t.channel # "BLOCKED" => f.layer)
  <2>. DEFINE g == [e EXCEPT !.layer = TRUE]
  <2>1. Good(g, R) /\ Near(e, g) /\ g.v = e.v /\ g.layer
    BY <1>5 DEF Good, Control, Near, Lit
  <2>2. Near(t, g)
    BY <1>5, <2>1, NearTrans
  <2>. HIDE DEF g
  <2>3. e.channel = t.channel
    BY <1>5 DEF Near
  <2>. QED
    BY <1>5, <2>1, <2>2, <2>3 DEF g
<1>. HIDE DEF f
<1>7. StillStable(t, bad, newFormat) = Tell(f)
  BY DEF StillStable, a, b, c, d, e, f
<1>. QED
  BY <1>6, <1>7, TellGood, NearTrans DEF Near

LEMMA ToUnstableGood ==
    ASSUME NEW R, NEW bad \in SUBSET R, NEW t, Good(t, R)
    PROVE  LET u == ToUnstable(t, bad)
           IN  /\ Good(u, R) /\ Near(t, u)
               /\ t.source # "TV" /\ bad = {} => ~u.v.decoding
<1>0. Near(t, t)
  BY DEF Near, Lit
<1>1. Good(CoverPicture(t), R) /\ Near(t, CoverPicture(t))
  BY Paint DEF Painted
<1>2. Good(VppColor(t), R) /\ Near(t, VppColor(t))
  BY Paint DEF Painted
<1>. QED
  BY <1>0, <1>1, <1>2, RestGood, NearTrans DEF ToUnstable, Driven

LEMMA ShowSnowGood ==
    ASSUME NEW R, NEW bad \in SUBSET R, NEW t, Good(t, R)
    PROVE  Good(ShowSnow(t, bad), R) /\ Near(t, ShowSnow(t, bad))
<1>1. Good(Snow(t, TRUE), R) /\ Near(t, Snow(t, TRUE))
  BY SnowyGood DEF Driven
<1>2. Good(Decode(Snow(t, TRUE), bad), R) /\ Near(t, Decode(Snow(t, TRUE), bad))
  BY <1>1, DecodeGood, NearTrans DEF Driven
<1>. QED
  BY <1>2, Paint, NearTrans DEF ShowSnow, Painted

LEMMA ToUnSupportGood ==
    ASSUME NEW R, NEW bad \in SUBSET R, NEW t, Good(t, R)
    PROVE  LET u == ToUnSupport(t, bad)
           IN  /\ Good(u, R) /\ Near(t, u) /\ u.told = t.status
               /\ t.source # "TV" /\ bad = {} => ~u.v.decoding
<1>. DEFINE w == IF t.source # "TV" THEN Rest(VppColor(t), bad)
                 ELSE IF ~cfg.blue /\ NeedSnow(t) THEN ShowSnow(t, bad) ELSE VppColor(t)
<1>1. Good(VppColor(t), R) /\ Near(t, VppColor(t))
  BY Paint DEF Painted
<1>2. /\ Good(Rest(VppColor(t), bad), R) /\ Near(t, Rest(VppColor(t), bad))
      /\ bad = {} => ~Rest(VppColor(t), bad).v.decoding
  BY <1>1, RestGood, NearTrans DEF Driven
<1>3. /\ Good(w, R) /\ Near(t, w)
      /\ t.source # "TV" /\ bad = {} => ~w.v.decoding
  BY <1>1, <1>2, ShowSnowGood
<1>. HIDE DEF w
<1>4. ToUnSupport(t, bad) = Tell(w)
  BY DEF ToUnSupport, w
<1>. QED
  BY <1>3, <1>4, TellGood, NearTrans DEF Near

LEMMA ToNoSigGood ==
    ASSUME NEW R, NEW bad \in SUBSET R, NEW t, Good(t, R)
    PROVE  LET u == ToNoSig(t, bad)
           IN  /\ Good(u, R) /\ Near(t, u) /\ u.told = t.status
               /\ t.source # "TV" /\ bad = {} => ~u.v.decoding
<1>. DEFINE a == IF NeedSnow(t) THEN Decode(Snow(t, TRUE), bad) ELSE t
            w == IF t.source # "TV" THEN Rest(CoverPicture(t), bad)
                 ELSE IF ~cfg.blue /\ NeedSnow(t) THEN ShowPicture(EnableVideoNow(a))
                 ELSE CoverPicture(a)
<1>0. Near(t, t)
  BY DEF Near, Lit
<1>1. Good(Snow(t, TRUE), R) /\ Near(t, Snow(t, TRUE))
  BY SnowyGood DEF Driven
<1>2. Good(a, R) /\ Near(t, a)
  BY <1>0, <1>1, DecodeGood, NearTrans DEF Driven
<1>. HIDE DEF a
<1>3. Good(EnableVideoNow(a), R) /\ Near(t, EnableVideoNow(a))
  BY <1>2, Paint, NearTrans DEF Painted
<1>4. Good(ShowPicture(EnableVideoNow(a)), R) /\ Near(t, ShowPicture(EnableVideoNow(a)))
  BY <1>3, Paint, NearTrans DEF Painted
<1>5. Good(CoverPicture(a), R) /\ Near(t, CoverPicture(a))
  BY <1>2, Paint, NearTrans DEF Painted
<1>6. Good(CoverPicture(t), R) /\ Near(t, CoverPicture(t))
  BY Paint DEF Painted
<1>7. /\ Good(Rest(CoverPicture(t), bad), R) /\ Near(t, Rest(CoverPicture(t), bad))
      /\ bad = {} => ~Rest(CoverPicture(t), bad).v.decoding
  BY <1>6, RestGood, NearTrans DEF Driven
<1>8. /\ Good(w, R) /\ Near(t, w)
      /\ t.source # "TV" /\ bad = {} => ~w.v.decoding
  BY <1>4, <1>5, <1>7
<1>. HIDE DEF w
<1>9. ToNoSig(t, bad) = Tell(w)
  BY DEF ToNoSig, w, a
<1>. QED
  BY <1>8, <1>9, TellGood, NearTrans DEF Near
-----------------------------------------------------------------------------
(* Source, play and scan operations. *)

\* A step after which a source is watched has its signal reported, or has
\* changed nothing.
Reports ==
    /\ Lit(s, s') /\ UNCHANGED <<cfg, later, msg, missed>>
    /\ OnTv' /\ ~edge' => UNCHANGED vars
    /\ HdmiApart /\ OnHdmi =>
         OnHdmi' /\ (refused' = {} /\ s'.source = "HDMI" /\ ~edge' => UNCHANGED vars)

LEMMA Monotone ==
    ASSUME NEW R, NEW S, R \subseteq S, NEW v, VGood(v, R)
    PROVE  VGood(v, S)
BY DEF VGood

LEMMA Started ==
    ASSUME IInv, refused \subseteq refused'
    PROVE  Good(s, refused')
BY Monotone DEF IInv, TypeOK, Good, Control

LEMMA OperationReports ==
    ASSUME IInv, NEW t, NEW reopen \in BOOLEAN, Operation(t, reopen),
           refused \subseteq refused', refused' \subseteq Refusals,
           Good(t, refused'), Lit(s, t),
           refused' = {} /\ Plays(t) =>
             \/ t.v.device # "none" /\ reopen
             \/ t = s /\ ~reopen,
           HdmiApart /\ OnHdmi /\ refused' = {} =>
             /\ t.source = "HDMI" <=> t.v.device = "HDMI"
             /\ t.source = "HDMI" => t.inVdin /\ ~t.scanning
             /\ t.source = "HDMI" => s.v.device # "HDMI" \/ (t = s /\ ~reopen)
    PROVE  IInv' /\ Reports
<1>1. s' = t /\ UNCHANGED <<cfg, later, msg, missed>>
  BY DEF Operation
<1>2. signal' \in Statuses /\ edge' \in BOOLEAN
  BY ScreenAssumption DEF Operation, Reopened, IInv, TypeOK, Statuses
<1>3. IInv'
  BY <1>1, <1>2 DEF IInv, TypeOK, Good, Control
<1>4. ASSUME refused' = {}, t = s, ~reopen
      PROVE  UNCHANGED vars
  BY <1>1, <1>4 DEF Operation, vars
<1>5. ASSUME t.v.device # "none", reopen \/ t.v.device # s.v.device
      PROVE  edge' /\ signal' # "NULL"
  BY <1>5, ScreenAssumption DEF Operation, Reopened
<1>6. OnTv' /\ ~edge' => UNCHANGED vars
  BY <1>1, <1>4, <1>5 DEF OnTv, Plays
<1>7. ASSUME HdmiApart, OnHdmi
      PROVE  OnHdmi' /\ (refused' = {} /\ s'.source = "HDMI" /\ ~edge' => UNCHANGED vars)
  <2>1. CASE refused' # {}
    BY <2>1 DEF OnHdmi
  <2>2. CASE refused' = {} /\ t.source # "HDMI"
    BY <1>1, <1>7, <2>2 DEF OnHdmi
  <2>3. CASE refused' = {} /\ t.source = "HDMI" /\ t = s /\ ~reopen
    BY <1>1, <1>4, <1>7, <2>3 DEF OnHdmi, vars
  <2>4. CASE refused' = {} /\ t.source = "HDMI" /\ s.v.device # "HDMI"
    BY <1>1, <1>5, <1>7, <2>4 DEF OnHdmi
  <2>. QED
    BY <1>7, <2>1, <2>2, <2>3, <2>4
<1>. QED
  BY <1>1, <1>3, <1>6, <1>7 DEF Reports, Lit

\* A switch to the present source, but for TV, changes nothing else than a scan.
LEMMA SwitchedGood ==
    ASSUME NEW R, NEW bad \in SUBSET R, Good(s, R), NEW src \in Sources \ {"INVALID"}
    PROVE  LET t == SourceSwitched(src, bad)
           IN  /\ Good(t, R) /\ Lit(s, t) /\ t.source = src /\ ~t.scanning
               /\ src # s.source \/ src = "TV" =>
                    /\ ~t.playing
                    /\ R = {} /\ src = "DTV" => t.v.device = "none"
                    /\ R = {} /\ src # "DTV" => t.v.device = src /\ t.inVdin
               /\ src = s.source /\ src # "TV" =>
                    t.v.device = s.v.device /\ (~s.scanning => t = s)
<1>. DEFINE q == Rest(s, bad)
            a == IF s.scanning THEN [q EXCEPT !.scanning = FALSE] ELSE s
            p == StopPlaying(a)
            b == [p EXCEPT !.source = src]
            v == IF src = "DTV" THEN WaitPathInactive(ClosePort(StopDecoder(b.v, bad)), bad)
                 ELSE SwitchPort(b.v, src, bad)
            t == SourceSwitched(src, bad)
<1>1. Good(q, R) /\ Lit(s, q) /\ q.source = s.source /\ q.v.device = s.v.device
  BY RestGood DEF Driven, Near
<1>. HIDE DEF q
<1>2. /\ Good(a, R) /\ Lit(s, a) /\ ~a.scanning /\ a.source = s.source
      /\ a.v.device = s.v.device /\ (~s.scanning => a = s)
  BY <1>1 DEF Good, Control, Lit
<1>. HIDE DEF a
<1>3. /\ Good(b, R) /\ Lit(s, b) /\ ~b.scanning /\ ~b.playing /\ b.source = src
  BY <1>2 DEF Good, Control, Lit, StopPlaying
<1>. HIDE DEF p, b
<1>4. VGood(b.v, R)
  BY <1>3 DEF Good
<1>5. CASE src = s.source /\ src # "TV"
  BY <1>2, <1>5 DEF SourceSwitched, a, q
<1>6. CASE ~(src = s.source /\ src # "TV") /\ src = "DTV"
  <2>1. VGood(StopDecoder(b.v, bad), R)
        /\ (~StopDecoder(b.v, bad).started \/ "STOP" \in R)
    BY <1>4, StopGood
  <2>2. /\ VGood(ClosePort(StopDecoder(b.v, bad)), R)
        /\ ~ClosePort(StopDecoder(b.v, bad)).started \/ "STOP" \in R
        /\ R = {} => ClosePort(StopDecoder(b.v, bad)).device = "none"
    BY <2>1, CloseGood
  <2>3. VGood(v, R) /\ (R = {} => v.device = "none")
    BY <1>6, <2>2, WaitGood
  <2>. HIDE DEF v
  <2>4. t = [b EXCEPT !.v = v]
    BY <1>3, <1>6 DEF SourceSwitched, b, p, a, q, v, Good, Control
  <2>. QED
    BY <1>3, <1>6, <2>3, <2>4 DEF Good, Control, VGood, Lit
<1>7. CASE ~(src = s.source /\ src # "TV") /\ src # "DTV"
  <2>1. src \in Ports
    BY <1>7 DEF Sources, Ports
  <2>2. VGood(v, R) /\ (R = {} => v.device = src)
    BY <1>4, <1>7, <2>1, SwitchGood
  <2>3. R = {} => PortSwitched(b.v, bad)
    BY DEF PortSwitched
  <2>. DEFINE inVdin == b.inVdin \/ PortSwitched(b.v, bad)
  <2>. HIDE DEF v
  <2>4. t = [b EXCEPT !.v = v, !.inVdin = inVdin]
    BY <1>3, <1>7 DEF SourceSwitched, b, p, a, q, v, Good, Control
  <2>5. inVdin \in BOOLEAN /\ (R = {} => inVdin)
    BY <1>3, <2>3 DEF Good, Control
  <2>. HIDE DEF inVdin
  <2>6. v \in VdinType /\ b \in Control
    BY <1>3, <2>2 DEF VGood, Good
  <2>7. /\ t \in Control /\ t.v = v /\ t.inVdin = inVdin /\ Lit(b, t)
        /\ t.source = b.source /\ t.scanning = b.scanning /\ t.playing = b.playing
    BY <2>4, <2>5, <2>6 DEF Control, Lit
  <2>8. Good(t, R) /\ Lit(s, t)
    BY <1>3, <2>2, <2>7 DEF Good, Lit
  <2>. HIDE DEF t
  <2>. QED
    BY <1>3, <1>7, <2>2, <2>5, <2>7, <2>8 DEF t
<1>. QED
  BY <1>5, <1>6, <1>7

LEMMA ScanEndedGood ==
    ASSUME NEW R, NEW bad \in SUBSET R, NEW t, Good(t, R)
    PROVE  LET u == ScanEnded(t, bad)
           IN  /\ Good(u, R) /\ Lit(t, u) /\ ~u.scanning /\ (~t.scanning => u = t)
               /\ t.scanning => u.source = "INVALID" /\ (R = {} => u.v.device = "none")
<1>1. CASE ~t.scanning
  BY <1>1 DEF ScanEnded, Lit
<1>2. CASE t.scanning
  <2>. DEFINE a == IF NeedSnow(t) THEN Snow(t, FALSE) ELSE t
              b == Rest(a, bad)
              v == ClosePort(b.v)
  <2>1. Good(a, R) /\ Lit(t, a)
    BY SnowyGood DEF Driven, Near, Lit
  <2>. HIDE DEF a
  <2>2. Good(b, R) /\ Lit(t, b)
    BY <2>1, RestGood DEF Driven, Near, Lit
  <2>3. VGood(v, R) /\ (R = {} => v.device = "none")
    BY <2>2, CloseGood DEF Good
  <2>4. ScanEnded(t, bad) = [b EXCEPT !.v = v, !.source = "INVALID", !.scanning = FALSE]
    BY <1>2, <2>2 DEF ScanEnded, a, b, v, Good, Control
  <2>. HIDE DEF b, v
  <2>. DEFINE u == ScanEnded(t, bad)
  <2>5. v \in VdinType /\ b \in Control
    BY <2>2, <2>3 DEF VGood, Good
  <2>6. /\ u \in Control /\ u.v = v /\ ~u.scanning /\ u.source = "INVALID" /\ Lit(b, u)
    <3>. DEFINE w == [b EXCEPT !.v = v, !.source = "INVALID", !.scanning = FALSE]
    <3>1. "INVALID" \in Sources
      BY DEF Sources
    <3>2. w \in Control
      BY <2>5, <3>1 DEF Control
    <3>3. w.v = v /\ ~w.scanning /\ w.source = "INVALID"
      BY <2>5 DEF Control
    <3>4. w.block = b.block /\ w.channel = b.channel /\ w.cover = b.cover
      BY <2>5 DEF Control
    <3>5. Lit(b, w)
      BY <3>4 DEF Lit
    <3>. QED
      BY <2>4, <3>2, <3>3, <3>5
  <2>7. Good(u, R) /\ Lit(t, u)
    BY <2>2, <2>3, <2>6 DEF Good, Lit
  <2>. HIDE DEF u
  <2>. QED
    BY <1>2, <2>3, <2>6, <2>7 DEF u
<1>. QED
  BY <1>1, <1>2

LEMMA CallsAreRefusals ==
    DecoderCalls \cup PortCalls \cup StopCalls \subseteq SUBSET Refusals
BY DEF DecoderCalls, PortCalls, StopCalls, OneOf, DecoderResources, Refusals

LEMMA Refusing ==
    ASSUME IInv, NEW bad \in SUBSET Refusals, Refuse(bad)
    PROVE  /\ refused \subseteq refused' /\ bad \in SUBSET refused'
           /\ refused' \subseteq Refusals /\ Good(s, refused')
           /\ refused' = {} => bad = {} /\ refused = {}
<1>1. refused' = refused \cup bad
  BY DEF Refuse
<1>2. refused \subseteq Refusals
  BY DEF IInv, TypeOK
<1>. QED
  BY <1>1, <1>2, Started

LEMMA SwitchSourceReports ==
    ASSUME IInv, NEW bad \in SUBSET Refusals, Refuse(bad), SwitchSource(bad)
    PROVE  IInv' /\ Reports
<1>1. PICK src \in Sources \ {"INVALID"} :
         Operation(SourceSwitched(src, bad), Reopens(src, bad))
  BY DEF SwitchSource
<1>. DEFINE t == SourceSwitched(src, bad)
            R == refused'
<1>2. /\ refused \subseteq R /\ bad \in SUBSET R /\ R \subseteq Refusals /\ Good(s, R)
      /\ R = {} => refused = {}
  BY Refusing
<1>3. /\ Good(t, R) /\ Lit(s, t) /\ t.source = src /\ ~t.scanning
      /\ src # s.source \/ src = "TV" =>
           /\ ~t.playing
           /\ R = {} /\ src = "DTV" => t.v.device = "none"
           /\ R = {} /\ src # "DTV" => t.v.device = src /\ t.inVdin
      /\ src = s.source /\ src # "TV" =>
           t.v.device = s.v.device /\ (~s.scanning => t = s)
  BY <1>2, SwitchedGood
<1>4. Operation(t, Reopens(src, bad)) /\ Reopens(src, bad) \in BOOLEAN
      /\ (src # "TV" => ~Reopens(src, bad))
  BY <1>1 DEF Reopens
<1>. HIDE DEF t, R
<1>5. ~Plays(t)
  BY <1>3 DEF Plays
<1>6. ASSUME OnHdmi, R = {}
      PROVE  /\ t.source = "HDMI" <=> t.v.device = "HDMI"
             /\ t.source = "HDMI" => t.inVdin /\ ~t.scanning
             /\ t.source = "HDMI" => s.v.device # "HDMI" \/ (t = s /\ ~Reopens(src, bad))
  <2>1. /\ s.source = "HDMI" <=> s.v.device = "HDMI"
        /\ s.source = "HDMI" => s.inVdin /\ ~s.scanning
    BY <1>2, <1>6 DEF OnHdmi
  <2>2. CASE src = s.source /\ src # "TV"
    BY <1>3, <1>4, <2>1, <2>2
  <2>3. CASE ~(src = s.source /\ src # "TV")
    BY <1>3, <1>6, <2>1, <2>3
  <2>. QED
    BY <2>2, <2>3
<1>. QED
  BY <1>2, <1>3, <1>4, <1>5, <1>6, OperationReports DEF R

LEMMA PlayAtvReports ==
    ASSUME IInv, NEW bad \in SUBSET Refusals, Refuse(bad), PlayAtv(bad)
    PROVE  IInv' /\ Reports
<1>. DEFINE p == SourceSwitched("TV", bad)
            t == [p EXCEPT !.inVdin = TRUE, !.playing = TRUE]
            R == refused'
<1>1. /\ refused \subseteq R /\ bad \in SUBSET R /\ R \subseteq Refusals /\ Good(s, R)
      /\ R = {} => bad = {}
  BY Refusing
<1>2. "TV" \in Sources \ {"INVALID"}
  BY DEF Sources
<1>3. /\ Good(p, R) /\ Lit(s, p) /\ p.source = "TV" /\ ~p.scanning
      /\ R = {} => p.v.device = "TV"
  BY <1>1, <1>2, SwitchedGood
<1>4. Operation(t, Reopens("TV", bad)) /\ Reopens("TV", bad) \in BOOLEAN
      /\ (R = {} => Reopens("TV", bad))
  BY <1>1 DEF Reopens, PortSwitched, PlayAtv
<1>. HIDE DEF p, R
<1>5. Good(t, R) /\ Lit(s, t) /\ t.source = "TV" /\ t.v = p.v
  BY <1>3 DEF Good, Control, Lit
<1>. HIDE DEF t
<1>. QED
  BY <1>1, <1>3, <1>4, <1>5, OperationReports DEF R

\* Scans begin, and channels are tuned, where a watched source is left.
LEMMA AwayReports ==
    ASSUME IInv, NEW bad \in SUBSET Refusals, Refuse(bad), NEW t, Operation(t, FALSE),
           Good(t, refused'), Lit(s, t), ~Plays(t),
           HdmiApart /\ OnHdmi /\ refused' = {} => t.source # "HDMI" /\ t.v.device # "HDMI"
    PROVE  IInv' /\ Reports
BY Refusing, OperationReports

\* Where clients scan or tune HDMI is not open.
LEMMA ElsewhereOpen ==
    ASSUME HdmiApart, OnHdmi, refused = {}, s.source \in TunerSources
    PROVE  s.source # "HDMI" /\ s.v.device # "HDMI"
BY DEF HdmiApart, OnHdmi

LEMMA OpenTvGood ==
    ASSUME NEW R, NEW bad \in SUBSET R, NEW v, VGood(v, R)
    PROVE  /\ VGood(OpenPort(v, "TV", bad), R)
           /\ OpenPort(v, "TV", bad).device \in {v.device, "TV"}
<1>1. "TV" \in Ports
  BY DEF Ports
<1>2. VGood(OpenPort(v, "TV", bad), R)
  BY <1>1, OpenGood
<1>3. OpenPort(v, "TV", bad).device \in {v.device, "TV"}
  BY DEF OpenPort, VGood, VdinType
<1>. QED
  BY <1>2, <1>3

LEMMA AutoScanReports ==
    ASSUME IInv, NEW bad \in SUBSET Refusals, Refuse(bad), AutoScan(bad)
    PROVE  IInv' /\ Reports
<1>. DEFINE R == refused'
            a == [StopPlaying(s) EXCEPT !.scanning = TRUE]
            b == IF NeedSnow(a) THEN Snow(a, TRUE) ELSE Rest(a, bad)
            v == OpenPort(b.v, "TV", bad)
            t == [b EXCEPT !.v = v]
<1>1. bad \in SUBSET R /\ Good(s, R) /\ (R = {} => refused = {})
  BY Refusing
<1>. HIDE DEF R
<1>2. Good(a, R) /\ Lit(s, a) /\ a.scanning /\ a.source = s.source /\ a.v = s.v
  BY <1>1 DEF StopPlaying, Good, Control, Lit
<1>. HIDE DEF a
<1>3. /\ Good(b, R) /\ Lit(s, b) /\ b.scanning /\ b.source = s.source
      /\ b.v.device = s.v.device
  <2>1. Good(Snow(a, TRUE), R) /\ Driven(a, Snow(a, TRUE))
    BY <1>2, SnowyGood
  <2>2. Good(Rest(a, bad), R) /\ Driven(a, Rest(a, bad))
    BY <1>1, <1>2, RestGood
  <2>3. Good(b, R) /\ Driven(a, b)
    BY <2>1, <2>2
  <2>. HIDE DEF b
  <2>. QED
    BY <1>2, <2>3 DEF Driven, Near, Lit
<1>4. VGood(v, R) /\ v.device \in {b.v.device, "TV"}
  BY <1>1, <1>3, OpenTvGood DEF Good
<1>5. AutoScan(bad) => s.source \in TunerSources /\ Operation([b EXCEPT !.v = OpenPort(b.v, "TV", bad)], FALSE)
  BY <1>3 DEF AutoScan, a, b, Good, Control
<1>. HIDE DEF b, v
<1>6. /\ Good(t, R) /\ Lit(s, t) /\ t.scanning /\ t.source = s.source
      /\ t.v = v
  <2>1. v \in VdinType
    BY <1>4 DEF VGood
  <2>. QED
    BY <1>3, <1>4, <2>1 DEF Good, Control, Lit
<1>7. s.source \in TunerSources /\ Operation(t, FALSE)
  BY <1>5 DEF v
<1>. HIDE DEF t
<1>8. ~Plays(t)
  BY <1>6 DEF Plays
<1>9. HdmiApart /\ OnHdmi /\ R = {} => t.source # "HDMI" /\ t.v.device # "HDMI"
  BY <1>1, <1>3, <1>4, <1>6, <1>7, ElsewhereOpen
<1>. QED
  BY <1>6, <1>7, <1>8, <1>9, AwayReports DEF R

LEMMA ManualScanReports ==
    ASSUME IInv, NEW bad \in SUBSET Refusals, Refuse(bad), ManualScan(bad)
    PROVE  IInv' /\ Reports
<1>. DEFINE R == refused'
            a == IF NeedSnow(s) THEN Snow(s, TRUE) ELSE s
            v == OpenPort(a.v, "TV", bad)
            t == [a EXCEPT !.scanning = TRUE, !.v = v]
<1>1. bad \in SUBSET R /\ Good(s, R) /\ (R = {} => refused = {})
  BY Refusing
<1>. HIDE DEF R
<1>2. Good(a, R) /\ Lit(s, a) /\ a.source = s.source /\ a.v.device = s.v.device
  BY <1>1, SnowyGood DEF Driven, Near, Lit
<1>3. VGood(v, R) /\ v.device \in {a.v.device, "TV"}
  BY <1>1, <1>2, OpenTvGood DEF Good
<1>4. s.source \in TunerSources /\ Operation(t, FALSE)
  BY <1>2 DEF ManualScan, Good, Control
<1>. HIDE DEF a, v
<1>5. /\ Good(t, R) /\ Lit(s, t) /\ t.scanning /\ t.source = s.source
      /\ t.v = v
  <2>1. v \in VdinType
    BY <1>3 DEF VGood
  <2>. QED
    BY <1>2, <1>3, <2>1 DEF Good, Control, Lit
<1>. HIDE DEF t
<1>6. ~Plays(t)
  BY <1>5 DEF Plays
<1>7. HdmiApart /\ OnHdmi /\ R = {} => t.source # "HDMI" /\ t.v.device # "HDMI"
  BY <1>1, <1>2, <1>3, <1>4, <1>5, ElsewhereOpen
<1>. QED
  BY <1>4, <1>5, <1>6, <1>7, AwayReports DEF R

LEMMA RetunedGood ==
    ASSUME NEW R, NEW bad \in SUBSET R, Good(s, R), NEW still \in BOOLEAN
    PROVE  LET t == Rest(Retuned(still), bad)
           IN  /\ Good(t, R) /\ Lit(s, t) /\ ~t.playing
               /\ t.source = s.source /\ t.v.device = s.v.device
<1>. DEFINE a == Blackout(s)
            b == IF still THEN a ELSE CoverPicture(a)
            c == StopPlaying(b)
            d == SnowOff(c)
<1>1. Good(a, R) /\ Near(s, a)
  BY Paint DEF Painted
<1>2. Good(b, R) /\ Near(s, b)
  BY <1>1, Paint, NearTrans DEF Painted
<1>. HIDE DEF b
<1>3. /\ Good(c, R) /\ Lit(s, c) /\ ~c.playing
      /\ c.source = s.source /\ c.v.device = s.v.device
  BY <1>2 DEF StopPlaying, Good, Control, Near, Lit
<1>. HIDE DEF c
<1>4. Good(d, R) /\ Driven(c, d)
  BY <1>3, SnowOffGood
<1>. HIDE DEF d
<1>5. Good(Rest(d, bad), R) /\ Driven(d, Rest(d, bad))
  BY <1>4, RestGood
<1>6. d = Retuned(still)
  BY DEF Retuned, a, b, c, d
<1>. QED
  BY <1>3, <1>4, <1>5, <1>6 DEF Driven, Near, Lit

LEMMA TuneAtvReports ==
    ASSUME IInv, NEW bad \in SUBSET Refusals, Refuse(bad), TuneAtv(bad)
    PROVE  IInv' /\ Reports
<1>. DEFINE R == refused'
<1>1. PICK still \in BOOLEAN : Operation([Rest(Retuned(still), bad) EXCEPT !.inVdin = TRUE], FALSE)
  BY DEF TuneAtv
<1>2. bad \in SUBSET R /\ Good(s, R) /\ (R = {} => refused = {})
  BY Refusing
<1>. DEFINE a == Rest(Retuned(still), bad)
            t == [a EXCEPT !.inVdin = TRUE]
<1>3. /\ Good(a, R) /\ Lit(s, a) /\ ~a.playing
      /\ a.source = s.source /\ a.v.device = s.v.device
  BY <1>2, RetunedGood
<1>. HIDE DEF a, R
<1>4. /\ Good(t, R) /\ Lit(s, t) /\ ~t.playing
      /\ t.source = s.source /\ t.v.device = s.v.device
  BY <1>3 DEF Good, Control, Lit
<1>5. s.source \in TunerSources /\ Operation(t, FALSE)
  BY <1>1 DEF TuneAtv, a
<1>. HIDE DEF t
<1>. QED
  BY <1>2, <1>4, <1>5, ElsewhereOpen, AwayReports DEF R, Plays

LEMMA TuneDtvReports ==
    ASSUME IInv, NEW bad \in SUBSET Refusals, Refuse(bad), TuneDtv(bad)
    PROVE  IInv' /\ Reports
<1>. DEFINE R == refused'
<1>1. PICK still \in BOOLEAN :
        Operation([Rest(Retuned(still), bad) EXCEPT !.inVdin = FALSE, !.v = ClosePort(@)], FALSE)
  BY DEF TuneDtv
<1>2. bad \in SUBSET R /\ Good(s, R) /\ (R = {} => refused = {})
  BY Refusing
<1>. DEFINE a == Rest(Retuned(still), bad)
            v == ClosePort(a.v)
            t == [a EXCEPT !.inVdin = FALSE, !.v = v]
<1>3. /\ Good(a, R) /\ Lit(s, a) /\ ~a.playing /\ a.source = s.source
  BY <1>2, RetunedGood
<1>4. VGood(v, R) /\ (R = {} => v.device = "none")
  BY <1>3, CloseGood DEF Good
<1>5. s.source \in TunerSources /\ Operation(t, FALSE)
  BY <1>1, <1>3 DEF TuneDtv, a, Good, Control
<1>. HIDE DEF a, v, R
<1>6. /\ Good(t, R) /\ Lit(s, t) /\ ~t.playing /\ t.source = s.source /\ t.v = v
  <2>1. v \in VdinType /\ a \in Control
    BY <1>3, <1>4 DEF VGood, Good
  <2>2. t \in Control /\ t.v = v /\ t.playing = a.playing /\ t.source = a.source /\ Lit(a, t)
    BY <2>1 DEF Control, Lit
  <2>. HIDE DEF t
  <2>. QED
    BY <1>3, <1>4, <2>2 DEF Good, Lit
<1>. HIDE DEF t
<1>. QED
  BY <1>2, <1>4, <1>5, <1>6, ElsewhereOpen, AwayReports DEF R, Plays

LEMMA StopScanReports ==
    ASSUME IInv, NEW bad \in SUBSET Refusals, Refuse(bad), StopScan(bad)
    PROVE  IInv' /\ Reports
<1>. DEFINE R == refused'
            t == ScanEnded(s, bad)
<1>1. /\ refused \subseteq R /\ bad \in SUBSET R /\ R \subseteq Refusals /\ Good(s, R)
      /\ R = {} => refused = {}
  BY Refusing
<1>2. /\ Good(t, R) /\ Lit(s, t) /\ ~t.scanning /\ (~s.scanning => t = s)
      /\ s.scanning => t.source = "INVALID" /\ (R = {} => t.v.device = "none")
  BY <1>1, ScanEndedGood
<1>3. Operation(t, FALSE)
  BY DEF StopScan
<1>. HIDE DEF t, R
<1>4. Plays(t) => t = s
  BY <1>2 DEF Plays
<1>5. ASSUME OnHdmi, R = {}
      PROVE  /\ t.source = "HDMI" <=> t.v.device = "HDMI"
             /\ t.source = "HDMI" => t.inVdin /\ ~t.scanning
             /\ t.source = "HDMI" => t = s
  BY <1>1, <1>2, <1>5 DEF OnHdmi
<1>. QED
  BY <1>1, <1>2, <1>3, <1>4, <1>5, OperationReports DEF R

LEMMA StopTvReports ==
    ASSUME IInv, NEW bad \in SUBSET Refusals, Refuse(bad), StopTv(bad)
    PROVE  IInv' /\ Reports
<1>. DEFINE R == refused'
            p == StopPlaying(s)
            e == ScanEnded(p, bad)
            a == [e EXCEPT !.inVdin = FALSE]
            b == IF NeedSnow(a) THEN Snow(a, FALSE) ELSE a
            c == IF b.source \in {"INVALID", "DTV"} THEN [b EXCEPT !.layer = FALSE] ELSE b
            v == Release(ClosePort(StopDecoder(c.v, bad)))
            t == [c EXCEPT !.v = v, !.source = "INVALID", !.started = FALSE, !.status = "NULL",
                           !.block = "NONE", !.channel = "NONE"]
<1>1. bad \in SUBSET R /\ Good(s, R) /\ (R = {} => refused = {})
  BY Refusing
<1>2. Good(p, R) /\ Lit(s, p)
  BY <1>1 DEF StopPlaying, Good, Control, Lit
<1>. HIDE DEF p
<1>3. Good(e, R) /\ Lit(s, e)
  BY <1>1, <1>2, ScanEndedGood DEF Lit
<1>. HIDE DEF e
<1>4. Good(a, R) /\ Lit(s, a)
  BY <1>3 DEF Good, Control, Lit
<1>. HIDE DEF a
<1>5. Good(b, R) /\ Lit(s, b)
  <2>1. Good(Snow(a, FALSE), R) /\ Driven(a, Snow(a, FALSE))
    BY <1>4, SnowyGood
  <2>2. Lit(s, Snow(a, FALSE))
    BY <1>4, <2>1 DEF Driven, Near, Lit
  <2>. QED
    BY <1>4, <2>1, <2>2
<1>. HIDE DEF b
<1>6. Good(c, R) /\ Lit(s, c)
  BY <1>5 DEF Good, Control, Lit
<1>7. Operation(t, FALSE)
  BY <1>6 DEF StopTv, p, e, a, b, c, Good, Control
<1>. HIDE DEF c
<1>8. VGood(v, R) /\ (R = {} => v.device = "none")
  <2>. DEFINE d == StopDecoder(c.v, bad)
  <2>1. VGood(d, R) /\ (~d.started \/ "STOP" \in R)
    BY <1>1, <1>6, StopGood DEF Good
  <2>. HIDE DEF d
  <2>2. /\ VGood(ClosePort(d), R) /\ (~ClosePort(d).started \/ "STOP" \in R)
        /\ R = {} => ClosePort(d).device = "none"
    BY <2>1, CloseGood
  <2>. QED
    BY <2>2, ReleaseGood DEF d
<1>. HIDE DEF v, R
<1>9. Good(t, R) /\ Lit(s, t) /\ t.v = v /\ t.source = "INVALID"
  <2>1. v \in VdinType /\ c \in Control /\ "INVALID" \in Sources /\ "NONE" \in Blocks /\ "NULL" \in Statuses
    BY <1>6, <1>8 DEF VGood, Good, Sources, Blocks, Statuses
  <2>2. t \in Control
    BY <2>1 DEF Control
  <2>3. t.v = v /\ t.source = "INVALID" /\ t.block = "NONE" /\ t.channel = "NONE"
        /\ t.cover = c.cover
    BY <2>1 DEF Control
  <2>. HIDE DEF t
  <2>. QED
    BY <1>6, <1>8, <2>2, <2>3 DEF Good, Lit
<1>. HIDE DEF t
<1>. QED
  BY <1>1, <1>7, <1>8, <1>9, AwayReports DEF R, Plays

LEMMA StartTvReports ==
    ASSUME IInv, StartTv
    PROVE  IInv' /\ Reports
<1>. DEFINE c == CoverPicture(s)
            t == [c EXCEPT !.started = TRUE, !.channel = "NONE"]
<1>1. refused' = refused /\ s.source = "INVALID" /\ Operation(t, FALSE)
  BY DEF StartTv
<1>2. {} \in SUBSET Refusals /\ Refuse({})
  BY <1>1 DEF Refuse
<1>3. Good(s, refused')
  BY <1>2, Refusing
<1>4. Good(c, refused') /\ Near(s, c) /\ c.v = s.v
  BY <1>3, Paint DEF Painted
<1>. HIDE DEF c
<1>5. Good(t, refused') /\ Lit(s, t) /\ t.source = c.source /\ t.v = c.v
  <2>1. "NONE" \in Blocks
    BY DEF Blocks
  <2>. QED
    BY <1>4, <2>1 DEF Good, Control, Near, Lit
<1>. HIDE DEF t
<1>6. t.source = "INVALID" /\ t.v.device = s.v.device
  BY <1>1, <1>4, <1>5 DEF Near
<1>7. OnHdmi /\ refused' = {} => s.v.device # "HDMI"
  BY <1>1 DEF OnHdmi
<1>. QED
  BY <1>1, <1>2, <1>5, <1>6, <1>7, AwayReports DEF Plays

LEMMA SetVrrReports ==
    ASSUME IInv, NEW bad \in SUBSET Refusals, Refuse(bad), SetVrr(bad)
    PROVE  IInv' /\ Reports
<1>. DEFINE R == refused'
            a == Rest(s, bad)
<1>1. /\ bad \in SUBSET R /\ R \subseteq Refusals /\ Good(s, R)
      /\ R = {} => refused = {}
  BY Refusing
<1>2. /\ s' = [a EXCEPT !.vrr = ~a.vrr] /\ s.source = "HDMI"
      /\ signal' \in {"NOSIG", "UNSTABLE"} /\ edge' = TRUE /\ UNCHANGED <<cfg, later, msg, missed>>
  <2>1. a \in Control
    BY <1>1, RestGood DEF Good
  <2>. QED
    BY <2>1 DEF SetVrr, Control
<1>3. Good(a, R) /\ Near(s, a)
  BY <1>1, RestGood DEF Driven
<1>. HIDE DEF a
<1>4. Good(s', R) /\ Near(a, s')
  BY <1>2, <1>3 DEF Good, Control, Near, Lit
<1>5. Near(s, s')
  BY <1>3, <1>4, NearTrans
<1>6. IInv'
  BY <1>1, <1>2, <1>4 DEF IInv, TypeOK, Good, Control, Statuses
<1>7. OnHdmi => OnHdmi'
  BY <1>1, <1>2, <1>5 DEF OnHdmi, Near
<1>. QED
  BY <1>2, <1>5, <1>6, <1>7 DEF Reports, Near

LEMMA ReportsKeep ==
    ASSUME IInv', Reports
    PROVE  Keeps
<1>1. Lit(s, s') /\ UNCHANGED <<cfg, later, msg, missed>> /\ (OnTv' /\ ~edge' => UNCHANGED vars)
  BY DEF Reports
<1>2. ASSUME OnTv', ~edge'
      PROVE  /\ OnTv /\ ~edge /\ s' = s /\ signal' = signal
             /\ LockedBySource(s)' <=> LockedBySource(s)
  BY <1>1, <1>2 DEF OnTv, Plays, vars, LockedBySource
<1>3. Steady => Steady'
  BY <1>2 DEF Steady
<1>4. LockInv => LockInv'
  BY <1>1, <1>2, <1>3 DEF LockInv
<1>5. ASSUME HdmiApart, OnHdmi
      PROVE  /\ OnHdmi'
             /\ refused' = {} /\ s'.source = "HDMI" /\ ~edge' => UNCHANGED vars
  BY <1>5 DEF Reports
<1>6. ASSUME HdmiApart, HdmiInv
      PROVE  HdmiInv'
  BY <1>5, <1>6 DEF HdmiInv, Followed, vars
<1>7. ASSUME HdmiApart, OnHdmi, ShowInv
      PROVE  ShowInv'
  <2>1. s'.block = "NONE" /\ s'.channel = "NONE" /\ msg' # "cover" /\ (~cfg'.multi => ~s'.cover)
    BY <1>1, <1>7 DEF ShowInv, Lit
  <2>2. ASSUME OnTv' \/ (refused' = {} /\ s'.source = "HDMI"), ~edge', signal' = "STABLE"
        PROVE  /\ s'.v.decoding /\ s'.layer
               /\ s'.cover => later' > 0 \/ msg' \in {"waiting", "show"}
    <3>1. UNCHANGED vars
      BY <1>1, <1>5, <1>7, <2>2
    <3>2. OnTv' <=> OnTv
      BY <3>1 DEF OnTv, Plays, vars
    <3>. QED
      BY <1>7, <2>2, <3>1, <3>2 DEF ShowInv, vars
  <2>. QED
    BY <1>3, <1>7, <2>1, <2>2 DEF ShowInv
<1>. QED
  BY <1>4, <1>6, <1>7 DEF Keeps
-----------------------------------------------------------------------------
(* The poll thread. *)

\* A signal is read while the port of the source is open.
LEMMA CurrentGood ==
    ASSUME NEW R, Good(s, R), signal \in Statuses
    PROVE  /\ Good(Current, R) /\ Current.status = signal /\ Current.v = s.v
           /\ Lit(s, Current) /\ Current.source = s.source /\ Current.inVdin = s.inVdin
           /\ Current.playing = s.playing /\ Current.scanning = s.scanning
           /\ Current.channel = s.channel /\ Current.block = s.block
BY DEF Current, Good, Control, Lit

LEMMA SignalChangeKeeps ==
    ASSUME IInv, SignalChange
    PROVE  Keeps
<1>1. /\ signal' \in Statuses \ {"NULL"} /\ edge' = TRUE
      /\ UNCHANGED <<cfg, s, later, msg, refused, missed>>
  BY ScreenAssumption DEF SignalChange
<1>2. IInv'
  BY <1>1 DEF IInv, TypeOK
<1>. QED
  BY <1>1, <1>2 DEF Keeps, HdmiInv, OnHdmi, Followed, LockInv, ShowInv, Steady

LEMMA DropSignalKeeps ==
    ASSUME IInv, DropSignal
    PROVE  Keeps
<1>1. edge' = FALSE /\ UNCHANGED <<cfg, s, signal, later, msg, refused, missed>>
  BY DEF DropSignal
<1>2. IInv'
  <2>1. TypeOK'
    BY <1>1 DEF IInv, TypeOK
  <2>2. VGood(s'.v, refused')
    BY <1>1 DEF IInv
  <2>. QED
    BY <2>1, <2>2 DEF IInv
<1>3. ~s.inVdin \/ s.scanning \/ (s.source = "TV" /\ ~s.playing)
  BY DEF DropSignal, Dropped
<1>4. ~OnTv'
  BY <1>1, <1>3 DEF OnTv, Plays
<1>5. OnHdmi => OnHdmi' /\ ~(refused' = {} /\ s'.source = "HDMI")
  BY <1>1, <1>3 DEF OnHdmi
<1>. QED
  BY <1>1, <1>2, <1>4, <1>5 DEF Keeps, HdmiInv, Followed, LockInv, ShowInv, Steady

LEMMA SwitchVrrKeeps ==
    ASSUME IInv, SwitchVrr
    PROVE  Keeps
<1>1. Good(s, refused) /\ signal \in Statuses
  BY DEF IInv, TypeOK, Good, Control
<1>2. /\ s' = [Current EXCEPT !.vrr = ~Current.vrr]
      /\ signal' \in {"NOSIG", "UNSTABLE"} /\ edge /\ edge' = edge
      /\ UNCHANGED <<cfg, later, msg, refused, missed>> /\ s.source = "HDMI"
  BY <1>1, CurrentGood DEF SwitchVrr, Good, Control
<1>3. /\ Good(s', refused) /\ Lit(Current, s') /\ s'.v = s.v /\ s'.source = s.source
      /\ s'.inVdin = s.inVdin /\ s'.scanning = s.scanning
  <2>. DEFINE c == Current
  <2>1. /\ c \in Control /\ VGood(c.v, refused)
        /\ c.v = s.v /\ c.source = s.source /\ c.inVdin = s.inVdin /\ c.scanning = s.scanning
    BY <1>1, CurrentGood DEF Good
  <2>2. s' = [c EXCEPT !.vrr = ~c.vrr]
    BY <1>2
  <2>. HIDE DEF c
  <2>3. s' \in Control /\ s'.v = c.v /\ Lit(c, s')
    BY <2>1, <2>2 DEF Control, Lit
  <2>4. s'.source = c.source /\ s'.inVdin = c.inVdin /\ s'.scanning = c.scanning
    BY <2>1, <2>2 DEF Control
  <2>. QED
    BY <2>1, <2>3, <2>4 DEF Good, c
<1>4. Lit(s, s')
  BY <1>1, <1>3, CurrentGood DEF Lit
<1>5. IInv'
  BY <1>2, <1>3 DEF IInv, TypeOK, Good, Control, Statuses
<1>6. OnHdmi => OnHdmi'
  BY <1>2, <1>3 DEF OnHdmi
<1>7. edge' = TRUE
  BY <1>2 DEF IInv, TypeOK
<1>. QED
  BY <1>2, <1>4, <1>5, <1>6, <1>7 DEF Keeps, HdmiInv, Followed, LockInv, ShowInv, Steady, Lit

\* Between a report and its answer nothing about the source changes.
LEMMA AnswerKeeps ==
    ASSUME IInv, NEW bad \in SUBSET Refusals, Refuse(bad), Near(Current, s'),
           Good(s', refused'), edge' = FALSE, later' \in 0..MaxMessages,
           missed' \in BOOLEAN, UNCHANGED <<cfg, signal, msg>>
    PROVE  /\ IInv' /\ Lit(s, s') /\ (OnTv' => OnTv) /\ (OnHdmi => OnHdmi')
           /\ s'.source = s.source /\ s'.status = signal /\ s'.channel = s.channel
<1>1. /\ refused \subseteq refused' /\ refused' \subseteq Refusals /\ Good(s, refused')
      /\ refused' = {} => refused = {}
  BY Refusing
<1>2. signal \in Statuses
  BY DEF IInv, TypeOK
<1>3. /\ Lit(s, s') /\ s'.source = s.source /\ s'.inVdin = s.inVdin /\ s'.channel = s.channel
      /\ s'.playing = s.playing /\ s'.scanning = s.scanning /\ s'.v.device = s.v.device
      /\ s'.status = signal
  BY <1>1, <1>2, CurrentGood DEF Near, Lit
<1>4. IInv'
  BY <1>1, <1>2 DEF IInv, TypeOK, Good, Control
<1>. QED
  BY <1>1, <1>3, <1>4 DEF OnTv, Plays, OnHdmi

LEMMA SignalStableKeeps ==
    ASSUME IInv, NEW bad \in SUBSET Refusals, Refuse(bad), SignalStable(bad)
    PROVE  Keeps
<1>1. PICK newFormat \in BOOLEAN : s' = StillStable(Current, bad, newFormat)
  BY DEF SignalStable
<1>2. /\ signal = "STABLE" /\ edge' = FALSE /\ later' = later + 1 /\ later < MaxMessages
      /\ missed' = FALSE /\ UNCHANGED <<cfg, signal, msg>>
  BY DEF SignalStable
<1>3. bad \in SUBSET refused' /\ Good(s, refused') /\ (refused' = {} => bad = {})
  BY Refusing
<1>4. Good(Current, refused') /\ Current.channel = s.channel /\ Current.status = signal
  BY <1>3, CurrentGood DEF IInv, TypeOK
<1>5. /\ Good(s', refused') /\ Near(Current, s') /\ s'.told = signal
      /\ bad = {} => s'.v.decoding
      /\ s.channel # "BLOCKED" => s'.layer
  BY <1>1, <1>3, <1>4, StillStableGood
<1>6. later' \in 0..MaxMessages /\ later' > 0
  BY <1>2, ScreenAssumption DEF IInv, TypeOK
<1>7. /\ IInv' /\ Lit(s, s') /\ (OnTv' => OnTv) /\ (OnHdmi => OnHdmi')
      /\ s'.source = s.source /\ s'.status = signal /\ s'.channel = s.channel
  BY <1>2, <1>5, <1>6, AnswerKeeps
<1>8. Followed' /\ Steady'
  BY <1>2, <1>3, <1>5, <1>7 DEF Followed, Steady
<1>9. LockInv'
  BY <1>6, <1>8 DEF LockInv
<1>10. ShowInv => ShowInv'
  BY <1>2, <1>3, <1>5, <1>6, <1>7, <1>8 DEF ShowInv, Lit, OnTv
<1>. QED
  BY <1>7, <1>8, <1>9, <1>10 DEF Keeps, HdmiInv

LEMMA SignalNotStableKeeps ==
    ASSUME IInv, NEW bad \in SUBSET Refusals, Refuse(bad), SignalNotStable(bad)
    PROVE  Keeps
<1>1. /\ signal # "STABLE" /\ edge' = FALSE /\ later' = later
      /\ UNCHANGED <<cfg, signal, msg, missed>>
  BY DEF SignalNotStable
<1>2. /\ bad \in SUBSET refused' /\ Good(s, refused')
      /\ refused' = {} => bad = {} /\ refused = {}
  BY Refusing
<1>3. /\ Good(Current, refused') /\ Current.status = signal /\ Current.source = s.source
      /\ Near(Current, Current)
  BY <1>2, CurrentGood DEF IInv, TypeOK, Near, Lit
<1>4. /\ Good(s', refused') /\ Near(Current, s')
      /\ signal \in {"UNSTABLE", "NOTSUP", "NOSIG"} =>
           /\ s.source # "TV" /\ bad = {} => ~s'.v.decoding
           /\ signal # "UNSTABLE" => s'.told = signal
  <2>1. CASE signal = "UNSTABLE"
    BY <1>2, <1>3, <2>1, ToUnstableGood DEF SignalNotStable
  <2>2. CASE signal = "NOTSUP"
    BY <1>2, <1>3, <2>2, ToUnSupportGood DEF SignalNotStable
  <2>3. CASE signal = "NOSIG"
    BY <1>2, <1>3, <2>3, ToNoSigGood DEF SignalNotStable
  <2>4. CASE signal \notin {"UNSTABLE", "NOTSUP", "NOSIG"}
    <3>1. s' = Current
      BY <2>4 DEF SignalNotStable
    <3>. QED
      BY <1>3, <2>4, <3>1
  <2>. QED
    BY <2>1, <2>2, <2>3, <2>4
<1>5. /\ IInv' /\ Lit(s, s') /\ (OnTv' => OnTv) /\ (OnHdmi => OnHdmi')
      /\ s'.source = s.source
  <2>1. later' \in 0..MaxMessages /\ missed' \in BOOLEAN
    BY <1>1 DEF IInv, TypeOK
  <2>. QED
    BY <1>1, <1>4, <2>1, AnswerKeeps
<1>6. OnHdmi => Followed'
  <2>1. signal \in Statuses
    BY DEF IInv, TypeOK
  <2>. QED
    BY <1>1, <1>2, <1>4, <1>5, <2>1 DEF Followed, OnHdmi, Statuses
<1>. QED
  BY <1>1, <1>5, <1>6 DEF Keeps, HdmiInv, LockInv, ShowInv, Steady, Lit
-----------------------------------------------------------------------------
(* The message thread, and the clients' requests. *)

\* What neither the devices nor the source change in.
LEMMA StillThere ==
    ASSUME UNCHANGED <<signal, edge, refused>>, s'.v = s.v, s'.source = s.source,
           s'.inVdin = s.inVdin, s'.scanning = s.scanning, s'.told = s.told,
           s'.playing = s.playing
    PROVE  (HdmiInv => HdmiInv') /\ (OnTv' <=> OnTv)
BY DEF HdmiInv, OnHdmi, Followed, OnTv, Plays

LEMMA BeginWaitKeeps ==
    ASSUME IInv, BeginWait
    PROVE  Keeps
<1>1. /\ later > 0 /\ later' = later - 1 /\ msg' = "waiting"
      /\ UNCHANGED <<cfg, s, signal, edge, refused, missed>>
  BY DEF BeginWait
<1>2. IInv'
  BY <1>1, ScreenAssumption DEF IInv, TypeOK
<1>3. (HdmiInv => HdmiInv') /\ (OnTv' <=> OnTv)
  BY <1>1, StillThere
<1>. QED
  BY <1>1, <1>2, <1>3 DEF Keeps, LockInv, ShowInv, Steady

LEMMA EndWaitKeeps ==
    ASSUME IInv, EndWait
    PROVE  Keeps
<1>1. /\ msg = "waiting" /\ UNCHANGED <<cfg, signal, edge, later, refused>> /\ s \in Control
      /\ missed' \in BOOLEAN
  BY DEF EndWait, IInv, TypeOK, Control
<1>2. CASE ~cfg.multi /\ s.source \in {"TV", "DTV"} /\ ~s.playing
  <2>1. s' = s /\ msg' = "idle"
    BY <1>2 DEF EndWait
  <2>2. (HdmiInv => HdmiInv') /\ (OnTv' <=> OnTv)
    BY <1>1, <2>1, StillThere
  <2>3. ~OnTv'
    BY <1>2, <2>2 DEF OnTv, Plays
  <2>4. s.source # "HDMI"
    BY <1>2
  <2>5. IInv'
    BY <1>1, <2>1 DEF IInv, TypeOK
  <2>. QED
    BY <1>1, <2>1, <2>2, <2>3, <2>4, <2>5 DEF Keeps, LockInv, ShowInv, Steady
<1>3. CASE ~(~cfg.multi /\ s.source \in {"TV", "DTV"} /\ ~s.playing)
  <2>1. /\ s' = [s EXCEPT !.status = "STABLE"]
        /\ msg' = IF s.scanning THEN "idle" ELSE IF Locked(s) THEN "cover" ELSE "show"
    BY <1>3 DEF EndWait
  <2>2. /\ s' \in Control /\ s'.status = "STABLE"
        /\ s'.v = s.v /\ s'.source = s.source /\ s'.inVdin = s.inVdin
        /\ s'.scanning = s.scanning /\ s'.told = s.told /\ s'.playing = s.playing
        /\ s'.block = s.block /\ s'.channel = s.channel /\ s'.enabled = s.enabled
        /\ s'.layer = s.layer /\ s'.cover = s.cover
    BY <1>1, <2>1 DEF Control, Statuses
  <2>3. (HdmiInv => HdmiInv') /\ (OnTv' <=> OnTv)
    BY <1>1, <2>2, StillThere
  <2>4. IInv'
    BY <1>1, <2>1, <2>2 DEF IInv, TypeOK, Control
  <2>5. Steady'
    BY <2>2 DEF Steady
  <2>6. LockInv'
    <3>1. OnTv => ~s.scanning
      BY DEF OnTv, Plays
    <3>2. LockedBySource(s)' => Locked(s)
      BY <2>2 DEF LockedBySource, Locked
    <3>. QED
      BY <2>1, <2>3, <2>5, <3>1, <3>2 DEF LockInv
  <2>7. OnHdmi /\ ShowInv => ShowInv'
    <3>1. s.block = "NONE" /\ s.channel = "NONE" => ~Locked(s)
      BY DEF Locked, LockedBySource
    <3>2. OnTv \/ (refused = {} /\ s.source = "HDMI") => ~s.scanning \/ ~OnHdmi
      BY DEF OnTv, Plays, OnHdmi
    <3>. QED
      BY <1>1, <2>1, <2>2, <2>3, <2>5, <3>1, <3>2 DEF ShowInv
  <2>. QED
    BY <2>3, <2>4, <2>6, <2>7 DEF Keeps
<1>. QED
  BY <1>2, <1>3

\* A picture that a lock or a client covers, or uncovers, is that of the same source.
LEMMA PaintKeeps ==
    ASSUME IInv, cfg' \in AllConfigs, msg' \in {"idle", "waiting", "cover", "show"},
           missed' \in BOOLEAN,
           UNCHANGED <<signal, edge, later, refused>>,
           Good(s', refused), Painted(s, s')
    PROVE  IInv' /\ (HdmiInv => HdmiInv') /\ (OnTv' <=> OnTv) /\ (Steady => Steady')
<1>1. IInv'
  BY DEF IInv, TypeOK, Good, Control
<1>2. (HdmiInv => HdmiInv') /\ (OnTv' <=> OnTv)
  BY StillThere DEF Painted, Near
<1>. QED
  BY <1>1, <1>2 DEF Steady, Painted, Near

LEMMA UncoverLaterKeeps ==
    ASSUME IInv, UncoverLater
    PROVE  Keeps
<1>1. /\ msg \in {"cover", "show"} /\ msg' = "idle"
      /\ s' = IF msg = "cover" THEN CoverPicture(s) ELSE ShowPicture(s)
      /\ UNCHANGED <<cfg, signal, edge, later, refused, missed>> /\ s \in Control
  BY DEF UncoverLater, IInv, TypeOK, Control
<1>2. Good(s, refused)
  BY DEF IInv, TypeOK, Good, Control
<1>3. Good(s', refused) /\ Painted(s, s')
  BY <1>1, <1>2, Paint
<1>4. IInv' /\ (HdmiInv => HdmiInv') /\ (OnTv' <=> OnTv) /\ (Steady => Steady')
  BY <1>1, <1>3, PaintKeeps DEF IInv, TypeOK
<1>5. /\ msg = "cover" => ~s'.layer \/ s'.cover
      /\ msg = "show" /\ cfg.multi => ~s'.cover /\ s'.layer = s.layer
      /\ msg = "show" /\ ~cfg.multi => s'.layer /\ s'.cover = s.cover
  BY <1>1 DEF CoverPicture, ShowPicture, Control
<1>6. LockInv => LockInv'
  BY <1>1, <1>3, <1>4, <1>5 DEF LockInv, LockedBySource, Painted, Near
<1>7. ShowInv => ShowInv'
  BY <1>1, <1>3, <1>4, <1>5 DEF ShowInv, Painted, Near
<1>. QED
  BY <1>4, <1>6, <1>7 DEF Keeps

\* Only a lock is set, and perhaps the picture hidden.
Requested(t) ==
    /\ Good(t, refused)
    /\ t.v = s.v /\ t.source = s.source /\ t.inVdin = s.inVdin /\ t.playing = s.playing
    /\ t.scanning = s.scanning /\ t.status = s.status /\ t.told = s.told

\* A lock of a playing channel hides it, and is not missed.
Hides(t) ==
    t.playing /\ t.status = "STABLE" /\ LockedBySource(t) => ~t.layer /\ msg # "show"

\* What a request does.
Asked == Requested(s') /\ missed' \in BOOLEAN /\ (~missed' => Hides(s'))

LEMMA BlockChangedGood ==
    ASSUME NEW t, Requested(t)
    PROVE  /\ Requested(BlockChanged(t)) /\ BlockChanged(t).block = t.block
           /\ BlockChanged(t).enabled = t.enabled
           /\ t.status = "STABLE" /\ t.enabled => ~BlockChanged(t).layer
<1>1. Good(VppColor(t), refused) /\ Painted(t, VppColor(t))
  BY Paint DEF Requested
<1>2. ~VppColor(t).layer
  BY DEF VppColor, Requested, Good, Control
<1>3. Requested(VppColor(t))
  BY <1>1 DEF Requested, Painted, Near
<1>. QED
  BY <1>1, <1>2, <1>3 DEF BlockChanged, Painted, Near

LEMMA SetBlockedHides ==
    ASSUME IInv, NEW state \in {"NONE", "BLOCKED"}, NEW tunning \in BOOLEAN,
           SetBlocked(state, tunning)
    PROVE  Asked
<1>. DEFINE t == [s EXCEPT !.block = state]
<1>1. Requested(t) /\ t.block = state
  BY DEF IInv, TypeOK, Control, Good, Requested, Blocks
<1>2. /\ s' = IF ~tunning /\ s.playing THEN BlockChanged(t) ELSE t
      /\ missed' = (LockedBySource(t) /\ (msg = "show" \/ (tunning /\ s.playing)))
  BY DEF SetBlocked, IInv, TypeOK
<1>. HIDE DEF t
<1>3. missed' \in BOOLEAN
  BY <1>2
<1>4. CASE ~tunning /\ s.playing
  <2>1. /\ Requested(BlockChanged(t))
        /\ LockedBySource(BlockChanged(t)) => LockedBySource(t)
        /\ t.status = "STABLE" /\ LockedBySource(t) => ~BlockChanged(t).layer
        /\ BlockChanged(t).status = t.status
    BY <1>1, BlockChangedGood DEF LockedBySource, Requested
  <2>. QED
    BY <1>2, <1>3, <1>4, <2>1 DEF Hides, Asked
<1>5. CASE tunning \/ ~s.playing
  <2>1. t.playing = s.playing
    BY <1>1 DEF Requested
  <2>. QED
    BY <1>1, <1>2, <1>3, <1>5, <2>1 DEF Hides, Asked
<1>. QED
  BY <1>4, <1>5

LEMMA RequestUnblockHides ==
    ASSUME IInv, RequestUnblock
    PROVE  Asked
<1>. DEFINE t == [s EXCEPT !.block = "UNBLOCKED"]
<1>1. Requested(t) /\ t.block = "UNBLOCKED"
  BY DEF IInv, TypeOK, Control, Good, Requested, Blocks
<1>2. s' = BlockChanged(t) /\ missed' = FALSE
  BY DEF RequestUnblock
<1>. HIDE DEF t
<1>. QED
  BY <1>1, <1>2, BlockChangedGood DEF Hides, LockedBySource, Asked

LEMMA SetBlockEnableHides ==
    ASSUME IInv, SetBlockEnable
    PROVE  Asked
<1>. DEFINE t == [s EXCEPT !.enabled = ~s.enabled]
            u == IF LockedBySource(t) THEN BlockChanged(t) ELSE t
<1>1. Requested(t)
  BY DEF IInv, TypeOK, Control, Good, Requested
<1>2. /\ s' = IF t.block = "BLOCKED" /\ ~t.enabled THEN VppColor(u) ELSE u
      /\ missed' = (LockedBySource(t) /\ msg = "show")
  BY DEF SetBlockEnable, IInv, TypeOK
<1>. HIDE DEF t
<1>3. /\ Requested(u) /\ u.enabled = t.enabled /\ u.block = t.block
      /\ LockedBySource(t) /\ t.status = "STABLE" => ~u.layer
  BY <1>1, BlockChangedGood DEF LockedBySource
<1>. HIDE DEF u
<1>4. Good(VppColor(u), refused) /\ Painted(u, VppColor(u))
  BY <1>3, Paint DEF Requested
<1>5. Requested(VppColor(u)) /\ VppColor(u).enabled = t.enabled
  BY <1>3, <1>4 DEF Requested, Painted, Near
<1>6. u.source = t.source /\ u.status = t.status
  BY <1>1, <1>3 DEF Requested
<1>. QED
  BY <1>2, <1>3, <1>5, <1>6 DEF Hides, LockedBySource, Asked

\* The lock of the current channel is used where the lock of the source is not.
LEMMA ChannelHides ==
    ASSUME IInv, s.block = "NONE", NEW state \in {"BLOCKED", "UNBLOCKED"},
           NEW t, t = [s EXCEPT !.channel = state],
           s' \in {t, CoverPicture(t), ShowPicture(t)}, missed' = FALSE
    PROVE  Asked
<1>1. Requested(t) /\ t.block = "NONE"
  BY DEF IInv, TypeOK, Control, Good, Requested, Blocks
<1>2. \A u \in {CoverPicture(t), ShowPicture(t)} : Good(u, refused) /\ Painted(t, u)
  BY <1>1, Paint DEF Requested
<1>3. Requested(s') /\ s'.block = "NONE"
  BY <1>1, <1>2 DEF Requested, Painted, Near
<1>. QED
  BY <1>3 DEF Hides, LockedBySource, Asked

LEMMA RequestKeeps ==
    ASSUME IInv, Request
    PROVE  Keeps
<1>1. UNCHANGED <<cfg, signal, edge, later, msg, refused>>
  BY DEF Request
<1>2. Asked
  <2>1. CASE \E state \in {"NONE", "BLOCKED"}, tunning \in BOOLEAN : SetBlocked(state, tunning)
    BY <2>1, SetBlockedHides
  <2>2. CASE RequestUnblock
    BY <2>2, RequestUnblockHides
  <2>3. CASE SetBlockEnable
    BY <2>3, SetBlockEnableHides
  <2>4. CASE s.block = "NONE" /\ \E state \in {"BLOCKED", "UNBLOCKED"} : SetChannelStatus(state)
    BY <2>4, ChannelHides DEF SetChannelStatus
  <2>5. CASE s.block = "NONE" /\ BlockCurrentChannel
    BY <2>5, ChannelHides DEF BlockCurrentChannel
  <2>6. CASE s.block = "NONE" /\ UnblockCurrentChannel
    BY <2>6, ChannelHides DEF UnblockCurrentChannel
  <2>. QED
    BY <2>1, <2>2, <2>3, <2>4, <2>5, <2>6 DEF Request
<1>3. IInv'
  BY <1>1, <1>2 DEF IInv, TypeOK, Asked, Requested, Good, Control
<1>4. (HdmiInv => HdmiInv') /\ (OnTv' <=> OnTv)
  BY <1>1, <1>2, StillThere DEF Asked, Requested
<1>5. Steady => Steady'
  BY <1>1, <1>2, <1>4 DEF Steady, Asked, Requested
<1>6. ASSUME LockInv
      PROVE  LockInv'
  <2>1. ASSUME ~missed', OnTv', ~edge', signal' = "STABLE", LockedBySource(s)'
        PROVE  ~s'.layer /\ msg' # "show"
    <3>1. s'.playing /\ s'.status = "STABLE" /\ LockedBySource(s')
      BY <1>5, <1>6, <2>1 DEF LockInv, Steady, OnTv, Plays, LockedBySource
    <3>. QED
      BY <1>1, <1>2, <2>1, <3>1 DEF Asked, Hides
  <2>. QED
    BY <1>5, <1>6, <2>1 DEF LockInv
<1>7. ~(Requests \subseteq {"color"})
  BY DEF Request
<1>. QED
  BY <1>3, <1>4, <1>6, <1>7 DEF Keeps

LEMMA ScreenColorChangeKeeps ==
    ASSUME IInv, ScreenColorChange
    PROVE  Keeps
<1>1. /\ s' \in {s, CoverPicture(s), ColorOnce(s)}
      /\ s.source = "TV" /\ s.block = "BLOCKED" => s' = CoverPicture(s)
      /\ s.block = "NONE" /\ s.status # "NOSIG" => s' = s
      /\ s.source = "HDMI" => s' \in {s, ColorOnce(s)}
      /\ UNCHANGED <<signal, edge, later, msg, refused, missed>> /\ s \in Control
  BY DEF ScreenColorChange, IInv, TypeOK, Control
<1>2. cfg' \in AllConfigs /\ cfg'.multi = cfg.multi
  BY DEF ScreenColorChange, IInv, TypeOK, AllConfigs
<1>3. Good(s, refused)
  BY DEF IInv, TypeOK, Good, Control
<1>4. Good(s', refused) /\ Painted(s, s')
  <2>1. Painted(s, s)
    BY DEF Painted, Near, Lit
  <2>. QED
    BY <1>1, <1>3, <2>1, Paint
<1>5. IInv' /\ (HdmiInv => HdmiInv') /\ (OnTv' <=> OnTv) /\ (Steady => Steady')
  BY <1>1, <1>2, <1>4, PaintKeeps DEF IInv, TypeOK
<1>6. /\ s' = CoverPicture(s) => ~s'.layer \/ s'.cover
      /\ s' = ColorOnce(s) => (s'.layer \/ s'.layer = s.layer) /\ (s'.cover => s.cover)
  BY <1>1 DEF CoverPicture, ColorOnce, Control
<1>7. LockInv => LockInv'
  BY <1>1, <1>4, <1>5, <1>6 DEF LockInv, LockedBySource, OnTv, Plays, Painted, Near
<1>8. ShowInv => ShowInv'
  <2>1. ASSUME ShowInv
        PROVE  s'.block = "NONE" /\ s'.channel = "NONE" /\ msg' # "cover" /\ (~cfg'.multi => ~s'.cover)
    BY <1>1, <1>2, <1>4, <2>1 DEF ShowInv, Painted, Near, Lit
  <2>2. ASSUME ShowInv, OnTv \/ (refused = {} /\ s.source = "HDMI"), ~edge, signal = "STABLE"
        PROVE  /\ s'.v.decoding /\ s'.layer
               /\ s'.cover => later > 0 \/ msg \in {"waiting", "show"}
    <3>1. s' \in {s, ColorOnce(s)}
      BY <1>1, <2>2 DEF ShowInv, Steady
    <3>. QED
      BY <1>4, <1>6, <2>2, <3>1 DEF ShowInv, Painted
  <2>. QED
    BY <1>1, <1>4, <1>5, <2>1, <2>2 DEF ShowInv, Painted, Near
<1>. QED
  BY <1>5, <1>7, <1>8 DEF Keeps
-----------------------------------------------------------------------------
(* Every step. *)

LEMMA StepKeeps ==
    ASSUME IInv, [Next]_vars
    PROVE  Keeps
<1>1. CASE SignalChange
  BY <1>1, SignalChangeKeeps
<1>2. CASE DropSignal
  BY <1>2, DropSignalKeeps
<1>3. CASE SwitchVrr
  BY <1>3, SwitchVrrKeeps
<1>4. CASE BeginWait
  BY <1>4, BeginWaitKeeps
<1>5. CASE EndWait
  BY <1>5, EndWaitKeeps
<1>6. CASE UncoverLater
  BY <1>6, UncoverLaterKeeps
<1>7. CASE StartTv
  BY <1>7, StartTvReports, ReportsKeep
<1>8. CASE Request
  BY <1>8, RequestKeeps
<1>9. CASE ScreenColorChange
  BY <1>9, ScreenColorChangeKeeps
<1>10. ASSUME NEW bad \in DecoderCalls, Refuse(bad), SignalStable(bad) \/ SignalNotStable(bad)
       PROVE  Keeps
  <2>1. bad \in SUBSET Refusals
    BY CallsAreRefusals
  <2>. QED
    BY <1>10, <2>1, SignalStableKeeps, SignalNotStableKeeps
<1>11. ASSUME NEW bad \in PortCalls, Refuse(bad),
              SwitchSource(bad) \/ PlayAtv(bad) \/ AutoScan(bad) \/ ManualScan(bad)
       PROVE  Keeps
  <2>1. bad \in SUBSET Refusals
    BY CallsAreRefusals
  <2>2. IInv' /\ Reports
    BY <1>11, <2>1, SwitchSourceReports, PlayAtvReports, AutoScanReports, ManualScanReports
  <2>. QED
    BY <2>2, ReportsKeep
<1>12. ASSUME NEW bad \in StopCalls, Refuse(bad),
              TuneAtv(bad) \/ TuneDtv(bad) \/ StopScan(bad) \/ StopTv(bad) \/ SetVrr(bad)
       PROVE  Keeps
  <2>1. bad \in SUBSET Refusals
    BY CallsAreRefusals
  <2>2. IInv' /\ Reports
    BY <1>12, <2>1, TuneAtvReports, TuneDtvReports, StopScanReports, StopTvReports, SetVrrReports
  <2>. QED
    BY <2>2, ReportsKeep
<1>13. CASE UNCHANGED vars
  <2>1. UNCHANGED <<cfg, s, signal, edge, later, msg, refused, missed>>
    BY <1>13 DEF vars
  <2>2. IInv'
    BY <2>1 DEF IInv, TypeOK
  <2>3. (HdmiInv => HdmiInv') /\ (OnTv' <=> OnTv)
    BY <2>1, StillThere
  <2>. QED
    BY <2>1, <2>2, <2>3 DEF Keeps, LockInv, ShowInv, Steady, LockedBySource
<1>. QED
  BY <1>1, <1>2, <1>3, <1>4, <1>5, <1>6, <1>7, <1>8, <1>9, <1>10, <1>11, <1>12, <1>13 DEF Next

LEMMA InitKept ==
    ASSUME Init
    PROVE  IInv /\ HdmiInv /\ LockInv /\ ShowInv
<1>1. /\ cfg \in AllConfigs /\ s.v = VdinInit /\ s.source = "INVALID" /\ ~s.playing
      /\ s.block = "NONE" /\ s.channel = "NONE" /\ ~s.cover /\ msg = "idle"
  BY ScreenAssumption DEF Init
<1>2. IInv
  <2>1. VGood(VdinInit, {})
    BY DEF VGood, VdinInit, VdinType, Ports, Resources
  <2>2. s \in Control
    <3>1. VdinInit \in VdinType
      BY <2>1 DEF VGood
    <3>2. "INVALID" \in Sources /\ "NULL" \in Statuses /\ "NONE" \in Blocks
      BY DEF Sources, Statuses, Blocks
    <3>. QED
      BY <3>1, <3>2 DEF Init, Control
  <2>3. signal \in Statuses /\ edge \in BOOLEAN /\ later \in 0..MaxMessages
        /\ msg \in {"idle", "waiting", "cover", "show"} /\ refused = {} /\ missed \in BOOLEAN
    <3>1. /\ signal = "NULL" /\ edge = FALSE /\ later = 0 /\ msg = "idle" /\ refused = {}
          /\ missed = FALSE
      BY DEF Init
    <3>2. later \in 0..MaxMessages
      BY <3>1, ScreenAssumption
    <3>3. edge \in BOOLEAN
      BY <3>1
    <3>. QED
      BY <3>1, <3>2, <3>3 DEF Statuses
  <2>. QED
    BY <1>1, <2>1, <2>2, <2>3 DEF IInv, TypeOK, Control
<1>. QED
  BY <1>1, <1>2 DEF HdmiInv, OnHdmi, Followed, LockInv, ShowInv, Steady, OnTv, Plays, VdinInit

THEOREM Inductive == Spec => []IInv
<1>1. Init => IInv
  BY InitKept
<1>2. IInv /\ [Next]_vars => IInv'
  BY StepKeeps DEF Keeps
<1>. QED
  BY <1>1, <1>2, PTL DEF Spec

\* The types, and that the bounds of the messages hold, with whatever the devices
\* refuse.
THEOREM TypeCorrect == Spec => []TypeOK
<1>1. IInv => TypeOK
  BY DEF IInv
<1>. QED
  BY <1>1, Inductive, PTL

\* Tvin_StartDecoder, Tvin_StopDecoder, Tvin_WaitPathInactive, VDIN_OpenPort and
\* VDIN_ClosePort ask for and free what the decoder and the port are used under,
\* from whichever operation or report they are called, and whatever is refused.
THEOREM ResourcesAreHeld == Spec => []ResourcesFollow
<1>1. IInv => ResourcesFollow
  BY DEF IInv, VGood, ResourcesFollow
<1>. QED
  BY <1>1, Inductive, PTL

LEMMA HdmiKept ==
    ASSUME HdmiApart
    PROVE  Spec => [](IInv /\ HdmiInv)
<1>1. Init => IInv /\ HdmiInv
  BY InitKept
<1>2. IInv /\ HdmiInv /\ [Next]_vars => IInv' /\ HdmiInv'
  BY StepKeeps DEF Keeps, HdmiApart
<1>. QED
  BY <1>1, <1>2, PTL DEF Spec

\* If nobody tunes or scans while HDMI is the source, onSigStatusChange starts
\* and stops the decoder of HDMI with its signal and tells the clients of it, and
\* no operation of another source, no lock and no message leaves it behind.
THEOREM DecoderIsFollowed == "HDMI" \notin TunerSources => (Spec => []DecoderFollows)
<1>. SUFFICES ASSUME HdmiApart
              PROVE  Spec => []DecoderFollows
  BY DEF HdmiApart
<1>1. HdmiInv => DecoderFollows
  BY DEF HdmiInv, Followed, DecoderFollows, Watched
<1>. QED
  BY <1>1, HdmiKept, PTL

\* A channel that SetBlocked or SetBlockEnable locked stays hidden through every
\* report of its signal, and isVideoFrameAvailable does not uncover it: a lock that
\* came between its test and what it did then, or that a client set while it said
\* it was tuning what plays, counts from the next test on.
THEOREM LockedStaysHidden == Spec => []LockedHidden
<1>1. Init => IInv /\ LockInv
  BY InitKept
<1>2. IInv /\ LockInv /\ [Next]_vars => IInv' /\ LockInv'
  BY StepKeeps DEF Keeps
<1>3. IInv /\ LockInv => LockedHidden
  BY DEF IInv, TypeOK, LockInv, LockedHidden, Watched, Visible, OnTv, Plays, LockedBySource
<1>. QED
  BY <1>1, <1>2, <1>3, PTL DEF Spec

\* If nobody tunes or scans while HDMI is the source, and as long as nobody locks
\* a channel, a watched source with a signal is seen: onSigStillStable undoes
\* what StopTvLock, setFrontEnd, the scans and the other handlers left dark.
THEOREM PictureIsShown ==
    "HDMI" \notin TunerSources /\ Requests \subseteq {"color"} => (Spec => []PictureShown)
<1>. SUFFICES ASSUME HdmiApart, Requests \subseteq {"color"}
              PROVE  Spec => []PictureShown
  BY DEF HdmiApart
<1>1. Init => IInv /\ HdmiInv /\ ShowInv
  BY InitKept
<1>2. IInv /\ HdmiInv /\ ShowInv /\ [Next]_vars => IInv' /\ HdmiInv' /\ ShowInv'
  BY StepKeeps DEF Keeps, HdmiInv
<1>3. IInv /\ ShowInv => PictureShown
  BY DEF IInv, TypeOK, ShowInv, PictureShown, Watched, Visible, OnTv, Plays
<1>. QED
  BY <1>1, <1>2, <1>3, PTL DEF Spec
=============================================================================
