-------------------------- MODULE TvControl_proofs --------------------------
(***************************************************************************)
(* Proofs about TvControl: its invariants hold for every set of programs,  *)
(* whatever the interleaving of the calls that take mLock with those that  *)
(* do not, as long as clients begin no scan for ATV while DTV is the       *)
(* source.                                                                 *)
(*                                                                         *)
(* Good says of one state record what the helpers rely on and restore;     *)
(* IInv adds where StopTvLock is.                                          *)
(***************************************************************************)
EXTENDS TvControl, TvSignal, FiniteSetTheorems, TLAPS

Flags == {"IN_VDIN", "STOPING", "SCANNING", "PLAYING"}

State == [action  : SUBSET Flags,
          status  : {"OPEN", "START", "STOP"},
          source  : Sources,
          same    : BOOLEAN,
          fe      : BOOLEAN,
          tuned   : Programs \cup {None},
          port    : {"TV", "HDMI", None},
          decoder : BOOLEAN,
          av      : BOOLEAN,
          player  : {"TV", "DTV", None},
          scan    : BOOLEAN]

\* What every operation finds and leaves, but for the devices of a state in
\* the middle of StopTvLock.  A scan goes on without the ts player: this is
\* why stopScan may give the source up.
Good(s) ==
    /\ s \in State
    /\ s.scan => "SCANNING" \in s.action
    /\ s.av => s.source = "DTV" /\ "PLAYING" \in s.action
    /\ "SCANNING" \in s.action => ~s.av
    /\ s.decoder => s.port # None
    /\ s.source = "DTV" => s.port = None

\* t is a good state with the same STOPING as s.
Follows(s, t) ==
    /\ Good(t)
    /\ "STOPING" \in t.action <=> "STOPING" \in s.action

StopPlaces == {"no", "waiting", "raised", "begun", "halted"}

IInv ==
    /\ Good(tv)
    /\ stop \in [Callers -> StopPlaces]
    /\ play \in {"no", "live", "asking"}
    /\ play # "no" => \A c \in Callers : ~Holds(c)
    /\ pause \in {"no", "flagged", "use"}
    /\ reset \in {"no", "checked"}
    /\ StopingTruthful
    /\ \A c \in Callers : /\ Holds(c) => "IN_VDIN" \notin tv.action
                          /\ stop[c] = "begun" => "PLAYING" \notin tv.action
    /\ StopLeavesIdle

-----------------------------------------------------------------------------
(* The helpers. *)

\* stopPlaying restores what it finds: the ts player, which runs on DTV only,
\* stops with PLAYING.
LEMMA StopPlayingGood ==
    ASSUME NEW s, Good(s)
    PROVE  /\ Follows(s, StopPlaying(s))
           /\ ~StopPlaying(s).av
           /\ "PLAYING" \notin StopPlaying(s).action
           /\ StopPlaying(s).action \subseteq s.action
<1>1. CASE "PLAYING" \notin s.action
  BY <1>1 DEF StopPlaying, Good, Follows
<1>2. CASE "PLAYING" \in s.action
  <2>. DEFINE t == [s EXCEPT !.action = @ \ {"PLAYING"}, !.av = @ /\ s.source # "DTV"]
  <2>1. StopPlaying(s) = t
    BY <1>2 DEF StopPlaying
  <2>2. t \in State
    BY DEF Good, State
  <2>3. /\ t.action = s.action \ {"PLAYING"} /\ ~t.av /\ t.scan = s.scan
        /\ t.decoder = s.decoder /\ t.port = s.port /\ t.source = s.source
    BY DEF Good, State
  <2>. QED
    BY <2>1, <2>2, <2>3 DEF Good, Follows
<1>. QED
  BY <1>1, <1>2

\* Stopping and releasing the players does no more than stopPlaying.
LEMMA StopPlayerGood ==
    ASSUME NEW s, Good(s)
    PROVE  /\ Follows(s, StopPlayer(s))
           /\ StopPlayer(s).action \subseteq s.action
BY StopPlayingGood DEF StopPlayer, Follows

\* Releasing the players restores what stopPlaying does.
LEMMA ReleaseAllGood ==
    ASSUME NEW s, Good(s)
    PROVE  /\ Follows(s, ReleaseAll(s))
           /\ ReleaseAll(s).action \subseteq s.action
<1>. DEFINE t == StopPlayer(s)
            u == [t EXCEPT !.player = None]
<1>1. Follows(s, t) /\ t.action \subseteq s.action
  BY StopPlayerGood
<1>. HIDE DEF t
<1>2. u \in State
  BY <1>1 DEF Follows, Good, State
<1>3. /\ u.action = t.action /\ u.scan = t.scan /\ u.av = t.av
      /\ u.decoder = t.decoder /\ u.port = t.port /\ u.source = t.source
  BY <1>1 DEF Follows, Good, State
<1>4. ReleaseAll(s) = u
  BY DEF ReleaseAll, t
<1>. QED
  BY <1>1, <1>2, <1>3, <1>4 DEF Follows, Good

\* Every way to end a scan clears SCANNING only with the scanner stopped.
LEMMA EndScanGood ==
    ASSUME NEW s, Good(s)
    PROVE  /\ Follows(s, EndScan(s))
           /\ "SCANNING" \notin EndScan(s).action
           /\ EndScan(s).source = s.source
<1>1. CASE "SCANNING" \notin s.action
  BY <1>1 DEF EndScan, Good, Follows
<1>2. CASE "SCANNING" \in s.action
  <2>. DEFINE t == [s EXCEPT !.action = @ \ {"SCANNING"}, !.decoder = FALSE,
                             !.scan = FALSE, !.fe = FALSE, !.tuned = None]
  <2>1. EndScan(s) = t
    BY <1>2 DEF EndScan
  <2>2. t \in State
    BY DEF Good, State
  <2>3. /\ t.action = s.action \ {"SCANNING"} /\ t.av = s.av /\ ~t.scan
        /\ ~t.decoder /\ t.port = s.port /\ t.source = s.source
    BY DEF Good, State
  <2>. QED
    BY <2>1, <2>2, <2>3 DEF Good, Follows
<1>. QED
  BY <1>1, <1>2

\* stopScan leaves neither scanner nor SCANNING.
LEMMA StopScanGood ==
    ASSUME NEW s, Good(s)
    PROVE  /\ Follows(s, StopScan(s))
           /\ StopScan(s).action = s.action \ {"SCANNING"}
           /\ ~StopScan(s).scan
<1>1. CASE "SCANNING" \notin s.action
  BY <1>1 DEF StopScan, Good, Follows
<1>2. CASE "SCANNING" \in s.action
  <2>. DEFINE t == [s EXCEPT !.action = @ \ {"SCANNING"}, !.decoder = FALSE,
                             !.scan = FALSE, !.fe = FALSE, !.tuned = None,
                             !.port = None, !.source = "INVALID"]
  <2>1. StopScan(s) = t
    BY <1>2 DEF StopScan
  <2>2. t \in State
    BY DEF Good, State, Sources
  <2>3. /\ t.action = s.action \ {"SCANNING"} /\ t.av = s.av /\ ~t.scan
        /\ ~t.decoder /\ t.port = None /\ t.source = "INVALID"
    BY DEF Good, State
  <2>. QED
    BY <1>2, <2>1, <2>2, <2>3 DEF Good, Follows
<1>. QED
  BY <1>1, <1>2

\* Tuning touches nothing that Good is about.
LEMMA TuneGood ==
    ASSUME NEW s, Good(s), NEW p \in Programs
    PROVE  /\ Follows(s, Tune(s, p))
           /\ Tune(s, p).action = s.action
           /\ Tune(s, p).av = s.av
           /\ Tune(s, p).source = s.source
<1>1. Tune(s, p) \in State
  BY DEF Good, State, Tune
<1>2. /\ Tune(s, p).action = s.action /\ Tune(s, p).scan = s.scan
      /\ Tune(s, p).av = s.av /\ Tune(s, p).decoder = s.decoder
      /\ Tune(s, p).port = s.port /\ Tune(s, p).source = s.source
  BY DEF Good, State, Tune
<1>. QED
  BY <1>1, <1>2 DEF Good, Follows

\* A source switch ends the scan and leaves DTV without a vdin port.
LEMMA SwitchSourceGood ==
    ASSUME NEW s, Good(s), NEW src \in Sources \ {"INVALID"}, NEW ok \in BOOLEAN
    PROVE  /\ Follows(s, SwitchSource(s, src, ok))
           /\ "SCANNING" \notin SwitchSource(s, src, ok).action
           /\ SwitchSource(s, src, ok).source = src
<1>. DEFINE e == EndScan(s)
            t == StopPlaying(e)
            d == [t EXCEPT !.source = src, !.fe = TRUE, !.decoder = FALSE, !.port = None]
            o == [t EXCEPT !.source = src,
                           !.fe = src = "TV",
                           !.tuned = IF src = "TV" THEN @ ELSE None,
                           !.decoder = FALSE,
                           !.port = IF ok THEN src ELSE None,
                           !.action = IF ok THEN @ \cup {"IN_VDIN"} ELSE @]
<1>1. Follows(s, e) /\ "SCANNING" \notin e.action /\ e.source = s.source
  BY EndScanGood
<1>2. /\ Follows(e, t) /\ ~t.av /\ t.action \subseteq e.action
  BY <1>1, StopPlayingGood DEF Follows
<1>3. SwitchSource(s, src, ok) = IF src = s.source /\ src # "TV" THEN e
                                 ELSE IF src = "DTV" THEN d ELSE o
  BY DEF SwitchSource
<1>. HIDE DEF e, t
<1>4. CASE src = s.source /\ src # "TV"
  BY <1>1, <1>3, <1>4
<1>5. CASE ~(src = s.source /\ src # "TV") /\ src = "DTV"
  <2>1. d \in State
    BY <1>2 DEF Follows, Good, State
  <2>2. /\ d.action = t.action /\ d.scan = t.scan /\ d.av = t.av
        /\ ~d.decoder /\ d.port = None /\ d.source = src
    BY <1>2 DEF Follows, Good, State
  <2>. QED
    BY <1>1, <1>2, <1>3, <1>5, <2>1, <2>2 DEF Follows, Good
<1>6. CASE ~(src = s.source /\ src # "TV") /\ src # "DTV"
  <2>1. o \in State
    BY <1>2, <1>6 DEF Follows, Good, State, Sources, Flags
  <2>2. /\ o.action \in {t.action, t.action \cup {"IN_VDIN"}}
        /\ o.scan = t.scan /\ o.av = t.av
        /\ ~o.decoder /\ o.source = src
    BY <1>2 DEF Follows, Good, State
  <2>. QED
    BY <1>1, <1>2, <1>3, <1>6, <2>1, <2>2 DEF Follows, Good
<1>. QED
  BY <1>4, <1>5, <1>6

-----------------------------------------------------------------------------
(* The steps. *)

\* A step that leaves a good state keeps the invariant while no StopTvLock holds
\* mLock.
LEMMA HeldStep ==
    ASSUME IInv, \A c \in Callers : ~Holds(c), Follows(tv, tv'),
           play' \in {"no", "live", "asking"}, UNCHANGED <<stop, pause, reset>>
    PROVE  IInv'
<1>1. (\A c \in Callers : ~Holds(c))'
  BY DEF Holds
<1>2. Good(tv)' /\ StopingTruthful'
  BY <1>1 DEF IInv, StopingTruthful, Follows, Good
<1>. QED
  BY <1>1, <1>2 DEF IInv, StopLeavesIdle, Holds

\* So does an operation under mLock.
LEMMA LockedStep ==
    ASSUME IInv, NEW s, Follows(tv, s), Locked(s)
    PROVE  IInv'
<1>1. LockFree /\ tv' = s /\ play' = play /\ UNCHANGED <<stop, pause, reset>>
  BY DEF Locked
<1>2. Follows(tv, tv')
  BY <1>1
<1>3. \A c \in Callers : ~Holds(c)
  BY <1>1 DEF LockFree
<1>4. play' \in {"no", "live", "asking"}
  BY <1>1 DEF IInv
<1>. QED
  BY <1>1, <1>2, <1>3, <1>4, HeldStep

\* What the operations under mLock write on top of the helpers.  Only the
\* fields that Good speaks of matter.
LEMMA StartStep ==
    ASSUME IInv, StartTvLock
    PROVE  IInv'
<1>. DEFINE s == [tv EXCEPT !.status = "START", !.action = @ \ {"STOPING"}]
<1>1. Locked(s) /\ Good(tv) /\ "STOPING" \notin tv.action
  BY DEF StartTvLock, Locked, IInv, StopingTruthful, LockFree
<1>2. s \in State
  BY <1>1 DEF Good, State
<1>3. /\ s.action = tv.action \ {"STOPING"} /\ s.scan = tv.scan /\ s.av = tv.av
      /\ s.decoder = tv.decoder /\ s.port = tv.port /\ s.source = tv.source
  BY <1>1 DEF Good, State
<1>4. Follows(tv, s)
  BY <1>1, <1>2, <1>3 DEF Follows, Good
<1>. HIDE DEF s
<1>. QED
  BY <1>1, <1>4, LockedStep

\* A source switch by a client keeps the invariant.
LEMMA SwitchStep ==
    ASSUME IInv, SetSourceSwitchInput
    PROVE  IInv'
<1>1. PICK src \in Sources \ {"INVALID"}, ok \in BOOLEAN, named \in BOOLEAN :
          Locked(SwitchSource(IF named /\ src = "HDMI" THEN ReleaseAll(tv) ELSE tv, src, ok))
  BY DEF SetSourceSwitchInput
<1>. DEFINE s == IF named /\ src = "HDMI" THEN ReleaseAll(tv) ELSE tv
<1>2. Follows(tv, s)
  BY ReleaseAllGood DEF IInv, Follows
<1>. HIDE DEF s
<1>3. Follows(tv, SwitchSource(s, src, ok))
  BY <1>2, SwitchSourceGood DEF Follows
<1>. QED
  BY <1>1, <1>3, LockedStep DEF s

\* The player whose device is kept is of no account to Good.
LEMMA PlayerGood ==
    ASSUME NEW s, Good(s), NEW d \in {"TV", "DTV", None}
    PROVE  Follows(s, [s EXCEPT !.player = d])
<1>. DEFINE t == [s EXCEPT !.player = d]
<1>1. t \in State
  BY DEF Good, State
<1>2. /\ t.action = s.action /\ t.scan = s.scan /\ t.av = s.av
      /\ t.decoder = s.decoder /\ t.port = s.port /\ t.source = s.source
  BY DEF Good, State
<1>. QED
  BY <1>1, <1>2 DEF Follows, Good

\* However DTV comes to be played, it is on the screen in the end, without a
\* scan, and the frontend is tuned.
LEMMA PlayDtvGood ==
    ASSUME NEW s, Good(s), NEW p \in Programs, NEW ok \in BOOLEAN
    PROVE  LET u == PlayDtv(s, p, ok)
           IN  /\ Follows(s, u) /\ u.source = "DTV" /\ "PLAYING" \in u.action
               /\ "SCANNING" \notin u.action /\ u.tuned = p
<1>. DEFINE w == SwitchSource(s, "DTV", TRUE)
            t == Tune(w, p)
            u == [t EXCEPT !.action = @ \cup {"PLAYING"}, !.av = ok]
<1>1. Follows(s, w) /\ "SCANNING" \notin w.action /\ w.source = "DTV"
  BY SwitchSourceGood DEF Sources
<1>. HIDE DEF w
<1>2. Follows(w, t) /\ t.action = w.action /\ t.source = w.source /\ t.tuned = p
  BY <1>1, TuneGood DEF Follows, Tune, Good, State
<1>. HIDE DEF t
<1>3. u \in State
  BY <1>2 DEF Follows, Good, State, Flags
<1>4. /\ u.action = t.action \cup {"PLAYING"} /\ u.av = ok /\ u.tuned = p
      /\ u.scan = t.scan /\ u.decoder = t.decoder
      /\ u.port = t.port /\ u.source = t.source
  BY <1>2 DEF Follows, Good, State
<1>5. Follows(s, u)
  BY <1>1, <1>2, <1>3, <1>4 DEF Follows, Good
<1>6. PlayDtv(s, p, ok) = u
  BY DEF PlayDtv, u, t, w
<1>. HIDE DEF u
<1>. QED
  BY <1>1, <1>2, <1>4, <1>5, <1>6

\* The old player stops before.
LEMMA NewPlayerGood == ASSUME Good(tv) PROVE Follows(tv, NewDtvPlayer)
<1>. DEFINE o == StopPlayer(tv)
<1>1. Follows(tv, o)
  BY StopPlayerGood
<1>. HIDE DEF o
<1>2. Follows(tv, [o EXCEPT !.player = "DTV"])
  BY <1>1, PlayerGood DEF Follows
<1>. QED
  BY <1>2 DEF NewDtvPlayer, o

\* What the start of a DTV player does to the tv: it gives up, or DTV is played.
LEMMA DtvPlayed ==
    ASSUME IInv, StartDtv \/ StartTimeShift \/ StartLive
    PROVE  /\ \A c \in Callers : ~Holds(c)
           /\ play' \in {"no", "live", "asking"} /\ UNCHANGED <<stop, pause, reset>>
           /\ \/ StartDtv /\ tv' = NewDtvPlayer /\ play' = play
              \/ \E s \in {tv, NewDtvPlayer}, p \in Programs, ok \in BOOLEAN :
                    tv' = PlayDtv(s, p, ok)
<1>1. CASE StartDtv
  BY <1>1 DEF StartDtv, LockFree, IInv
<1>2. CASE StartTimeShift
  BY <1>2 DEF StartTimeShift, LockFree
<1>3. CASE StartLive
  BY <1>3 DEF StartLive, IInv
<1>. QED
  BY <1>1, <1>2, <1>3

\* So does playing a DTV program or a timeshift.
LEMMA StartDtvStep ==
    ASSUME IInv, StartDtv \/ StartTimeShift \/ StartLive
    PROVE  IInv'
<1>1. Good(tv) /\ Follows(tv, tv) /\ Follows(tv, NewDtvPlayer)
  BY NewPlayerGood DEF IInv, Follows
<1>2. ASSUME NEW s \in {tv, NewDtvPlayer}, NEW p \in Programs, NEW ok \in BOOLEAN
      PROVE  Follows(tv, PlayDtv(s, p, ok))
  BY <1>1, PlayDtvGood DEF Follows
<1>3. Follows(tv, tv')
  BY <1>1, <1>2, DtvPlayed
<1>. QED
  BY <1>3, DtvPlayed, HeldStep

\* And asking for the check.
LEMMA AskStep == ASSUME IInv, AskForCheck PROVE IInv'
<1>1. /\ \A c \in Callers : ~Holds(c)
      /\ tv' = tv /\ play' = "no" /\ UNCHANGED <<stop, pause, reset>>
  BY DEF AskForCheck, IInv
<1>2. Follows(tv, tv')
  BY <1>1 DEF IInv, Follows
<1>. QED
  BY <1>1, <1>2, HeldStep

\* So does playing an ATV program.
LEMMA StartAtvStep ==
    ASSUME IInv, StartAtv
    PROVE  IInv'
<1>. DEFINE o == StopPlayer(tv)
            s == [o EXCEPT !.player = "TV"]
            w(ok) == SwitchSource(s, "TV", ok)
            t(p, ok) == Tune(w(ok), p)
            u(p, ok) == [t(p, ok) EXCEPT !.action = @ \cup {"IN_VDIN", "PLAYING"}]
<1>1. PICK p \in Programs, ok \in BOOLEAN :
          Locked(IF tv.status = "STOP" THEN s ELSE u(p, ok))
  BY DEF StartAtv
<1>2. Follows(tv, o)
  BY StopPlayerGood DEF IInv
<1>3. Follows(tv, s)
  <2>. HIDE DEF o
  <2>. QED
    BY <1>2, PlayerGood DEF Follows
<1>. HIDE DEF s
<1>4. /\ Follows(s, w(ok)) /\ "SCANNING" \notin w(ok).action
      /\ w(ok).source = "TV"
  BY <1>3, SwitchSourceGood DEF Follows, Sources
<1>. HIDE DEF w
<1>5. /\ Follows(w(ok), t(p, ok)) /\ t(p, ok).action = w(ok).action
      /\ t(p, ok).source = w(ok).source
  BY <1>4, TuneGood DEF Follows
<1>. HIDE DEF t
<1>6. u(p, ok) \in State
  BY <1>5 DEF Follows, Good, State, Flags
<1>7. /\ u(p, ok).action = t(p, ok).action \cup {"IN_VDIN", "PLAYING"}
      /\ u(p, ok).av = t(p, ok).av /\ u(p, ok).scan = t(p, ok).scan
      /\ u(p, ok).decoder = t(p, ok).decoder
      /\ u(p, ok).port = t(p, ok).port /\ u(p, ok).source = t(p, ok).source
  BY <1>5 DEF Follows, Good, State
<1>8. Follows(tv, u(p, ok))
  BY <1>3, <1>4, <1>5, <1>6, <1>7 DEF Follows, Good
<1>. HIDE DEF u
<1>. QED
  BY <1>1, <1>3, <1>8, LockedStep

\* So does stopping the player.
LEMMA StopPlayStep ==
    ASSUME IInv, StopPlay
    PROVE  IInv'
<1>1. Locked(ReleaseAll(tv))
  BY DEF StopPlay, ReleaseAll
<1>2. Follows(tv, ReleaseAll(tv))
  BY ReleaseAllGood DEF IInv
<1>. QED
  BY <1>1, <1>2, LockedStep

\* A tuner call from a client leaves no port under a decoder: whichever way it
\* tunes, the decoder stops.
LEMMA FrontEndStep ==
    ASSUME IInv, setFrontEnd
    PROVE  IInv'
<1>. DEFINE s(p) == Tune(StopPlaying(tv), p)
            a(p) == [s(p) EXCEPT !.action = @ \cup {"IN_VDIN"}, !.decoder = FALSE]
            d(p) == [s(p) EXCEPT !.action = @ \ {"IN_VDIN"}, !.decoder = FALSE,
                                 !.port = None]
<1>1. PICK p \in Programs, analog \in BOOLEAN :
          Locked(IF analog THEN a(p) ELSE d(p))
  BY DEF setFrontEnd
<1>2. /\ Follows(tv, StopPlaying(tv)) /\ ~StopPlaying(tv).av
  BY StopPlayingGood DEF IInv
<1>3. /\ Follows(StopPlaying(tv), s(p)) /\ ~s(p).av
  BY <1>2, TuneGood DEF Follows
<1>4. Follows(tv, s(p)) /\ ~s(p).av
  BY <1>2, <1>3 DEF Follows
<1>. HIDE DEF s
<1>5. Follows(tv, a(p))
  <2>1. a(p) \in State
    BY <1>4 DEF Follows, Good, State, Flags
  <2>2. /\ a(p).action = s(p).action \cup {"IN_VDIN"} /\ a(p).av = s(p).av
        /\ a(p).scan = s(p).scan /\ ~a(p).decoder
        /\ a(p).port = s(p).port /\ a(p).source = s(p).source
    BY <1>4 DEF Follows, Good, State
  <2>. QED
    BY <1>4, <2>1, <2>2 DEF Follows, Good
<1>6. Follows(tv, d(p))
  <2>1. d(p) \in State
    BY <1>4 DEF Follows, Good, State
  <2>2. /\ d(p).action = s(p).action \ {"IN_VDIN"} /\ d(p).av = s(p).av
        /\ d(p).scan = s(p).scan /\ ~d(p).decoder
        /\ d(p).port = None /\ d(p).source = s(p).source
    BY <1>4 DEF Follows, Good, State
  <2>. QED
    BY <1>4, <2>1, <2>2 DEF Follows, Good
<1>. HIDE DEF a, d
<1>. QED
  BY <1>1, <1>5, <1>6, LockedStep

\* Scans: the ts player does not run once SCANNING is up.
LEMMA ScanStep ==
    ASSUME IInv, Scan
    PROVE  IInv'
<1>. DEFINE s(atv, ok) ==
              [Scanning(tv) EXCEPT !.av = FALSE, !.decoder = FALSE, !.fe = TRUE,
                                   !.scan = ok,
                                   !.source = IF atv THEN "TV" ELSE "INVALID"]
<1>1. PICK atv \in BOOLEAN, ok \in BOOLEAN : Locked(s(atv, ok))
  BY DEF Scan
<1>2. s(atv, ok) \in State
  BY DEF IInv, Good, State, Scanning, Flags, Sources
<1>3. /\ s(atv, ok).action = tv.action \cup {"SCANNING"} /\ ~s(atv, ok).av
      /\ ~s(atv, ok).decoder /\ s(atv, ok).source \in {"TV", "INVALID"}
  BY DEF IInv, Good, State, Scanning
<1>4. Follows(tv, s(atv, ok))
  BY <1>2, <1>3 DEF Follows, Good
<1>. HIDE DEF s
<1>. QED
  BY <1>1, <1>4, LockedStep

\* dtvScan keeps the invariant.
LEMMA dtvScanStep ==
    ASSUME IInv, dtvScan
    PROVE  IInv'
<1>. DEFINE s(ok) == [Scanning(tv) EXCEPT !.av = FALSE, !.scan = ok]
<1>1. PICK ok \in BOOLEAN : Locked(s(ok))
  BY DEF dtvScan
<1>2. s(ok) \in State
  BY DEF IInv, Good, State, Scanning, Flags
<1>3. /\ s(ok).action = tv.action \cup {"SCANNING"} /\ ~s(ok).av
      /\ s(ok).decoder = tv.decoder /\ s(ok).port = tv.port
      /\ s(ok).source = tv.source
  BY DEF IInv, Good, State, Scanning
<1>4. Follows(tv, s(ok))
  BY <1>2, <1>3 DEF Follows, Good, IInv
<1>. HIDE DEF s
<1>. QED
  BY <1>1, <1>4, LockedStep

\* This is where the assumption on the clients is needed: off DTV, the ts
\* player is not running when SCANNING goes up.
LEMMA ScanningGood ==
    ASSUME NEW s, Good(s), s.source # "DTV"
    PROVE  /\ Follows(s, Scanning(s))
           /\ Scanning(s).source = s.source
           /\ "SCANNING" \in Scanning(s).action
<1>1. Scanning(s) \in State
  BY DEF Good, State, Scanning, Flags
<1>2. /\ Scanning(s).action = s.action \cup {"SCANNING"} /\ Scanning(s).av = s.av
      /\ Scanning(s).decoder = s.decoder /\ Scanning(s).port = s.port
      /\ Scanning(s).source = s.source
  BY DEF Good, State, Scanning
<1>. QED
  BY <1>1, <1>2 DEF Follows, Good

\* A scanner that starts, or does not, on a state where SCANNING is up, with
\* the vdin port open.
LEMMA ScannerGood ==
    ASSUME NEW s, Good(s), "SCANNING" \in s.action, s.source # "DTV",
           NEW decoder \in BOOLEAN, decoder => s.decoder, NEW ok \in BOOLEAN
    PROVE  Follows(s, [s EXCEPT !.decoder = decoder, !.port = OpenPort(s, "TV"),
                                !.scan = ok])
<1>. DEFINE t == [s EXCEPT !.decoder = decoder, !.port = OpenPort(s, "TV"), !.scan = ok]
<1>1. t \in State
  BY DEF Good, State, OpenPort
<1>2. /\ t.action = s.action /\ t.av = s.av /\ t.source = s.source
      /\ t.decoder = decoder /\ t.port = OpenPort(s, "TV")
  BY DEF Good, State
<1>3. decoder => OpenPort(s, "TV") # None
  BY DEF Good, OpenPort
<1>. QED
  BY <1>1, <1>2, <1>3 DEF Follows, Good

\* atvAutoScan keeps the invariant.
LEMMA atvAutoScanStep ==
    ASSUME "DTV" \notin AtvScanSources, IInv, atvAutoScan
    PROVE  IInv'
<1>. DEFINE s == StopPlaying(Scanning(tv))
            on(snow) == s.decoder /\ snow /\ s.source = "TV"
            t(snow, ok) == [s EXCEPT !.decoder = on(snow),
                                     !.port = OpenPort(s, "TV"),
                                     !.scan = ok]
<1>1. PICK ranged \in BOOLEAN, snow \in BOOLEAN, ok \in BOOLEAN :
          Locked(IF ~ranged THEN s ELSE t(snow, ok))
  <2>1. \E ranged \in BOOLEAN, snow \in BOOLEAN, ok \in BOOLEAN :
          Locked(IF ~ranged THEN s
                 ELSE [s EXCEPT !.decoder = @ /\ snow /\ s.source = "TV",
                                !.port = OpenPort(s, "TV"),
                                !.scan = ok])
    BY DEF atvAutoScan
  <2>2. \A snow, ok :
          [s EXCEPT !.decoder = @ /\ snow /\ s.source = "TV",
                    !.port = OpenPort(s, "TV"), !.scan = ok] = t(snow, ok)
    OBVIOUS
  <2>. QED
    BY <2>1, <2>2
<1>2. tv.source # "DTV"
  BY DEF atvAutoScan
<1>3. /\ Follows(tv, Scanning(tv)) /\ Scanning(tv).source = tv.source
      /\ "SCANNING" \in Scanning(tv).action
  BY <1>2, ScanningGood DEF IInv
<1>4. /\ Follows(Scanning(tv), s) /\ s.source = tv.source
      /\ "SCANNING" \in s.action
  <2>1. /\ StopPlaying(Scanning(tv)).source = Scanning(tv).source
        /\ "SCANNING" \in StopPlaying(Scanning(tv)).action
    BY <1>3 DEF StopPlaying, Follows, Good, State
  <2>. QED
    BY <1>3, <2>1, StopPlayingGood DEF Follows
<1>5. Follows(tv, s)
  BY <1>3, <1>4 DEF Follows
<1>. HIDE DEF s
<1>6. on(snow) \in BOOLEAN /\ (on(snow) => s.decoder)
  BY <1>5 DEF Follows, Good, State
<1>. HIDE DEF on
<1>7. Follows(s, t(snow, ok))
  BY <1>2, <1>4, <1>5, <1>6, ScannerGood DEF Follows
<1>8. Follows(tv, t(snow, ok))
  BY <1>5, <1>7 DEF Follows
<1>. HIDE DEF t
<1>. QED
  BY <1>1, <1>5, <1>8, LockedStep

\* atvManualScan keeps the invariant.
LEMMA atvManualScanStep ==
    ASSUME "DTV" \notin AtvScanSources, IInv, atvManualScan
    PROVE  IInv'
<1>. DEFINE s == Scanning(tv)
            t(ok) == [s EXCEPT !.decoder = s.decoder,
                               !.port = OpenPort(s, "TV"), !.scan = ok]
<1>1. tv.source # "DTV"
  BY DEF atvManualScan
<1>2. /\ Follows(tv, s) /\ s.source = tv.source /\ "SCANNING" \in s.action
  BY <1>1, ScanningGood DEF IInv
<1>3. PICK ok \in BOOLEAN : Locked([s EXCEPT !.port = OpenPort(tv, "TV"), !.scan = ok])
  BY DEF atvManualScan
<1>4. [s EXCEPT !.port = OpenPort(tv, "TV"), !.scan = ok] = t(ok)
  <2>1. s.port = tv.port /\ s \in State
    BY <1>2 DEF Scanning, IInv, Follows, Good, State
  <2>2. OpenPort(s, "TV") = OpenPort(tv, "TV")
    BY <2>1 DEF OpenPort
  <2>. HIDE DEF s
  <2>. QED
    BY <2>1, <2>2 DEF State
<1>. HIDE DEF s
<1>5. Follows(s, t(ok))
  <2>1. s.decoder \in BOOLEAN
    BY <1>2 DEF Follows, Good, State
  <2>. QED
    BY <1>1, <1>2, <2>1, ScannerGood DEF Follows
<1>6. Follows(tv, t(ok))
  BY <1>2, <1>5 DEF Follows
<1>. HIDE DEF t
<1>. QED
  BY <1>3, <1>4, <1>6, LockedStep

\* stopScan keeps the invariant.
LEMMA stopScanStep ==
    ASSUME IInv, stopScanLock
    PROVE  IInv'
BY StopScanGood, LockedStep DEF stopScanLock, IInv

\* A vdin event starts the decoder only on an open port.
LEMMA VdinStep ==
    ASSUME IInv, onVdinSignalChange
    PROVE  IInv'
<1>. DEFINE s(d) == [tv EXCEPT !.decoder = d]
<1>1. PICK on \in BOOLEAN : Locked(s(on \/ (tv.decoder /\ tv.source = "TV")))
  <2>1. \E on \in BOOLEAN :
           Locked([tv EXCEPT !.decoder = on \/ (@ /\ tv.source = "TV")])
    BY DEF onVdinSignalChange
  <2>2. \A on : [tv EXCEPT !.decoder = on \/ (@ /\ tv.source = "TV")]
                = s(on \/ (tv.decoder /\ tv.source = "TV"))
    OBVIOUS
  <2>. QED
    BY <2>1, <2>2
<1>2. tv.port # None
  BY DEF onVdinSignalChange
<1>3. \A d \in BOOLEAN : Follows(tv, s(d))
  <2>. SUFFICES ASSUME NEW d \in BOOLEAN PROVE Follows(tv, s(d))
    OBVIOUS
  <2>1. s(d) \in State
    BY DEF IInv, Good, State
  <2>2. /\ s(d).action = tv.action /\ s(d).av = tv.av /\ s(d).source = tv.source
        /\ s(d).port = tv.port /\ s(d).scan = tv.scan
    BY DEF IInv, Good, State
  <2>. QED
    BY <1>2, <2>1, <2>2 DEF Follows, Good, IInv
<1>4. (on \/ (tv.decoder /\ tv.source = "TV")) \in BOOLEAN
  OBVIOUS
<1>. HIDE DEF s
<1>. QED
  BY <1>1, <1>3, <1>4, LockedStep

-----------------------------------------------------------------------------
(* StopTvLock, and the calls that take no lock. *)

\* A change outside the fields that Good speaks of, whoever makes it and
\* wherever StopTvLock is.  The decoder may stop on the way.
LEMMA QuietStep ==
    ASSUME IInv, tv' \in State,
           tv'.action = tv.action, tv'.source = tv.source, tv'.scan = tv.scan,
           tv'.av = tv.av, tv'.port = tv.port, tv'.decoder => tv.decoder,
           stop' = stop, play' = play, pause' \in {"no", "flagged", "use"},
           reset' \in {"no", "checked"}
    PROVE  IInv'
<1>1. Good(tv)'
  BY DEF IInv, Good
<1>2. StopingTruthful'
  BY DEF IInv, StopingTruthful, Holds
<1>3. StopLeavesIdle'
  BY DEF IInv, StopLeavesIdle
<1>. QED
  BY <1>1, <1>2, <1>3 DEF IInv, Holds

\* The calls without mLock touch nothing that the invariant is about.
LEMMA UnlockedStep ==
    ASSUME IInv,
           \/ TV_SetSameSourceEnable \/ operateDeviceForScan
           \/ PauseCheck \/ PauseTest \/ PauseUse
           \/ ResetCheck \/ ResetTune
    PROVE  IInv'
<1>1. CASE TV_SetSameSourceEnable
  <2>1. PICK e \in BOOLEAN : tv' = [tv EXCEPT !.same = e]
    BY <1>1 DEF TV_SetSameSourceEnable
  <2>2. /\ tv' \in State
        /\ tv'.action = tv.action /\ tv'.source = tv.source
        /\ tv'.scan = tv.scan /\ tv'.av = tv.av /\ tv'.port = tv.port
        /\ tv'.decoder = tv.decoder
    BY <2>1 DEF IInv, Good, State
  <2>. QED
    BY ONLY <1>1, <2>2, QuietStep, IInv DEF TV_SetSameSourceEnable, IInv
<1>2. CASE operateDeviceForScan
  <2>1. /\ tv' \in State
        /\ tv'.action = tv.action /\ tv'.source = tv.source
        /\ tv'.scan = tv.scan /\ tv'.av = tv.av /\ tv'.port = tv.port
        /\ tv'.decoder = tv.decoder
    BY <1>2 DEF operateDeviceForScan, IInv, Good, State
  <2>. QED
    BY ONLY <1>2, <2>1, QuietStep, IInv DEF operateDeviceForScan, IInv
<1>3. CASE PauseCheck \/ PauseTest \/ PauseUse \/ ResetCheck
  <2>1. /\ tv' = tv /\ stop' = stop /\ play' = play
        /\ pause' \in {"no", "flagged", "use"} /\ reset' \in {"no", "checked"}
    BY <1>3 DEF PauseCheck, PauseTest, PauseUse, ResetCheck, IInv
  <2>. QED
    BY <2>1, QuietStep DEF IInv, Good
<1>4. CASE ResetTune
  <2>1. PICK p \in Programs, analog \in BOOLEAN :
            tv' = [Tune(tv, p) EXCEPT !.decoder = @ /\ ~analog]
    BY <1>4 DEF ResetTune
  <2>. DEFINE d == tv.decoder /\ ~analog
              t == [tv EXCEPT !.fe = TRUE, !.tuned = p, !.decoder = d]
  <2>2. tv' = t
    BY <2>1 DEF Tune, IInv, Good, State
  <2>3. d \in BOOLEAN /\ (d => tv.decoder)
    BY DEF IInv, Good, State
  <2>. HIDE DEF d
  <2>4. /\ tv' \in State
        /\ tv'.action = tv.action /\ tv'.source = tv.source
        /\ tv'.scan = tv.scan /\ tv'.av = tv.av /\ tv'.port = tv.port
        /\ tv'.decoder = d
    BY <2>2, <2>3 DEF IInv, Good, State
  <2>. QED
    BY ONLY <1>4, <2>3, <2>4, QuietStep, IInv DEF ResetTune, IInv
<1>. QED
  BY <1>1, <1>2, <1>3, <1>4

\* Entering StopTvLock keeps the invariant: the lock is not taken yet.
LEMMA StopCallStep ==
    ASSUME IInv, NEW c \in Callers, StopCall(c)
    PROVE  IInv'
<1>1. CASE tv.same
  <2>1. tv' = [tv EXCEPT !.same = FALSE] /\ UNCHANGED <<stop, play, pause, reset>>
    BY <1>1 DEF StopCall
  <2>2. /\ tv' \in State
        /\ tv'.action = tv.action /\ tv'.source = tv.source
        /\ tv'.scan = tv.scan /\ tv'.av = tv.av /\ tv'.port = tv.port
        /\ tv'.decoder = tv.decoder
    BY <2>1 DEF IInv, Good, State
  <2>. QED
    BY ONLY <2>1, <2>2, QuietStep, IInv DEF IInv
<1>2. CASE ~tv.same
  <2>1. /\ stop[c] = "no" /\ tv' = tv /\ UNCHANGED <<play, pause, reset>>
        /\ stop' = [stop EXCEPT ![c] = "waiting"]
    BY <1>2 DEF StopCall
  <2>2. \A d \in Callers : /\ Holds(d)' <=> Holds(d)
                           /\ stop'[d] \in {"begun", "halted"} => stop'[d] = stop[d]
    BY <2>1 DEF Holds, IInv
  <2>3. StopingTruthful'
    BY <2>1, <2>2 DEF IInv, StopingTruthful
  <2>4. StopLeavesIdle'
    BY <2>1, <2>2 DEF IInv, StopLeavesIdle
  <2>5. stop' \in [Callers -> StopPlaces]
    BY <2>1 DEF IInv, StopPlaces
  <2>. QED
    BY <2>1, <2>2, <2>3, <2>4, <2>5 DEF IInv, Good
<1>. QED
  BY <1>1, <1>2

\* STOPING is raised with mLock, and nothing is held back of a playback yet.
LEMMA StopRaiseStep ==
    ASSUME IInv, NEW c \in Callers, StopRaise(c)
    PROVE  IInv'
<1>. DEFINE s == [tv EXCEPT !.action = (@ \cup {"STOPING"}) \ {"IN_VDIN"}]
<1>1. /\ play = "no" /\ (\A d \in Callers : ~Holds(d)) /\ tv' = s
      /\ stop' = [stop EXCEPT ![c] = "raised"] /\ UNCHANGED <<play, pause, reset>>
  BY DEF StopRaise, LockFree
<1>2. s \in State
  BY DEF IInv, Good, State, Flags
<1>3. /\ s.action = (tv.action \cup {"STOPING"}) \ {"IN_VDIN"}
      /\ s.scan = tv.scan /\ s.av = tv.av /\ s.decoder = tv.decoder
      /\ s.port = tv.port /\ s.source = tv.source
  BY DEF IInv, Good, State
<1>. HIDE DEF s
<1>4. Good(tv)'
  BY <1>1, <1>2, <1>3 DEF IInv, Good
<1>5. /\ stop' \in [Callers -> StopPlaces]
      /\ \A d \in Callers : /\ Holds(d)' <=> d = c
                            /\ stop'[d] \notin {"begun", "halted"}
  BY <1>1 DEF IInv, StopPlaces, Holds
<1>6. StopingTruthful' /\ StopLeavesIdle'
  BY <1>1, <1>3, <1>5 DEF StopingTruthful, StopLeavesIdle
<1>. QED
  BY <1>1, <1>3, <1>4, <1>5, <1>6 DEF IInv

\* The frontend closes and the players go: nothing of a playback is left,
\* whether a scan goes on or not.
LEMMA StopBeginStep ==
    ASSUME IInv, NEW c \in Callers, StopBegin(c)
    PROVE  IInv'
<1>. DEFINE s == [tv EXCEPT !.fe = FALSE, !.tuned = None]
            t == IF s.source \in {"TV", "DTV"} THEN ReleaseAll(s) ELSE s
            u == StopPlaying(t)
<1>1. /\ stop[c] = "raised" /\ tv' = u
      /\ stop' = [stop EXCEPT ![c] = "begun"] /\ UNCHANGED <<play, pause, reset>>
  BY DEF StopBegin
<1>2. /\ play = "no" /\ "IN_VDIN" \notin tv.action /\ "STOPING" \in tv.action
      /\ \A d \in Callers : Holds(d) <=> d = c
  <2>1. Holds(c)
    BY <1>1 DEF Holds
  <2>2. play = "no" /\ "IN_VDIN" \notin tv.action
    <3>1. \A d \in Callers : Holds(d) => play = "no" /\ "IN_VDIN" \notin tv.action
      BY DEF IInv
    <3>. QED
      BY <2>1, <3>1
  <2>3. StopingTruthful
    BY DEF IInv
  <2>4. "STOPING" \in tv.action /\ \A d \in Callers : Holds(d) <=> d = c
    BY <2>1, <2>3 DEF StopingTruthful
  <2>. QED
    BY <2>2, <2>4
<1>3. Good(s) /\ s.action = tv.action
  <2>1. s \in State
    BY DEF IInv, Good, State
  <2>2. /\ s.action = tv.action
        /\ s.scan = tv.scan /\ s.av = tv.av /\ s.decoder = tv.decoder
        /\ s.port = tv.port /\ s.source = tv.source
    BY DEF IInv, Good, State
  <2>. QED
    BY <2>1, <2>2 DEF IInv, Good
<1>. HIDE DEF s
<1>4. Follows(s, t) /\ t.action \subseteq s.action
  BY <1>3, ReleaseAllGood DEF Follows
<1>. HIDE DEF t
<1>5. /\ Follows(t, u) /\ "PLAYING" \notin u.action /\ u.action \subseteq t.action
  BY <1>4, StopPlayingGood DEF Follows
<1>. HIDE DEF u
<1>6. /\ Good(tv)' /\ "STOPING" \in tv'.action
      /\ tv'.action \cap {"IN_VDIN", "PLAYING"} = {}
  BY <1>1, <1>2, <1>3, <1>4, <1>5 DEF Follows, Good
<1>7. /\ stop' \in [Callers -> StopPlaces]
      /\ \A d \in Callers : /\ Holds(d)' <=> d = c
                            /\ stop'[d] # "halted"
  BY <1>1, <1>2 DEF IInv, StopPlaces, Holds
<1>8. StopingTruthful' /\ StopLeavesIdle'
  BY <1>6, <1>7 DEF StopingTruthful, StopLeavesIdle
<1>. QED
  BY <1>1, <1>2, <1>6, <1>7, <1>8 DEF IInv

\* What the lock owner has left when it has halted everything.
LEMMA StopHaltStep ==
    ASSUME IInv, NEW c \in Callers, StopHalt(c)
    PROVE  IInv'
<1>. DEFINE s == StopScan(tv)
            t == [s EXCEPT !.decoder = FALSE, !.port = None, !.source = "INVALID"]
<1>1. /\ stop[c] = "begun" /\ tv' = t
      /\ stop' = [stop EXCEPT ![c] = "halted"] /\ UNCHANGED <<play, pause, reset>>
  BY DEF StopHalt
<1>2. /\ tv.action \cap {"IN_VDIN", "PLAYING"} = {} /\ "STOPING" \in tv.action
      /\ play = "no" /\ \A d \in Callers : Holds(d) <=> d = c
  <2>1. Holds(c)
    BY <1>1 DEF Holds
  <2>2. play = "no" /\ "IN_VDIN" \notin tv.action /\ "PLAYING" \notin tv.action
    <3>1. \A d \in Callers : Holds(d) => play = "no" /\ "IN_VDIN" \notin tv.action
      BY DEF IInv
    <3>2. \A d \in Callers : stop[d] = "begun" => "PLAYING" \notin tv.action
      BY DEF IInv
    <3>. QED
      BY <1>1, <2>1, <3>1, <3>2
  <2>3. StopingTruthful
    BY DEF IInv
  <2>4. "STOPING" \in tv.action /\ \A d \in Callers : Holds(d) <=> d = c
    BY <2>1, <2>3 DEF StopingTruthful
  <2>. QED
    BY <2>2, <2>4
<1>3. Follows(tv, s) /\ s.action = tv.action \ {"SCANNING"} /\ ~s.scan
  BY StopScanGood DEF IInv
<1>4. s.action = {"STOPING"}
  <2>1. tv.action \subseteq Flags
    BY DEF IInv, Good, State
  <2>. HIDE DEF s
  <2>. QED
    BY <1>2, <1>3, <2>1 DEF Flags
<1>. HIDE DEF s
<1>5. t \in State
  BY <1>3 DEF Follows, Good, State, Sources
<1>6. /\ t.action = s.action /\ t.av = s.av /\ t.scan = s.scan
      /\ ~t.decoder /\ t.port = None /\ t.source = "INVALID"
  BY <1>3 DEF Follows, Good, State
<1>7. ~t.av /\ ~t.scan
  BY <1>3, <1>4, <1>6 DEF Follows, Good
<1>. HIDE DEF t
<1>8. Good(tv)'
  BY <1>1, <1>4, <1>5, <1>6, <1>7 DEF Good
<1>9. /\ stop' \in [Callers -> StopPlaces]
      /\ \A d \in Callers : /\ Holds(d)' <=> d = c
                            /\ stop'[d] # "begun"
  BY <1>1, <1>2 DEF IInv, StopPlaces, Holds
<1>10. StopingTruthful' /\ StopLeavesIdle'
  BY <1>1, <1>4, <1>6, <1>7, <1>9 DEF StopingTruthful, StopLeavesIdle
<1>. QED
  BY <1>1, <1>2, <1>4, <1>6, <1>8, <1>9, <1>10 DEF IInv

\* The last step of StopTvLock clears STOPING with the lock.
LEMMA StopEndStep ==
    ASSUME IInv, NEW c \in Callers, StopEnd(c)
    PROVE  IInv'
<1>. DEFINE t == [tv EXCEPT !.action = @ \ {"STOPING"}, !.status = "STOP"]
<1>1. /\ stop[c] = "halted" /\ tv' = t
      /\ stop' = [stop EXCEPT ![c] = "no"] /\ UNCHANGED <<play, pause, reset>>
  BY DEF StopEnd
<1>2. play = "no" /\ \A d \in Callers : Holds(d) <=> d = c
  <2>1. Holds(c)
    BY <1>1 DEF Holds
  <2>. QED
    BY <2>1 DEF IInv, StopingTruthful
<1>3. t \in State
  BY DEF IInv, Good, State
<1>4. /\ t.action = tv.action \ {"STOPING"} /\ t.av = tv.av /\ t.scan = tv.scan
      /\ t.decoder = tv.decoder /\ t.port = tv.port /\ t.source = tv.source
  BY DEF IInv, Good, State
<1>. HIDE DEF t
<1>5. Good(tv)'
  BY <1>1, <1>3, <1>4 DEF IInv, Good
<1>6. /\ stop' \in [Callers -> StopPlaces]
      /\ \A d \in Callers : ~Holds(d)' /\ stop'[d] \notin {"begun", "halted"}
  BY <1>1, <1>2 DEF IInv, StopPlaces, Holds
<1>7. StopingTruthful' /\ StopLeavesIdle'
  BY <1>1, <1>4, <1>6 DEF StopingTruthful, StopLeavesIdle
<1>. QED
  BY <1>1, <1>2, <1>5, <1>6, <1>7 DEF IInv

-----------------------------------------------------------------------------
(* The theorems. *)

\* The initial state satisfies the invariant.
LEMMA InitIInv ==
    ASSUME Init PROVE IInv
BY DEF Init, IInv, Good, State, Flags, Sources, StopingTruthful, StopLeavesIdle,
       Holds, StopPlaces

\* Every step keeps the invariant.
LEMMA NextIInv ==
    ASSUME "DTV" \notin AtvScanSources, IInv, [Next]_vars PROVE IInv'
<1>1. CASE UNCHANGED vars
  BY <1>1 DEF vars, IInv, Good, StopingTruthful, StopLeavesIdle, Holds
<1>2. CASE StartTvLock
  BY <1>2, StartStep
<1>3. CASE SetSourceSwitchInput
  BY <1>3, SwitchStep
<1>4. CASE StartDtv \/ StartTimeShift \/ StartLive
  BY <1>4, StartDtvStep
<1>16. CASE AskForCheck
  BY <1>16, AskStep
<1>5. CASE StartAtv
  BY <1>5, StartAtvStep
<1>6. CASE StopPlay
  BY <1>6, StopPlayStep
<1>7. CASE setFrontEnd
  BY <1>7, FrontEndStep
<1>8. CASE Scan
  BY <1>8, ScanStep
<1>9. CASE dtvScan
  BY <1>9, dtvScanStep
<1>10. CASE atvAutoScan
  BY <1>10, atvAutoScanStep
<1>11. CASE atvManualScan
  BY <1>11, atvManualScanStep
<1>12. CASE stopScanLock
  BY <1>12, stopScanStep
<1>13. CASE onVdinSignalChange
  BY <1>13, VdinStep
<1>14. ASSUME NEW c \in Callers,
              StopCall(c) \/ StopRaise(c) \/ StopBegin(c) \/ StopHalt(c) \/ StopEnd(c)
       PROVE  IInv'
  BY <1>14, StopCallStep, StopRaiseStep, StopBeginStep, StopHaltStep, StopEndStep
<1>15. CASE \/ TV_SetSameSourceEnable \/ operateDeviceForScan
            \/ PauseCheck \/ PauseTest \/ PauseUse
            \/ ResetCheck \/ ResetTune
  BY <1>15, UnlockedStep
<1>. QED
  BY <1>1, <1>2, <1>3, <1>4, <1>5, <1>6, <1>7, <1>8, <1>9, <1>10, <1>11, <1>12,
     <1>13, <1>14, <1>15, <1>16 DEF Next

\* IInv is an invariant of every run in which clients begin no scan for ATV on
\* DTV.
THEOREM Inductive == "DTV" \notin AtvScanSources => (Spec => []IInv)
<1>1. CASE "DTV" \notin AtvScanSources
  <2>1. Init => IInv
    BY InitIInv
  <2>2. IInv /\ [Next]_vars => IInv'
    BY <1>1, NextIInv
  <2>3. Spec => []IInv
    BY <2>1, <2>2, PTL DEF Spec
  <2>. QED
    BY <2>3
<1>. QED
  BY <1>1

\* Every value stays in its range: vdin, in particular, never has a port open
\* for DTV.
THEOREM TypeCorrect == "DTV" \notin AtvScanSources => (Spec => []TypeOK)
<1>1. IInv => TypeOK
  BY DEF IInv, Good, State, Flags, StopPlaces, TypeOK
<1>. QED
  BY <1>1, Inductive, PTL

\* STOPING is up exactly while one StopTvLock is under way.
THEOREM StopingIsTruthful == "DTV" \notin AtvScanSources => (Spec => []StopingTruthful)
<1>1. IInv => StopingTruthful
  BY DEF IInv
<1>. QED
  BY <1>1, Inductive, PTL

\* SCANNING is up as long as the scanner runs.
THEOREM ScanIsFlagged == "DTV" \notin AtvScanSources => (Spec => []ScanFlagged)
<1>1. IInv => ScanFlagged
  BY DEF IInv, Good, ScanFlagged
<1>. QED
  BY <1>1, Inductive, PTL

\* The ts player decodes only where stopPlaying would stop it.
THEOREM PlaybackIsOwned == "DTV" \notin AtvScanSources => (Spec => []PlaybackOwned)
<1>1. IInv => PlaybackOwned
  BY DEF IInv, Good, PlaybackOwned
<1>. QED
  BY <1>1, Inductive, PTL

\* The vdin decoder never runs without a port.
THEOREM DecoderOnPort == "DTV" \notin AtvScanSources => (Spec => []DecoderHasPort)
<1>1. IInv => DecoderHasPort
  BY DEF IInv, Good, DecoderHasPort
<1>. QED
  BY <1>1, Inductive, PTL

\* On DTV vdin has no port open.
THEOREM VdinIsOffOnDtv == "DTV" \notin AtvScanSources => (Spec => []VdinOffOnDtv)
<1>1. IInv => VdinOffOnDtv
  BY DEF IInv, Good, VdinOffOnDtv
<1>. QED
  BY <1>1, Inductive, PTL

\* StopTvLock leaves nothing running.
THEOREM StopIsComplete == "DTV" \notin AtvScanSources => (Spec => []StopLeavesIdle)
<1>1. IInv => StopLeavesIdle
  BY DEF IInv
<1>. QED
  BY <1>1, Inductive, PTL

-----------------------------------------------------------------------------
(* The tuner belongs to the scan. *)

\* What a step may do to the tuner: keep it, close it, or end the scan.
Keeps(s, t) == t.tuned \in {s.tuned, None} \/ ~t.scan

\* stopPlaying and the release of the players leave the tuner alone.
LEMMA PlayersKeep ==
    ASSUME NEW s \in State
    PROVE  /\ StopPlaying(s).tuned = s.tuned
           /\ StopPlayer(s).tuned = s.tuned
           /\ StopPlayer(s) \in State
           /\ ReleaseAll(s).tuned = s.tuned
           /\ ReleaseAll(s) \in State
<1>1. StopPlaying(s).tuned = s.tuned
  BY DEF StopPlaying, State
<1>2. StopPlaying(s) \in State
  <2>1. [s EXCEPT !.action = @ \ {"PLAYING"}, !.av = @ /\ s.source # "DTV"] \in State
    <3>. DEFINE d == s.av /\ s.source # "DTV"
    <3>1. d \in BOOLEAN
      OBVIOUS
    <3>. HIDE DEF d
    <3>2. [s EXCEPT !.action = @ \ {"PLAYING"}, !.av = d] \in State
      BY <3>1 DEF State
    <3>. QED
      BY <3>2 DEF d
  <2>. QED
    BY <2>1 DEF StopPlaying
<1>3. StopPlayer(s).tuned = s.tuned /\ StopPlayer(s) \in State
  BY <1>1, <1>2 DEF StopPlayer
<1>4. ReleaseAll(s).tuned = s.tuned /\ ReleaseAll(s) \in State
  BY <1>3 DEF ReleaseAll, State
<1>. QED
  BY <1>1, <1>3, <1>4

\* A source switch has always ended the scan.
LEMMA SwitchEnds ==
    ASSUME NEW s, Good(s), NEW src \in Sources \ {"INVALID"}, NEW ok \in BOOLEAN
    PROVE  ~SwitchSource(s, src, ok).scan /\ SwitchSource(s, src, ok) \in State
BY SwitchSourceGood DEF Follows, Good

\* No operation under mLock tunes to a program while a scan goes on.
LEMMA OwnerKeeps ==
    ASSUME IInv, Next, ~ResetTune
    PROVE  Keeps(tv, tv')
<1>0. Good(tv) /\ tv \in State /\ (tv.scan => "SCANNING" \in tv.action)
  BY DEF IInv, Good
<1>1. CASE StartTvLock
  BY <1>0, <1>1 DEF StartTvLock, Locked, State, Keeps
<1>2. CASE SetSourceSwitchInput
  <2>1. PICK src \in Sources \ {"INVALID"}, ok \in BOOLEAN, named \in BOOLEAN :
          tv' = SwitchSource(IF named /\ src = "HDMI" THEN ReleaseAll(tv) ELSE tv, src, ok)
    BY <1>2 DEF SetSourceSwitchInput, Locked
  <2>2. Good(IF named /\ src = "HDMI" THEN ReleaseAll(tv) ELSE tv)
    BY <1>0, ReleaseAllGood DEF Follows
  <2>. QED
    BY <2>1, <2>2, SwitchEnds DEF Keeps
<1>3. CASE StartDtv \/ StartTimeShift \/ StartLive
  <2>1. NewDtvPlayer.tuned = tv.tuned
    <3>. DEFINE o == StopPlayer(tv)
    <3>1. o \in State /\ o.tuned = tv.tuned
      BY <1>0, PlayersKeep
    <3>. HIDE DEF o
    <3>2. [o EXCEPT !.player = "DTV"].tuned = tv.tuned
      BY <3>1 DEF State
    <3>. QED
      BY <3>2 DEF NewDtvPlayer, o
  <2>2. ASSUME NEW s \in {tv, NewDtvPlayer}, NEW p \in Programs, NEW ok \in BOOLEAN
        PROVE  ~PlayDtv(s, p, ok).scan
    <3>1. Good(s)
      BY <1>0, NewPlayerGood DEF Follows
    <3>. QED
      BY <3>1, PlayDtvGood DEF Follows, Good
  <2>. QED
    BY <1>3, <2>1, <2>2, DtvPlayed DEF Keeps
<1>4. CASE StartAtv
  <2>. DEFINE o == StopPlayer(tv)
              s == [o EXCEPT !.player = "TV"]
              w(ok) == SwitchSource(s, "TV", ok)
  <2>1. PICK p \in Programs, ok \in BOOLEAN :
          tv' = IF tv.status = "STOP" THEN s
                ELSE [Tune(w(ok), p) EXCEPT !.action = @ \cup {"IN_VDIN", "PLAYING"}]
    BY <1>4 DEF StartAtv, Locked
  <2>2. Good(o) /\ o \in State /\ o.tuned = tv.tuned
    BY <1>0, StopPlayerGood, PlayersKeep DEF Follows
  <2>. HIDE DEF o
  <2>3. Good(s) /\ s.tuned = tv.tuned
    BY <2>2, PlayerGood DEF Follows, State
  <2>. HIDE DEF s
  <2>4. ~w(ok).scan /\ w(ok) \in State
    BY <2>3, SwitchEnds DEF Sources
  <2>. HIDE DEF w
  <2>5. tv.status # "STOP" => ~tv'.scan
    BY <2>1, <2>4 DEF Tune, State
  <2>. QED
    BY <2>1, <2>3, <2>5 DEF Keeps
<1>5. CASE StopPlay
  BY <1>0, <1>5, PlayersKeep DEF StopPlay, Locked, Keeps, ReleaseAll
<1>6. CASE setFrontEnd
  <2>1. "SCANNING" \notin tv.action
    BY <1>6 DEF setFrontEnd
  <2>2. Good(tv') /\ tv'.action \cap {"SCANNING"} = {}
    <3>. DEFINE s(p) == Tune(StopPlaying(tv), p)
                a(p) == [s(p) EXCEPT !.action = @ \cup {"IN_VDIN"}, !.decoder = FALSE]
                d(p) == [s(p) EXCEPT !.action = @ \ {"IN_VDIN"}, !.decoder = FALSE,
                                     !.port = None]
    <3>1. IInv'
      BY <1>6, FrontEndStep
    <3>2. PICK p \in Programs : tv' \in {a(p), d(p)}
      BY <1>6 DEF setFrontEnd, Locked
    <3>3. Follows(tv, StopPlaying(tv)) /\ StopPlaying(tv).action \subseteq tv.action
      BY <1>0, StopPlayingGood
    <3>4. s(p) \in State /\ s(p).action \subseteq tv.action
      BY <3>3, TuneGood DEF Follows, Good
    <3>. HIDE DEF s
    <3>5. /\ a(p).action = s(p).action \cup {"IN_VDIN"}
          /\ d(p).action = s(p).action \ {"IN_VDIN"}
      BY <3>4 DEF State
    <3>. HIDE DEF a, d
    <3>6. "SCANNING" \notin tv'.action
      BY <2>1, <3>2, <3>4, <3>5
    <3>. QED
      BY <3>1, <3>6 DEF IInv, Good
  <2>. QED
    BY <2>2 DEF Keeps, Good
<1>7. CASE Scan \/ dtvScan \/ atvManualScan
  <2>1. Scanning(tv) \in State /\ Scanning(tv).tuned = tv.tuned
    BY <1>0 DEF Scanning, State, Flags
  <2>2. tv'.tuned = Scanning(tv).tuned
    BY <1>7, <2>1 DEF Scan, dtvScan, atvManualScan, Locked, State
  <2>. QED
    BY <2>1, <2>2 DEF Keeps
<1>8. CASE atvAutoScan
  <2>. DEFINE s == StopPlaying(Scanning(tv))
  <2>1. Scanning(tv) \in State /\ Scanning(tv).tuned = tv.tuned
    BY <1>0 DEF Scanning, State, Flags
  <2>2. s.tuned = tv.tuned
    BY <2>1, PlayersKeep
  <2>3. \E ranged \in BOOLEAN, snow \in BOOLEAN, ok \in BOOLEAN :
          tv' = IF ~ranged THEN s
                ELSE [s EXCEPT !.decoder = @ /\ snow /\ s.source = "TV",
                               !.port = OpenPort(s, "TV"),
                               !.scan = ok]
    BY <1>8 DEF atvAutoScan, Locked
  <2>. HIDE DEF s
  <2>4. tv'.tuned = s.tuned
    BY <2>3
  <2>. QED
    BY <2>2, <2>4 DEF Keeps
<1>9. CASE stopScanLock
  BY <1>0, <1>9, StopScanGood DEF stopScanLock, Locked, Keeps
<1>10. CASE onVdinSignalChange
  BY <1>0, <1>10 DEF onVdinSignalChange, Locked, Keeps
<1>11. ASSUME NEW c \in Callers,
              StopCall(c) \/ StopRaise(c) \/ StopBegin(c) \/ StopHalt(c) \/ StopEnd(c)
       PROVE  Keeps(tv, tv')
  <2>1. CASE StopCall(c) \/ StopRaise(c)
    BY <1>0, <2>1 DEF StopCall, StopRaise, State, Keeps
  <2>2. CASE StopBegin(c)
    <3>. DEFINE s == [tv EXCEPT !.fe = FALSE, !.tuned = None]
                t == IF s.source \in {"TV", "DTV"} THEN ReleaseAll(s) ELSE s
    <3>1. s \in State /\ s.tuned = None
      BY <1>0 DEF State, Flags
    <3>. HIDE DEF s
    <3>2. t \in State /\ t.tuned = None
      BY <3>1, PlayersKeep
    <3>3. tv' = StopPlaying(t)
      BY <2>2 DEF StopBegin, s
    <3>. HIDE DEF t
    <3>. QED
      BY <3>2, <3>3, PlayersKeep DEF Keeps
  <2>3. CASE StopHalt(c)
    <3>1. StopScan(tv) \in State /\ ~StopScan(tv).scan
      BY <1>0, StopScanGood DEF Follows, Good
    <3>. QED
      BY <2>3, <3>1 DEF StopHalt, State, Keeps
  <2>4. CASE StopEnd(c)
    BY <1>0, <2>4 DEF StopEnd, State, Keeps
  <2>. QED
    BY <1>11, <2>1, <2>2, <2>3, <2>4
<1>12. CASE TV_SetSameSourceEnable \/ operateDeviceForScan
  BY <1>0, <1>12 DEF TV_SetSameSourceEnable, operateDeviceForScan, State, Keeps
<1>13. CASE AskForCheck \/ PauseCheck \/ PauseTest \/ PauseUse \/ ResetCheck
  BY <1>13 DEF AskForCheck, PauseCheck, PauseTest, PauseUse, ResetCheck, Keeps
<1>. QED
  BY <1>1, <1>2, <1>3, <1>4, <1>5, <1>6, <1>7, <1>8, <1>9, <1>10, <1>11, <1>12,
     <1>13 DEF Next

\* While a scan goes on, only a resetFrontEndPara that tested SCANNING before
\* tunes the frontend to a program.
THEOREM ScanKeepsTuner == "DTV" \notin AtvScanSources => (Spec => ScanOwnsTuner)
<1>. DEFINE Owned == tv.scan /\ tv'.scan =>
                       \/ tv'.tuned \in {tv.tuned, None}
                       \/ reset = "checked" /\ reset' = "no"
<1>1. IInv /\ [Next]_vars => [Owned]_vars
  <2>1. CASE ResetTune
    BY <2>1 DEF ResetTune
  <2>2. CASE Next /\ ~ResetTune /\ IInv
    BY <2>2, OwnerKeeps DEF Keeps
  <2>. QED
    BY <2>1, <2>2
<1>. HIDE DEF Owned
<1>2. "DTV" \notin AtvScanSources => (Spec => [][Owned]_vars)
  BY <1>1, Inductive, PTL DEF Spec
<1>. QED
  BY <1>2 DEF ScanOwnsTuner, Owned
-----------------------------------------------------------------------------
(* TvControl implements TvWatch.  Every operation but the start of a DTV      *)
(* player that gets as far as tuning is Calm: it begins to watch nothing, and *)
(* if it ends a scan on DTV the frontend is closed.  That nobody plays when a *)
(* stop ends, and that mLock keeps the flags while a check is to be asked     *)
(* for, follows from IInv.                                                    *)

Watches(s) == s.source = "DTV" /\ "PLAYING" \in s.action

Calm(s, t) ==
    /\ Watches(t) => Watches(s)
    /\ "SCANNING" \in s.action /\ "SCANNING" \notin t.action /\ t.source = "DTV"
          => t.tuned = None

\* t differs from s in the players only.
Near(s, t) ==
    /\ t \in State /\ t.source = s.source /\ t.tuned = s.tuned
    /\ t.action \subseteq s.action
    /\ "SCANNING" \in s.action <=> "SCANNING" \in t.action

-----------------------------------------------------------------------------
(* The helpers. *)

\* stopPlaying makes nobody begin to watch.
LEMMA StopPlayingNear ==
    ASSUME NEW s \in State
    PROVE  Near(s, StopPlaying(s)) /\ "PLAYING" \notin StopPlaying(s).action
<1>1. CASE "PLAYING" \notin s.action
  BY <1>1 DEF StopPlaying, Near
<1>2. CASE "PLAYING" \in s.action
  <2>. DEFINE d == s.av /\ s.source # "DTV"
              t == [s EXCEPT !.action = @ \ {"PLAYING"}, !.av = d]
  <2>1. StopPlaying(s) = t
    BY <1>2 DEF StopPlaying, State
  <2>2. d \in BOOLEAN
    OBVIOUS
  <2>. HIDE DEF d
  <2>3. t \in State
    BY <2>2 DEF State
  <2>4. t.action = s.action \ {"PLAYING"} /\ t.source = s.source /\ t.tuned = s.tuned
    BY DEF State
  <2>. QED
    BY <2>1, <2>3, <2>4 DEF Near
<1>. QED
  BY <1>1, <1>2

\* Whichever player is made the current one, nothing else changes.
LEMMA PlayerNear ==
    ASSUME NEW s \in State, NEW d \in {"TV", "DTV", None}
    PROVE  Near(s, [StopPlayer(s) EXCEPT !.player = d])
<1>1. Near(s, StopPlayer(s))
  BY StopPlayingNear DEF StopPlayer, Near
<1>. DEFINE o == StopPlayer(s)
            t == [o EXCEPT !.player = d]
<1>2. Near(s, o)
  BY <1>1
<1>. HIDE DEF o
<1>3. /\ t \in State /\ t.action = o.action /\ t.source = o.source
      /\ t.tuned = o.tuned
  BY <1>2 DEF Near, State
<1>4. Near(s, t)
  BY <1>2, <1>3 DEF Near
<1>. QED
  BY <1>4 DEF o

\* Neither does releasing the players.
LEMMA ReleaseAllNear ==
    ASSUME NEW s \in State PROVE Near(s, ReleaseAll(s))
BY PlayerNear DEF ReleaseAll

\* A switch of the source ends the scan, and watches DTV only if DTV was
\* watched and stays.
LEMMA SwitchCalm ==
    ASSUME NEW s, Good(s), NEW src \in Sources \ {"INVALID"}, NEW ok \in BOOLEAN
    PROVE  Calm(s, SwitchSource(s, src, ok))
<1>. DEFINE e == EndScan(s)
            t == StopPlaying(e)
            r == SwitchSource(s, src, ok)
<1>1. Good(e) /\ e.source = s.source /\ r.source = src
  BY EndScanGood, SwitchSourceGood DEF Follows
<1>2. /\ e.action = s.action \ {"SCANNING"}
      /\ "SCANNING" \in s.action => e.tuned = None
  BY DEF EndScan, Good, State
<1>3. Near(e, t) /\ "PLAYING" \notin t.action
  BY <1>1, StopPlayingNear DEF Good
<1>4. CASE src = s.source /\ src # "TV"
  <2>1. r = e
    BY <1>4 DEF SwitchSource
  <2>. QED
    BY <1>1, <1>2, <2>1 DEF Calm, Watches
<1>5. CASE ~(src = s.source /\ src # "TV") /\ src = "DTV"
  <2>1. r = [t EXCEPT !.source = src, !.fe = TRUE, !.decoder = FALSE, !.port = None]
    BY <1>5 DEF SwitchSource
  <2>. HIDE DEF r, t, e
  <2>2. r.action = t.action /\ r.tuned = t.tuned
    BY <1>3, <2>1 DEF Near, State
  <2>3. Calm(s, r)
    BY <1>2, <1>3, <2>2 DEF Calm, Watches, Near
  <2>. QED
    BY <2>3 DEF r
<1>6. CASE ~(src = s.source /\ src # "TV") /\ src # "DTV"
  BY <1>1, <1>6 DEF Calm, Watches
<1>. QED
  BY <1>4, <1>5, <1>6

\* A change of the players before a calm step makes no difference.
LEMMA NearCalm ==
    ASSUME NEW s, NEW t, NEW u, Near(s, t), Calm(t, u)
    PROVE  Calm(s, u)
BY DEF Near, Calm, Watches

-----------------------------------------------------------------------------
(* The steps. *)

\* PLAY_CMD_START of a DTV player either gives up before it tunes, or ends
\* with DTV on the screen, no scan, no stop, and the frontend tuned; it asks for
\* a check afterwards, or plays a timeshift.
LEMMA StartDtvPlays ==
    ASSUME IInv, StartDtv \/ StartTimeShift \/ StartLive
    PROVE  \/ Calm(tv, tv') /\ play' = play
           \/ Watch!Play \/ Watch!PlayTimeShift
<1>1. "STOPING" \notin tv.action /\ Good(tv) /\ Follows(tv, NewDtvPlayer)
  BY DtvPlayed, NewPlayerGood DEF IInv, StopingTruthful
<1>2. Near(tv, NewDtvPlayer)
  BY <1>1, PlayerNear DEF NewDtvPlayer, Good
<1>3. CASE StartDtv /\ tv' = NewDtvPlayer /\ play' = play
  BY <1>2, <1>3 DEF Near, Calm, Watches
<1>4. ASSUME NEW s \in {tv, NewDtvPlayer}, NEW p \in Programs, NEW ok \in BOOLEAN,
             tv' = PlayDtv(s, p, ok)
      PROVE  /\ tv'.source = "DTV" /\ "PLAYING" \in tv'.action
             /\ "SCANNING" \notin tv'.action /\ "STOPING" \notin tv'.action
             /\ tv'.tuned # None
  <2>1. Good(s) /\ "STOPING" \notin s.action
    BY <1>1 DEF Follows
  <2>. QED
    BY <1>4, <2>1, PlayDtvGood, ControlAssumption DEF Follows
<1>5. CASE \E s \in {tv, NewDtvPlayer}, p \in Programs, ok \in BOOLEAN :
             tv' = PlayDtv(s, p, ok)
  <2>1. play # "asking"
    BY DEF StartDtv, StartTimeShift, StartLive, LockFree
  <2>. QED
    BY <1>1, <1>4, <1>5, <2>1
       DEF Watch!Play, Watch!PlayTimeShift, Watch!Begin, Watch!Change
<1>. QED
  BY <1>3, <1>5, DtvPlayed

\* Nothing else begins to watch.
LEMMA OthersCalm ==
    ASSUME IInv, Next, ~(StartDtv \/ StartTimeShift \/ StartLive)
    PROVE  Calm(tv, tv')
<1>0. Good(tv) /\ tv \in State
  BY DEF IInv, Good
<1>1. CASE StartTvLock \/ onVdinSignalChange
  <2>1. /\ tv'.source = tv.source /\ tv'.action \in {tv.action, tv.action \ {"STOPING"}}
    BY <1>0, <1>1 DEF StartTvLock, onVdinSignalChange, Locked, State
  <2>. QED
    BY <2>1 DEF Calm, Watches
<1>2. CASE SetSourceSwitchInput
  <2>1. PICK src \in Sources \ {"INVALID"}, ok \in BOOLEAN, named \in BOOLEAN :
          tv' = SwitchSource(IF named /\ src = "HDMI" THEN ReleaseAll(tv) ELSE tv, src, ok)
    BY <1>2 DEF SetSourceSwitchInput, Locked
  <2>. DEFINE s == IF named /\ src = "HDMI" THEN ReleaseAll(tv) ELSE tv
  <2>2. Good(s) /\ Near(tv, s)
    BY <1>0, ReleaseAllGood, ReleaseAllNear DEF Follows, Near
  <2>3. tv' = SwitchSource(s, src, ok)
    BY <2>1
  <2>. HIDE DEF s
  <2>. QED
    BY <2>2, <2>3, SwitchCalm, NearCalm
<1>3. CASE StartAtv
  <2>. DEFINE s == [StopPlayer(tv) EXCEPT !.player = "TV"]
              w(ok) == SwitchSource(s, "TV", ok)
  <2>1. PICK p \in Programs, ok \in BOOLEAN :
          tv' = IF tv.status = "STOP" THEN s
                ELSE [Tune(w(ok), p) EXCEPT !.action = @ \cup {"IN_VDIN", "PLAYING"}]
    BY <1>3 DEF StartAtv, Locked
  <2>2. Near(tv, s)
    BY <1>0, PlayerNear
  <2>3. Good(s)
    <3>. DEFINE o == StopPlayer(tv)
    <3>1. Good(o)
      BY <1>0, StopPlayerGood DEF Follows
    <3>. HIDE DEF o
    <3>2. Good([o EXCEPT !.player = "TV"])
      BY <3>1, PlayerGood DEF Follows
    <3>. QED
      BY <3>2 DEF o
  <2>. HIDE DEF s
  <2>4. w(ok) \in State /\ w(ok).source = "TV"
    BY <2>3, SwitchSourceGood DEF Sources, Follows, Good
  <2>. HIDE DEF w
  <2>5. tv.status # "STOP" => tv'.source = "TV"
    BY <2>1, <2>4 DEF Tune, State
  <2>. QED
    BY <2>1, <2>2, <2>5 DEF Near, Calm, Watches
<1>4. CASE StopPlay
  BY <1>0, <1>4, PlayerNear DEF StopPlay, Locked, Near, Calm, Watches
<1>5. CASE setFrontEnd
  <2>. DEFINE s(p) == Tune(StopPlaying(tv), p)
              a(p) == [s(p) EXCEPT !.action = @ \cup {"IN_VDIN"}, !.decoder = FALSE]
              d(p) == [s(p) EXCEPT !.action = @ \ {"IN_VDIN"}, !.decoder = FALSE,
                                   !.port = None]
  <2>1. PICK p \in Programs : tv' \in {a(p), d(p)}
    BY <1>5 DEF setFrontEnd, Locked
  <2>2. StopPlaying(tv) \in State /\ "PLAYING" \notin StopPlaying(tv).action
    BY <1>0, StopPlayingNear DEF Near
  <2>3. s(p) \in State /\ "PLAYING" \notin s(p).action
    BY <2>2 DEF Tune, State
  <2>. HIDE DEF s
  <2>4. "PLAYING" \notin a(p).action /\ "PLAYING" \notin d(p).action
    BY <2>3 DEF State
  <2>. HIDE DEF a, d
  <2>5. "SCANNING" \notin tv.action
    BY <1>5 DEF setFrontEnd
  <2>. QED
    BY <2>1, <2>4, <2>5 DEF Calm, Watches
<1>6. CASE Scan
  <2>1. tv'.source # "DTV"
    BY <1>0, <1>6 DEF Scan, Locked, Scanning, State
  <2>. QED
    BY <2>1 DEF Calm, Watches
<1>7. CASE dtvScan \/ atvManualScan
  <2>1. tv'.source = tv.source /\ tv'.action = tv.action \cup {"SCANNING"}
    BY <1>0, <1>7 DEF dtvScan, atvManualScan, Locked, Scanning, State
  <2>. QED
    BY <2>1 DEF Calm, Watches
<1>8. CASE atvAutoScan
  <2>. DEFINE s == StopPlaying(Scanning(tv))
  <2>1. Scanning(tv) \in State /\ "SCANNING" \in Scanning(tv).action
    BY <1>0 DEF Scanning, State, Flags
  <2>2. s \in State /\ "PLAYING" \notin s.action /\ "SCANNING" \in s.action
    BY <2>1, StopPlayingNear DEF Near
  <2>3. \E ranged \in BOOLEAN, snow \in BOOLEAN, ok \in BOOLEAN :
          tv' = IF ~ranged THEN s
                ELSE [s EXCEPT !.decoder = @ /\ snow /\ s.source = "TV",
                               !.port = OpenPort(s, "TV"),
                               !.scan = ok]
    BY <1>8 DEF atvAutoScan, Locked
  <2>. HIDE DEF s
  <2>4. tv'.action = s.action
    BY <2>3
  <2>. QED
    BY <2>2, <2>4 DEF Calm, Watches
<1>9. CASE stopScanLock
  <2>1. tv' = StopScan(tv)
    BY <1>9 DEF stopScanLock, Locked
  <2>2. \/ tv' = tv
        \/ tv'.source = "INVALID"
    BY <1>0, <2>1 DEF StopScan, State
  <2>. QED
    BY <2>2 DEF Calm, Watches
<1>10. ASSUME NEW c \in Callers,
              StopCall(c) \/ StopRaise(c) \/ StopBegin(c) \/ StopHalt(c) \/ StopEnd(c)
       PROVE  Calm(tv, tv')
  <2>1. CASE StopCall(c) \/ StopRaise(c)
    <3>1. tv'.source = tv.source
          /\ tv'.action \in {tv.action, (tv.action \cup {"STOPING"}) \ {"IN_VDIN"}}
      BY <1>0, <2>1 DEF StopCall, StopRaise, State
    <3>. QED
      BY <3>1 DEF Calm, Watches
  <2>2. CASE StopBegin(c)
    <3>. DEFINE s == [tv EXCEPT !.fe = FALSE, !.tuned = None]
                t == IF s.source \in {"TV", "DTV"} THEN ReleaseAll(s) ELSE s
    <3>1. s \in State /\ s.action = tv.action
      BY <1>0 DEF State
    <3>2. tv' = StopPlaying(t)
      BY <2>2 DEF StopBegin
    <3>. HIDE DEF s
    <3>3. Near(s, t)
      BY <3>1, ReleaseAllNear DEF Near
    <3>. HIDE DEF t
    <3>4. Near(t, tv') /\ "PLAYING" \notin tv'.action
      BY <3>2, <3>3, StopPlayingNear DEF Near
    <3>. QED
      BY <3>1, <3>3, <3>4 DEF Near, Calm, Watches
  <2>3. CASE StopHalt(c)
    <3>1. StopScan(tv) \in State
      BY <1>0, StopScanGood DEF Follows, Good
    <3>2. tv'.source = "INVALID"
      BY <2>3, <3>1 DEF StopHalt, State
    <3>. QED
      BY <3>2 DEF Calm, Watches
  <2>4. CASE StopEnd(c)
    <3>1. tv'.source = tv.source /\ tv'.action = tv.action \ {"STOPING"}
      BY <1>0, <2>4 DEF StopEnd, State
    <3>. QED
      BY <3>1 DEF Calm, Watches
  <2>. QED
    BY <1>10, <2>1, <2>2, <2>3, <2>4
<1>11. CASE \/ AskForCheck \/ TV_SetSameSourceEnable \/ operateDeviceForScan
            \/ PauseCheck \/ PauseTest \/ PauseUse
            \/ ResetCheck \/ ResetTune
  <2>1. tv'.source = tv.source /\ tv'.action = tv.action
    BY <1>0, <1>11 DEF AskForCheck, TV_SetSameSourceEnable, operateDeviceForScan, PauseCheck,
       PauseTest, PauseUse, ResetCheck, ResetTune, Tune, State
  <2>. QED
    BY <2>1 DEF Calm, Watches
<1>. QED
  BY <1>1, <1>2, <1>3, <1>4, <1>5, <1>6, <1>7, <1>8, <1>9, <1>10, <1>11 DEF Next

\* Nobody plays when a stop ends, and only a stop that ends takes STOPING down.
LEMMA StopEndsDark ==
    ASSUME "DTV" \notin AtvScanSources, IInv, Next,
           "STOPING" \in tv.action, "STOPING" \notin tv'.action
    PROVE  "PLAYING" \notin tv'.action
<1>1. PICK c \in Callers : Holds(c)
  BY DEF IInv, StopingTruthful
<1>2. IInv' /\ ~Holds(c)'
  BY NextIInv DEF IInv, StopingTruthful
<1>3. stop' # stop
  BY <1>1, <1>2 DEF Holds
<1>4. PICK d \in Callers : StopCall(d) \/ StopRaise(d) \/ StopBegin(d) \/ StopHalt(d) \/ StopEnd(d)
  BY <1>3 DEF Next, StartTvLock, SetSourceSwitchInput, StartDtv, StartTimeShift, StartLive,
     AskForCheck, StartAtv, StopPlay, setFrontEnd, Scan, dtvScan, atvAutoScan, atvManualScan,
     stopScanLock, onVdinSignalChange, TV_SetSameSourceEnable, operateDeviceForScan,
     PauseCheck, PauseTest, PauseUse, ResetCheck, ResetTune, Locked
<1>5. stop[d] = "halted" /\ StopEnd(d)
  BY <1>1, <1>2, <1>4 DEF StopCall, StopRaise, StopBegin, StopHalt, StopEnd, LockFree, Holds, IInv
<1>6. tv.action = {"STOPING"} /\ tv \in State
  BY <1>5 DEF IInv, StopLeavesIdle, Good
<1>. QED
  BY <1>5, <1>6 DEF StopEnd, State

\* While a check is to be asked for, mLock keeps the flags as they are.
LEMMA AskingHolds ==
    ASSUME IInv, Next, play = "asking"
    PROVE  \/ AskForCheck
           \/ play' = play /\ tv'.source = tv.source /\ tv'.action = tv.action
<1>1. ~LockFree /\ (\A c \in Callers : ~Holds(c)) /\ tv \in State
  BY DEF LockFree, IInv, Good
<1>2. ASSUME NEW c \in Callers,
             StopCall(c) \/ StopRaise(c) \/ StopBegin(c) \/ StopHalt(c) \/ StopEnd(c)
      PROVE  play' = play /\ tv'.source = tv.source /\ tv'.action = tv.action
  BY <1>1, <1>2 DEF StopCall, StopRaise, StopBegin, StopHalt, StopEnd, Holds, State
<1>3. CASE \/ TV_SetSameSourceEnable \/ operateDeviceForScan
           \/ PauseCheck \/ PauseTest \/ PauseUse
           \/ ResetCheck \/ ResetTune
  BY <1>1, <1>3 DEF TV_SetSameSourceEnable, operateDeviceForScan, PauseCheck, PauseTest,
     PauseUse, ResetCheck, ResetTune, Tune, State
<1>. QED
  BY <1>1, <1>2, <1>3 DEF Next, StartTvLock, SetSourceSwitchInput, StartDtv, StartTimeShift,
     StartLive, StartAtv, StopPlay, setFrontEnd, Scan, dtvScan, atvAutoScan, atvManualScan,
     stopScanLock, onVdinSignalChange, Locked

\* Only a start of a DTV player and the question for a check change play.
LEMMA PlayStays ==
    ASSUME Next, ~(StartDtv \/ StartTimeShift \/ StartLive), ~AskForCheck
    PROVE  play' = play
BY DEF Next, StartTvLock, SetSourceSwitchInput, StartAtv, StopPlay, setFrontEnd, Scan,
   dtvScan, atvAutoScan, atvManualScan, stopScanLock, onVdinSignalChange,
   TV_SetSameSourceEnable, operateDeviceForScan, PauseCheck, PauseTest, PauseUse,
   ResetCheck, ResetTune, Locked, StopCall, StopRaise, StopBegin, StopHalt, StopEnd

-----------------------------------------------------------------------------
(* The theorems. *)

\* A calm step is a step of TvWatch that begins nothing.
LEMMA CalmIsOther ==
    ASSUME "DTV" \notin AtvScanSources, IInv, Next, ~AskForCheck,
           Calm(tv, tv'), play' = play
    PROVE  Watch!Other
<1>1. Watch!Change
  BY DEF Watch!Change
<1>. QED
  BY <1>1, StopEndsDark, AskingHolds DEF Watch!Other, Calm, Watches

\* CTv's operations keep the promises of TvWatch.
THEOREM WatchImplemented == "DTV" \notin AtvScanSources => (Spec => ImplementsWatch)
<1>1. Init => Watch!WatchInit
  BY DEF Init, Watch!WatchInit
<1>2. ASSUME "DTV" \notin AtvScanSources, IInv, [Next]_vars
      PROVE  [Watch!WatchNext]_(Watch!watchVars)
  <2>1. CASE UNCHANGED vars
    BY <2>1 DEF vars, Watch!watchVars
  <2>2. CASE Next /\ (StartDtv \/ StartTimeShift \/ StartLive)
    <3>1. ~AskForCheck
      BY <2>2 DEF AskForCheck, StartDtv, StartTimeShift, StartLive, LockFree
    <3>. QED
      BY <1>2, <2>2, <3>1, StartDtvPlays, CalmIsOther DEF Watch!WatchNext
  <2>3. CASE AskForCheck
    BY <2>3 DEF AskForCheck, Watch!WatchNext, Watch!Ask
  <2>4. CASE Next /\ ~(StartDtv \/ StartTimeShift \/ StartLive) /\ ~AskForCheck
    BY <1>2, <2>4, OthersCalm, PlayStays, CalmIsOther DEF Watch!WatchNext
  <2>. QED
    BY <1>2, <2>1, <2>2, <2>3, <2>4
<1>3. CASE "DTV" \notin AtvScanSources
  <2>1. IInv /\ [Next]_vars => [Watch!WatchNext]_(Watch!watchVars)
    BY <1>2, <1>3
  <2>. QED
    BY <1>1, <1>3, <2>1, Inductive, PTL DEF Spec, ImplementsWatch, Watch!WatchSpec
<1>. QED
  BY <1>3

-----------------------------------------------------------------------------
(***************************************************************************)
(* TvSignal, which TvWatch connects with TvControl.  Its theorems are for  *)
(* any number of delayed checks and of queued events, and for every        *)
(* interleaving of libdvb's thread with the delayed check.                 *)
(*                                                                         *)
(* The newest news decides: unless two of them have crossed, what a thread *)
(* has in its hand is the status that the demodulator has, or the          *)
(* demodulator is searching again.  Once it is in the queue that holds     *)
(* only while DTV is watched and no check is under way, and the same is    *)
(* true of the report and of what was told.                                *)
(***************************************************************************)

EventOf(s) == IF s = "locked" THEN "HAS_SIG" ELSE "NO_SIG"

AllIdle == \A t \in Threads : Idle(t)

\* Somebody watches and nothing but the pipeline below will tell him.
Relies == Watching /\ Sound /\ Settled /\ checks = 0 /\ ~asking /\ AllIdle

\* A thread's news are true while they last, and so is mCurSigEv once written.
HandTrue ==
    \A t \in Threads :
       /\ Settled /\ ~crossed /\ hand[t] \in {"locked", "timedout"} => hand[t] = lock
       /\ Settled /\ ~crossed /\ hand[t] = "written" => ev = EventOf(lock)
       /\ hand[t] = "written" => ev # "none"

QueueTrue == Relies /\ queue # <<>> => queue[Len(queue)] = EventOf(lock)

ReportTrue == Relies /\ queue = <<>> /\ report # "none" => report = Truth

ToldTrue == Relies /\ queue = <<>> /\ report = "none" => told = Truth

\* The events in the threads' hands have their place in the queue.
Bounded == Len(queue) + Held("libdvb") + Held("message") <= MaxQueue

SignalInv ==
    /\ SignalTypeOK /\ Bounded
    /\ HandTrue /\ QueueTrue /\ ReportTrue /\ ToldTrue

-----------------------------------------------------------------------------
(* CTv's operations. *)

\* What is left of the demodulator's status by an operation.
LEMMA RetuneKeeps ==
    ASSUME SignalTypeOK, Retune
    PROVE  /\ lock' \in {"off", "searching", "locked", "timedout"}
           /\ Settled' => Settled /\ lock' = lock /\ tuned
BY DEF SignalTypeOK, Retune, Settled

\* Whoever relies on the pipeline after an operation that begins nothing did so
\* before.
LEMMA OtherRelies ==
    ASSUME SignalTypeOK, Other, Retune, UNCHANGED <<hand, checks, crossed, unasked>>, Relies'
    PROVE  Relies
<1>1. Settled /\ tuned /\ checks = 0 /\ ~asking /\ AllIdle /\ Sound
  BY RetuneKeeps DEF Relies, AllIdle, Idle, Sound, Other
<1>2. dtv /\ playing /\ ~scanning /\ ~stopping
  BY DEF Relies, Watching, Other
<1>. QED
  BY <1>1, <1>2 DEF Relies, Watching

\* A play whose news came early keeps the invariant: nothing is on its way, and
\* nobody relies on what was told before the check.
LEMMA EarlyStep ==
    ASSUME SignalInv, PlayProgram \/ PlayShifted, Early
    PROVE  SignalInv'
<1>1. /\ Change /\ crossed' = crossed /\ lock' = "locked"
      /\ hand' = hand /\ ev' = ev /\ queue' = queue /\ checks' = checks
      /\ report' = report /\ told' = told /\ \A t \in Threads : hand[t] = "no"
  BY DEF PlayProgram, PlayShifted, Play, PlayTimeShift, Begin, Early, Idle
<1>2. /\ asking' \in BOOLEAN /\ unasked' \in BOOLEAN /\ (asking' => checks < MaxChecks)
      /\ asking' \/ unasked'
  <2>1. CASE PlayProgram
    <3>1. asking' = TRUE /\ unasked' = FALSE /\ checks < MaxChecks
      BY <2>1 DEF PlayProgram, Play
    <3>. QED
      BY <3>1
  <2>2. CASE PlayShifted
    <3>1. asking' = FALSE /\ unasked' = TRUE
      BY <2>2 DEF PlayShifted, PlayTimeShift
    <3>. QED
      BY <3>1
  <2>. QED
    BY <2>1, <2>2
<1>3. SignalTypeOK'
  <2>1. {dtv', playing', scanning', stopping', tuned', asking', crossed', unasked'} \subseteq BOOLEAN
    BY <1>1, <1>2 DEF Change, SignalInv, SignalTypeOK
  <2>. QED
    BY <1>1, <1>2, <2>1 DEF SignalInv, SignalTypeOK
<1>4. Bounded'
  BY <1>1 DEF SignalInv, Bounded, Held, Idle
<1>5. HandTrue'
  BY <1>1 DEF HandTrue
<1>6. ~Relies'
  BY <1>2 DEF Relies, Sound
<1>. QED
  BY <1>3, <1>4, <1>5, <1>6 DEF SignalInv, QueueTrue, ReportTrue, ToldTrue

\* An operation of CTv keeps the invariant.
LEMMA OperationStep ==
    ASSUME SignalInv, PlayProgram \/ PlayShifted \/ Operate, Retune
    PROVE  SignalInv'
<1>1. /\ Retune /\ Change /\ crossed' = crossed
      /\ hand' = hand /\ ev' = ev /\ queue' = queue /\ checks' = checks
      /\ report' = report /\ told' = told
  BY DEF PlayProgram, PlayShifted, Operate, Play, PlayTimeShift, Begin, Other
<1>2. /\ asking' \in BOOLEAN /\ unasked' \in BOOLEAN /\ (asking' => checks < MaxChecks)
  <2>1. CASE PlayProgram
    <3>1. asking' = TRUE /\ unasked' = FALSE /\ checks < MaxChecks
      BY <2>1 DEF PlayProgram, Play
    <3>. QED
      BY <3>1
  <2>2. CASE PlayShifted
    <3>1. asking' = FALSE /\ unasked' = TRUE
      BY <2>2 DEF PlayShifted, PlayTimeShift
    <3>. QED
      BY <3>1
  <2>3. CASE Operate
    <3>1. asking' = asking /\ unasked' = unasked
      BY <2>3 DEF Operate, Other
    <3>2. /\ {dtv, playing, scanning, stopping, tuned, asking, crossed, unasked} \subseteq BOOLEAN
          /\ asking => checks < MaxChecks
      BY DEF SignalInv, SignalTypeOK
    <3>3. asking \in BOOLEAN /\ unasked \in BOOLEAN
      BY <3>2
    <3>. QED
      BY <3>1, <3>2, <3>3
  <2>. QED
    BY <2>1, <2>2, <2>3
<1>3. SignalTypeOK'
  <2>1. {dtv', playing', scanning', stopping', tuned', asking', crossed', unasked'} \subseteq BOOLEAN
    BY <1>1, <1>2 DEF Change, SignalInv, SignalTypeOK
  <2>. QED
    BY <1>1, <1>2, <2>1, RetuneKeeps DEF SignalInv, SignalTypeOK
<1>5. Bounded'
  BY <1>1 DEF SignalInv, Bounded, Held, Idle
<1>6. Settled' => Settled /\ lock' = lock
  BY <1>1, RetuneKeeps DEF SignalInv
<1>7. HandTrue'
  BY <1>1, <1>6 DEF SignalInv, HandTrue, EventOf
<1>8. Relies' => Relies
  <2>1. CASE PlayProgram
    BY <2>1 DEF PlayProgram, Play, Relies
  <2>2. CASE PlayShifted
    BY <2>2 DEF PlayShifted, Relies, Sound
  <2>3. CASE Operate
    BY <2>3, OtherRelies DEF Operate, SignalInv
  <2>. QED
    BY <2>1, <2>2, <2>3
<1>9. Relies' => Settled'
  BY DEF Relies
<1>10. QueueTrue' /\ ReportTrue' /\ ToldTrue'
  BY <1>1, <1>6, <1>8, <1>9
     DEF SignalInv, QueueTrue, ReportTrue, ToldTrue, Truth, EventOf
<1>. QED
  BY <1>3, <1>5, <1>7, <1>10 DEF SignalInv

\* The check is asked for: from now on it is under way.
LEMMA SendStep ==
    ASSUME SignalInv, SendCheck
    PROVE  SignalInv'
<1>1. /\ asking /\ ~asking' /\ checks' = checks + 1
      /\ UNCHANGED <<dtv, playing, scanning, stopping, tuned>>
      /\ UNCHANGED <<lock, hand, ev, queue, report, told, crossed, unasked>>
  BY DEF SendCheck, Ask
<1>2. checks' \in 0..MaxChecks /\ checks' # 0
  BY <1>1, SignalAssumption DEF SignalInv, SignalTypeOK
<1>3. SignalTypeOK'
  <2>1. asking' \in BOOLEAN
    BY DEF SendCheck, Ask
  <2>. QED
    BY <1>1, <1>2, <2>1 DEF SignalInv, SignalTypeOK
<1>4. Bounded' /\ HandTrue'
  BY <1>1 DEF SignalInv, Bounded, Held, Idle, HandTrue, Settled
<1>5. ~Relies'
  BY <1>2 DEF Relies
<1>. QED
  BY <1>3, <1>4, <1>5 DEF SignalInv, QueueTrue, ReportTrue, ToldTrue

-----------------------------------------------------------------------------
(* The frontend. *)

\* News in a hand: nobody relies on what is further down the pipeline.
LEMMA NewsStep ==
    ASSUME SignalTypeOK', Bounded', HandTrue', ~AllIdle'
    PROVE  SignalInv'
BY DEF SignalInv, QueueTrue, ReportTrue, ToldTrue, Relies

\* A new status in libdvb's hand is true, and crosses a check under way.
LEMMA StatusStep ==
    ASSUME SignalInv, StatusChange
    PROVE  SignalInv'
<1>1. /\ Room /\ hand["libdvb"] = "no" /\ crossed' = (hand["message"] # "no") /\ unasked' = FALSE
      /\ UNCHANGED <<watchVars, ev, queue, checks, report, told>>
      /\ lock' \in {"locked", "timedout"}
      /\ hand' = [hand EXCEPT !["libdvb"] = lock']
  BY DEF StatusChange, Idle
<1>2. hand'["libdvb"] = lock' /\ hand'["message"] = hand["message"]
  BY <1>1 DEF SignalInv, SignalTypeOK, Threads
<1>3. SignalTypeOK'
  BY <1>1 DEF SignalInv, SignalTypeOK, watchVars, Threads
<1>4. Bounded' /\ ~AllIdle'
  <2>1. Held("libdvb") = 0 /\ Held("message") \in {0, 1} /\ Len(queue) \in Nat
    BY <1>1 DEF Held, Idle, SignalInv, SignalTypeOK
  <2>2. Held("libdvb")' = 1 /\ Held("message")' = Held("message") /\ ~Idle("libdvb")'
    BY <1>1, <1>2 DEF Held, Idle
  <2>3. ~AllIdle'
    BY <2>2 DEF AllIdle, Threads
  <2>4. Len(queue) + Held("libdvb") + Held("message") < MaxQueue /\ queue' = queue
    BY <1>1 DEF Room
  <2>5. Bounded'
    BY <2>1, <2>2, <2>4, SignalAssumption DEF Bounded
  <2>. QED
    BY <2>3, <2>5
<1>5. HandTrue'
  BY <1>1, <1>2 DEF HandTrue, Threads, SignalInv
<1>. QED
  BY <1>3, <1>4, <1>5, NewsStep

\* The delayed check takes the present status in hand; alone, it ends what has
\* crossed before.
LEMMA CheckStep ==
    ASSUME SignalInv, CheckStatus
    PROVE  SignalInv'
<1>1. /\ Room /\ hand["message"] = "no" /\ checks > 0 /\ checks' = checks - 1
      /\ crossed' = (crossed /\ hand["libdvb"] # "no")
      /\ UNCHANGED <<watchVars, lock, ev, queue, report, told, unasked>>
  BY DEF CheckStatus, Idle
<1>2. checks' \in 0..MaxChecks /\ (asking' => checks' < MaxChecks)
  BY <1>1, SignalAssumption DEF SignalInv, SignalTypeOK, watchVars
<1>3. crossed' \in BOOLEAN
  BY <1>1
<1>4. CASE Settled
  <2>1. hand' = [hand EXCEPT !["message"] = lock]
    BY <1>4 DEF CheckStatus, Settled
  <2>2. hand'["message"] = lock /\ hand'["libdvb"] = hand["libdvb"] /\ lock # "no"
    BY <1>4, <2>1 DEF SignalInv, SignalTypeOK, Threads, Settled
  <2>3. SignalTypeOK'
    BY <1>1, <1>2, <1>3, <1>4, <2>1 DEF SignalInv, SignalTypeOK, watchVars, Threads, Settled
  <2>4. Bounded' /\ ~AllIdle'
    <3>1. Held("message") = 0 /\ Held("libdvb") \in {0, 1} /\ Len(queue) \in Nat
      BY <1>1 DEF Held, Idle, SignalInv, SignalTypeOK
    <3>2. Held("message")' = 1 /\ Held("libdvb")' = Held("libdvb") /\ ~Idle("message")'
      BY <2>2 DEF Held, Idle
    <3>3. ~AllIdle'
      BY <3>2 DEF AllIdle, Threads
    <3>4. Len(queue) + Held("libdvb") + Held("message") < MaxQueue /\ queue' = queue
      BY <1>1 DEF Room
    <3>5. Bounded'
      BY <3>1, <3>2, <3>4, SignalAssumption DEF Bounded
    <3>. QED
      BY <3>3, <3>5
  <2>5. HandTrue'
    BY <1>1, <1>4, <2>2 DEF SignalInv, HandTrue, Threads, Settled
  <2>. QED
    BY <2>3, <2>4, <2>5, NewsStep
<1>5. CASE ~Settled
  <2>1. hand' = hand
    BY <1>5 DEF CheckStatus, Settled
  <2>2. SignalTypeOK'
    BY <1>1, <1>2, <1>3, <2>1 DEF SignalInv, SignalTypeOK, watchVars
  <2>3. Bounded' /\ HandTrue'
    BY <1>1, <1>5, <2>1 DEF SignalInv, Bounded, Held, Idle, HandTrue, Settled
  <2>4. ~Relies'
    BY <1>1, <1>5 DEF Relies, Settled
  <2>. QED
    BY <2>2, <2>3, <2>4 DEF SignalInv, QueueTrue, ReportTrue, ToldTrue
<1>. QED
  BY <1>4, <1>5

\* mCurSigEv becomes what its writer had in hand.
LEMMA WriteStep ==
    ASSUME SignalInv, NEW t \in Threads, WriteEvent(t)
    PROVE  SignalInv'
<1>1. /\ hand[t] \in {"locked", "timedout"}
      /\ ev' = EventOf(hand[t])
      /\ hand' = [hand EXCEPT ![t] = "written"]
      /\ UNCHANGED <<watchVars, lock, queue, checks, report, told, crossed, unasked>>
  BY DEF WriteEvent, EventOf
<1>2. \A u \in Threads : hand'[u] = IF u = t THEN "written" ELSE hand[u]
  BY <1>1 DEF SignalInv, SignalTypeOK
<1>3. SignalTypeOK'
  BY <1>1 DEF SignalInv, SignalTypeOK, watchVars, EventOf
<1>4. Bounded' /\ ~AllIdle'
  <2>1. \A u \in Threads : Idle(u)' <=> Idle(u)
    BY <1>1, <1>2 DEF Idle
  <2>2. Held("libdvb")' = Held("libdvb") /\ Held("message")' = Held("message")
    BY <2>1 DEF Held, Threads
  <2>. QED
    BY <1>1, <1>2, <2>2 DEF SignalInv, Bounded, AllIdle, Idle
<1>5. HandTrue'
  BY <1>1, <1>2 DEF SignalInv, HandTrue, EventOf, Settled
<1>. QED
  BY <1>3, <1>4, <1>5, NewsStep

\* The event joins the queue: it is the newest there, and true.
LEMMA QueueStep ==
    ASSUME SignalInv, NEW t \in Threads, QueueEvent(t)
    PROVE  SignalInv'
<1>1. /\ hand[t] = "written"
      /\ queue' = Append(queue, ev)
      /\ hand' = [hand EXCEPT ![t] = "no"]
      /\ UNCHANGED <<watchVars, lock, ev, checks, report, told, crossed, unasked>>
  BY DEF QueueEvent
<1>2. ev \in {"HAS_SIG", "NO_SIG"} /\ (Settled /\ ~crossed => ev = EventOf(lock))
  BY <1>1 DEF SignalInv, HandTrue, SignalTypeOK
<1>3. \A u \in Threads : hand'[u] = IF u = t THEN "no" ELSE hand[u]
  BY <1>1 DEF SignalInv, SignalTypeOK
<1>4. /\ Held(t) = 1 /\ Held(t)' = 0
      /\ \A u \in Threads : Held(u) \in {0, 1} /\ (u # t => Held(u)' = Held(u))
  BY <1>1, <1>3 DEF Held, Idle
<1>5. /\ queue' \in Seq({"HAS_SIG", "NO_SIG"}) /\ Len(queue) \in Nat
      /\ Len(queue') = Len(queue) + 1 /\ queue'[Len(queue')] = ev
      /\ queue' # <<>>
  BY <1>1, <1>2 DEF SignalInv, SignalTypeOK
<1>6. Bounded' /\ Len(queue') <= MaxQueue
  <2>1. Len(queue) + Held("libdvb") + Held("message") <= MaxQueue
    BY DEF SignalInv, Bounded
  <2>2. CASE t = "libdvb"
    BY <1>4, <1>5, <2>1, <2>2, SignalAssumption DEF Bounded, Threads
  <2>3. CASE t = "message"
    BY <1>4, <1>5, <2>1, <2>3, SignalAssumption DEF Bounded, Threads
  <2>. QED
    BY <2>2, <2>3 DEF Threads
<1>7. SignalTypeOK'
  BY <1>1, <1>5, <1>6 DEF SignalInv, SignalTypeOK, watchVars
<1>8. HandTrue'
  BY <1>1, <1>3 DEF SignalInv, HandTrue, Settled
<1>9. QueueTrue'
  BY <1>1, <1>2, <1>5 DEF QueueTrue, Relies, Settled, Sound, EventOf
<1>10. ReportTrue' /\ ToldTrue'
  BY <1>5 DEF ReportTrue, ToldTrue
<1>. QED
  BY <1>6, <1>7, <1>8, <1>9, <1>10 DEF SignalInv

-----------------------------------------------------------------------------
(* The message thread. *)

\* The newest event becomes the report, because whoever relies on it watches.
LEMMA HandleStep ==
    ASSUME SignalInv, HandleEvent
    PROVE  SignalInv'
<1>1. /\ queue # <<>> /\ report = "none" /\ queue' = Tail(queue)
      /\ UNCHANGED <<watchVars, lock, hand, ev, checks, told, crossed, unasked>>
  BY DEF HandleEvent
<1>2. report' = IF Head(queue) = "HAS_SIG"
                THEN IF dtv /\ playing /\ ~scanning THEN "STABLE" ELSE "none"
                ELSE IF ~scanning /\ ~(dtv /\ stopping) THEN "NOSIG" ELSE "none"
  BY DEF HandleEvent
<1>3. queue \in Seq({"HAS_SIG", "NO_SIG"}) /\ Len(queue) <= MaxQueue
  BY DEF SignalInv, SignalTypeOK
<1>4. /\ queue' \in Seq({"HAS_SIG", "NO_SIG"}) /\ Len(queue') = Len(queue) - 1
      /\ Len(queue) > 0
  BY <1>1, <1>3
<1>5. queue' # <<>> => queue'[Len(queue')] = queue[Len(queue)]
  BY <1>1, <1>3, <1>4
<1>6. queue' = <<>> => Head(queue) = queue[Len(queue)]
  <2>. SUFFICES ASSUME queue' = <<>> PROVE Head(queue) = queue[Len(queue)]
    OBVIOUS
  <2>1. Len(queue') = 0 /\ Len(queue) \in Nat
    BY <1>3
  <2>2. Len(queue) = 1
    BY <1>4, <2>1
  <2>. QED
    BY <1>3, <2>2
<1>7. SignalTypeOK'
  <2>1. Len(queue') <= MaxQueue
    BY <1>3, <1>4, SignalAssumption
  <2>2. report' \in {"none", "STABLE", "NOSIG"}
    BY <1>2
  <2>. QED
    BY <1>1, <1>4, <2>1, <2>2 DEF SignalInv, SignalTypeOK, watchVars
<1>8. HandTrue'
  BY <1>1 DEF SignalInv, HandTrue, Settled
<1>9. Bounded'
  <2>1. /\ Held("libdvb")' = Held("libdvb") /\ Held("message")' = Held("message")
        /\ Held("libdvb") \in {0, 1} /\ Held("message") \in {0, 1}
    BY <1>1 DEF Held, Idle
  <2>. QED
    BY <1>3, <1>4, <2>1, SignalAssumption DEF SignalInv, Bounded
<1>10. Relies' <=> Relies
  BY <1>1 DEF Relies, Watching, Settled, Sound, AllIdle, Idle, watchVars
<1>11. QueueTrue'
  BY <1>1, <1>5, <1>10 DEF SignalInv, QueueTrue
<1>12. ASSUME Relies, queue' = <<>>
       PROVE  report' = Truth
  <2>1. Head(queue) = EventOf(lock)
    BY <1>1, <1>6, <1>12 DEF SignalInv, QueueTrue
  <2>2. dtv /\ playing /\ ~scanning /\ ~stopping
    BY <1>12 DEF Relies, Watching
  <2>3. CASE lock = "locked"
    <3>1. Head(queue) = "HAS_SIG"
      BY <2>1, <2>3 DEF EventOf
    <3>. QED
      BY <1>2, <2>2, <2>3, <3>1 DEF Truth
  <2>4. CASE lock # "locked"
    <3>1. Head(queue) # "HAS_SIG"
      BY <2>1, <2>4 DEF EventOf
    <3>. QED
      BY <1>2, <2>2, <2>4, <3>1 DEF Truth
  <2>. QED
    BY <2>3, <2>4
<1>13. ReportTrue' /\ ToldTrue'
  BY <1>1, <1>10, <1>12 DEF ReportTrue, ToldTrue, Truth
<1>. QED
  BY <1>7, <1>8, <1>9, <1>11, <1>13 DEF SignalInv

\* What is told is what was decided, unless a scan began.
LEMMA ReportStep ==
    ASSUME SignalInv, SendReport
    PROVE  SignalInv'
<1>1. /\ report # "none" /\ report' = "none"
      /\ told' = IF scanning THEN told ELSE report
      /\ UNCHANGED <<watchVars, lock, hand, ev, queue, checks, crossed, unasked>>
  BY DEF SendReport
<1>2. SignalTypeOK'
  BY <1>1 DEF SignalInv, SignalTypeOK, watchVars
<1>3. HandTrue' /\ Bounded'
  BY <1>1 DEF SignalInv, HandTrue, Bounded, Held, Idle, Settled
<1>4. Relies' <=> Relies
  BY <1>1 DEF Relies, Watching, Settled, Sound, AllIdle, Idle, watchVars
<1>5. QueueTrue' /\ ReportTrue'
  BY <1>1, <1>4 DEF SignalInv, QueueTrue, ReportTrue
<1>6. ToldTrue'
  <2>. SUFFICES ASSUME Relies, queue = <<>> PROVE told' = Truth
    BY <1>1, <1>4 DEF ToldTrue, Truth
  <2>1. report = Truth /\ ~scanning
    BY <1>1 DEF SignalInv, ReportTrue, Relies, Watching
  <2>. QED
    BY <1>1, <2>1
<1>. QED
  BY <1>2, <1>3, <1>5, <1>6 DEF SignalInv

-----------------------------------------------------------------------------
(* The theorems. *)

\* The initial state satisfies the invariant.
LEMMA InitSignal ==
    ASSUME SignalInit PROVE SignalInv
<1>1. SignalTypeOK
  <2>1. {dtv, playing, scanning, stopping, tuned, asking, crossed, unasked} \subseteq BOOLEAN
    BY DEF SignalInit, WatchInit
  <2>2. hand \in [Threads -> {"no", "locked", "timedout", "written"}]
    BY DEF SignalInit
  <2>3. queue \in Seq({"HAS_SIG", "NO_SIG"}) /\ Len(queue) = 0
    BY DEF SignalInit
  <2>4. Len(queue) <= MaxQueue /\ checks \in 0..MaxChecks
    BY <2>3, SignalAssumption DEF SignalInit, WatchInit
  <2>. QED
    BY <2>1, <2>2, <2>3, <2>4 DEF SignalInit, WatchInit, SignalTypeOK
<1>2. /\ \A t \in Threads : hand[t] = "no"
      /\ ~Settled /\ Len(queue) = 0
  BY DEF SignalInit, Settled
<1>3. Bounded
  BY <1>2, SignalAssumption DEF Bounded, Held, Idle, Threads
<1>. QED
  BY <1>1, <1>2, <1>3 DEF SignalInv, HandTrue, QueueTrue, ReportTrue, ToldTrue, Relies

\* Every step keeps the invariant.
LEMMA NextSignal ==
    ASSUME SignalInv, [SignalNext]_allVars PROVE SignalInv'
<1>1. CASE UNCHANGED allVars
  <2>1. SignalTypeOK'
    BY <1>1 DEF allVars, watchVars, signalVars, SignalInv, SignalTypeOK
  <2>2. Bounded' /\ HandTrue'
    BY <1>1 DEF allVars, signalVars, SignalInv, Bounded, Held, Idle, HandTrue, Settled
  <2>3. Relies' <=> Relies
    BY <1>1 DEF allVars, watchVars, signalVars, Relies, Watching, Sound, Settled, AllIdle, Idle
  <2>4. QueueTrue' /\ ReportTrue' /\ ToldTrue'
    BY <1>1, <2>3 DEF allVars, signalVars, SignalInv, QueueTrue, ReportTrue, ToldTrue, Truth
  <2>. QED
    BY <2>1, <2>2, <2>4 DEF SignalInv
<1>2. CASE PlayProgram \/ PlayShifted \/ Operate
  BY <1>2, OperationStep, EarlyStep DEF PlayProgram, PlayShifted, Operate
<1>8. CASE SendCheck
  BY <1>8, SendStep
<1>3. CASE StatusChange
  BY <1>3, StatusStep
<1>4. CASE CheckStatus
  BY <1>4, CheckStep
<1>5. ASSUME NEW t \in Threads, WriteEvent(t) \/ QueueEvent(t)
      PROVE  SignalInv'
  BY <1>5, WriteStep, QueueStep
<1>6. CASE HandleEvent
  BY <1>6, HandleStep
<1>7. CASE SendReport
  BY <1>7, ReportStep
<1>. QED
  BY <1>1, <1>2, <1>3, <1>4, <1>5, <1>6, <1>7, <1>8 DEF SignalNext

\* The inductive invariant holds at every moment.
THEOREM SignalInductive == SignalSpec => []SignalInv
<1>1. SignalInit => SignalInv
  BY InitSignal
<1>2. SignalInv /\ [SignalNext]_allVars => SignalInv'
  BY NextSignal
<1>. QED
  BY <1>1, <1>2, PTL DEF SignalSpec

\* Every value stays in its range; the queue and the events about to join it
\* respect its bound.
THEOREM SignalTypeCorrect == SignalSpec => []SignalTypeOK
<1>1. SignalInv => SignalTypeOK
  BY DEF SignalInv
<1>. QED
  BY <1>1, SignalInductive, PTL

\* When nothing is on its way any more, whoever watches DTV has been told the
\* status that the tuner has, whatever libdvb's thread and the check do to the one
\* mCurSigEv: unless a report crossed an older check, or a timeshift is watched
\* whose start asked for none.
THEOREM QuietIsTrue == SignalSpec => []QuietTruth
<1>1. SignalInv => QuietTruth
  BY DEF SignalInv, ToldTrue, Relies, AllIdle, QuietTruth
<1>. QED
  BY <1>1, SignalInductive, PTL

=============================================================================
