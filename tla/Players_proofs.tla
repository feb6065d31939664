--------------------------- MODULE Players_proofs ---------------------------
(***************************************************************************)
(* Proofs about Players, for any players, clients' recorders and devices.  *)
(*                                                                         *)
(* The recorders and the ts player are apart: what stops or starts the one *)
(* leaves the other alone, but a player's start, which is a recording, a   *)
(* timeshift and, when that fails, a live picture.  Tended is about the    *)
(* one and Fed about the other; Near and Kept say what an operation        *)
(* leaves alone.                                                           *)
(***************************************************************************)
EXTENDS Players, FiniteSetTheorems, TLAPS

Ids == RecorderIds \cup {TimeShifting}

RecorderSet == [fifo : Fifos, observer : {"none", "queue", "player"}, open : BOOLEAN]

\* What RecorderManager may hold, whatever its size.
Tables == UNION {[D -> RecorderSet] : D \in SUBSET Ids}

State == [playing   : BOOLEAN,
          scanning  : BOOLEAN,
          source    : Sources,
          player    : PlayerSet \cup {None},
          recorders : Tables,
          orphan    : BOOLEAN,
          session   : {"none", "demod", "memory"},
          shift     : BOOLEAN,
          playback  : {"none", "open", "stale"},
          hiu       : BOOLEAN]

\* No recorder hands its events to the player.
Unobserved(s) == \A id \in DOMAIN s.recorders : s.recorders[id].observer # "player"

Full(s) == IsFiniteSet(DOMAIN s.recorders) /\ Cardinality(DOMAIN s.recorders) <= MaxRecorders

\* RecordersTended; and only the player's own recorder observes for it.
Tended(s) ==
    /\ ~s.orphan /\ Full(s)
    /\ \A id \in DOMAIN s.recorders :
         /\ s.recorders[id].open => s.recorders[id].observer # "none"
         /\ s.recorders[id].observer = "player" =>
               id = TimeShifting /\ IsDtv(s) /\ s.player.enabled

Clean(s) == s.session = "none" /\ s.playback = "none" /\ ~s.shift

\* Outside timeshift the ts player decodes only for a DTV that plays, which is
\* why stopPlaying ends it; a timeshift is ended by its flag.
Flagged(s) ==
    /\ ~s.shift => s.playback = "none" /\ s.session # "memory"
    /\ ~s.shift /\ s.session # "none" => s.playing /\ s.source = "DTV" /\ ~s.scanning

Real(s) ==
    IsDtv(s) /\ s.player.mode = "TIMESHIFT" /\ s.playing /\ s.session # "none" =>
        s.session = "memory" /\ s.playback = "open" /\ s.shift /\ s.hiu

Fed(s) == Flagged(s) /\ Real(s) /\ (~IsDtv(s) => Clean(s))

IInv == tv \in State /\ Tended(tv) /\ Fed(tv)

\* t has the recorders and the player of s.
Aside(s, t) ==
    t.recorders = s.recorders /\ t.orphan = s.orphan /\ t.player = s.player

\* What is watched in t is what is watched in s.
Near(s, t) ==
    /\ t.playing = s.playing /\ t.scanning = s.scanning /\ t.source = s.source
    /\ t.session = s.session /\ t.shift = s.shift /\ t.playback = s.playback /\ t.hiu = s.hiu

\* The recordings of clients are those of s.
Kept(s, t) ==
    \A id \in DOMAIN s.recorders \ {TimeShifting} :
        id \in DOMAIN t.recorders /\ t.recorders[id] = s.recorders[id]

-----------------------------------------------------------------------------
(* Recorders. *)

LEMMA TablesAre ==
    ASSUME NEW r
    PROVE  r \in Tables <=> DOMAIN r \subseteq Ids /\ r \in [DOMAIN r -> RecorderSet]
BY DEF Tables

\* A table put into a state, without and with its orphan.
LEMMA NewTable ==
    ASSUME NEW s \in State, NEW r \in Tables
    PROVE  LET t == [s EXCEPT !.recorders = r]
           IN  /\ t \in State /\ Near(s, t) /\ t.player = s.player
               /\ t.recorders = r /\ t.orphan = s.orphan
BY DEF State, Near

With(s, o, r) == [s EXCEPT !.orphan = o, !.recorders = r]

LEMMA NewOrphan ==
    ASSUME NEW s \in State, NEW r \in Tables, NEW o \in BOOLEAN
    PROVE  LET t == With(s, o, r)
           IN  /\ t \in State /\ Near(s, t) /\ t.player = s.player
               /\ t.recorders = r /\ t.orphan = o
BY DEF State, Near, With

\* CTvRecord::stop closes one session and changes nothing else.
LEMMA StopRecorderDoes ==
    ASSUME NEW s \in State, NEW id
    PROVE  LET t == StopRecorder(s, id)
           IN  /\ t \in State /\ Near(s, t) /\ t.player = s.player /\ t.orphan = s.orphan
               /\ DOMAIN t.recorders = DOMAIN s.recorders
               /\ \A r \in DOMAIN s.recorders :
                     /\ t.recorders[r].observer = s.recorders[r].observer
                     /\ t.recorders[r].open => s.recorders[r].open
                     /\ r # id => t.recorders[r] = s.recorders[r]
               /\ id \in DOMAIN t.recorders => ~t.recorders[id].open
<1>. DEFINE r == [s.recorders EXCEPT ![id] = [s.recorders[id] EXCEPT !.open = FALSE]]
<1>0. s.recorders \in Tables
  BY DEF State
<1>1. CASE id \notin DOMAIN s.recorders
  BY <1>1 DEF StopRecorder, Near
<1>2. CASE id \in DOMAIN s.recorders
  <2>1. s.recorders[id] \in RecorderSet
    BY <1>0, <1>2, TablesAre
  <2>2. [s.recorders[id] EXCEPT !.open = FALSE] \in RecorderSet
    BY <2>1 DEF RecorderSet
  <2>3. r \in Tables
    BY <1>0, <2>2, TablesAre
  <2>4. StopRecorder(s, id) = [s EXCEPT !.recorders = r]
    BY <1>2 DEF StopRecorder
  <2>5. /\ DOMAIN r = DOMAIN s.recorders
        /\ r[id] = [s.recorders[id] EXCEPT !.open = FALSE]
        /\ \A q \in DOMAIN s.recorders : q # id => r[q] = s.recorders[q]
    BY <1>0, <1>2, TablesAre
  <2>6. ~r[id].open /\ r[id].observer = s.recorders[id].observer
    BY <2>1, <2>5 DEF RecorderSet
  <2>. HIDE DEF r
  <2>7. LET t == StopRecorder(s, id)
        IN  /\ t \in State /\ Near(s, t) /\ t.player = s.player
            /\ t.recorders = r /\ t.orphan = s.orphan
    BY <2>3, <2>4, NewTable
  <2>. QED
    BY <2>5, <2>6, <2>7
<1>. QED
  BY <1>1, <1>2

\* A recorder that is removed takes nothing along but a session left open.
LEMMA RemoveRecorderDoes ==
    ASSUME NEW s \in State, NEW id
    PROVE  LET t == removeRecorder(s, id)
           IN  /\ t \in State /\ Near(s, t) /\ t.player = s.player
               /\ DOMAIN t.recorders = DOMAIN s.recorders \ {id}
               /\ \A r \in DOMAIN t.recorders : t.recorders[r] = s.recorders[r]
               /\ id \notin DOMAIN s.recorders => Aside(s, t)
               /\ ~s.recorders[id].open => t.orphan = s.orphan
<1>. DEFINE r == Restrict(s.recorders, DOMAIN s.recorders \ {id})
            o == s.orphan \/ (id \in DOMAIN s.recorders /\ s.recorders[id].open)
<1>0. s.recorders \in Tables /\ s.orphan \in BOOLEAN
  BY DEF State
<1>1. /\ DOMAIN r = DOMAIN s.recorders \ {id}
      /\ \A q \in DOMAIN r : r[q] = s.recorders[q]
  BY DEF Restrict
<1>2. r \in Tables
  BY <1>0, <1>1, TablesAre DEF Restrict
<1>3. o \in BOOLEAN
  BY <1>0
<1>4. removeRecorder(s, id) = With(s, o, r)
  BY DEF removeRecorder, With
<1>5. id \notin DOMAIN s.recorders => r = s.recorders /\ o = s.orphan
  BY <1>0, <1>1, TablesAre DEF Restrict
<1>6. ~s.recorders[id].open => o = s.orphan
  BY <1>0
<1>. HIDE DEF r, o
<1>7. LET t == removeRecorder(s, id)
      IN  /\ t \in State /\ Near(s, t) /\ t.player = s.player
          /\ t.recorders = r /\ t.orphan = o
  BY <1>2, <1>3, <1>4, NewOrphan
<1>. QED
  BY <1>1, <1>5, <1>6, <1>7 DEF Aside

\* A recorder that ends is stopped first, and leaves no session behind.
LEMMA EndRecorderDoes ==
    ASSUME NEW s \in State, NEW id
    PROVE  LET t == EndRecorder(s, id)
           IN  /\ t \in State /\ Near(s, t) /\ t.player = s.player /\ t.orphan = s.orphan
               /\ DOMAIN t.recorders = DOMAIN s.recorders \ {id}
               /\ \A r \in DOMAIN t.recorders : t.recorders[r] = s.recorders[r]
<1>. DEFINE u == StopRecorder(s, id)
            t == removeRecorder(u, id)
<1>1. /\ u \in State /\ Near(s, u) /\ u.player = s.player /\ u.orphan = s.orphan
      /\ DOMAIN u.recorders = DOMAIN s.recorders
      /\ \A r \in DOMAIN s.recorders : r # id => u.recorders[r] = s.recorders[r]
      /\ id \in DOMAIN u.recorders => ~u.recorders[id].open
  BY StopRecorderDoes
<1>. HIDE DEF u
<1>2. /\ t \in State /\ Near(u, t) /\ t.player = u.player
      /\ DOMAIN t.recorders = DOMAIN u.recorders \ {id}
      /\ \A r \in DOMAIN t.recorders : t.recorders[r] = u.recorders[r]
      /\ id \notin DOMAIN u.recorders => Aside(u, t)
      /\ ~u.recorders[id].open => t.orphan = u.orphan
  BY <1>1, RemoveRecorderDoes
<1>. HIDE DEF t
<1>3. t.orphan = u.orphan
  BY <1>1, <1>2 DEF Aside
<1>4. EndRecorder(s, id) = t
  BY DEF EndRecorder, t, u
<1>. QED
  BY <1>1, <1>2, <1>3, <1>4 DEF Near

\* A recorder is found, and stopped; or made, closed and without observer; or
\* refused.  Nothing happens to the others.
LEMMA GetRecorderDoes ==
    ASSUME NEW s \in State, NEW id \in Ids, NEW fifo \in Fifos, Full(s)
    PROVE  LET t == getRecorder(s, id, fifo)
           IN  /\ t \in State /\ Near(s, t) /\ t.player = s.player /\ t.orphan = s.orphan
               /\ Full(t) /\ DOMAIN s.recorders \subseteq DOMAIN t.recorders
               /\ DOMAIN t.recorders \subseteq DOMAIN s.recorders \cup {id}
               /\ \A r \in DOMAIN s.recorders : r # id => t.recorders[r] = s.recorders[r]
               /\ id \in DOMAIN t.recorders =>
                     /\ ~t.recorders[id].open
                     /\ t.recorders[id].observer =
                           IF id \in DOMAIN s.recorders THEN s.recorders[id].observer ELSE "none"
<1>. DEFINE t == getRecorder(s, id, fifo)
            dom == DOMAIN s.recorders
<1>0. s.recorders \in Tables
  BY DEF State
<1>1. CASE id \in dom
  <2>. DEFINE u == StopRecorder(s, id)
              r == [u.recorders EXCEPT ![id] = [u.recorders[id] EXCEPT !.fifo = fifo]]
  <2>1. /\ u \in State /\ Near(s, u) /\ u.player = s.player /\ u.orphan = s.orphan
        /\ DOMAIN u.recorders = DOMAIN s.recorders
        /\ \A q \in DOMAIN s.recorders :
              /\ u.recorders[q].observer = s.recorders[q].observer
              /\ q # id => u.recorders[q] = s.recorders[q]
        /\ id \in DOMAIN u.recorders => ~u.recorders[id].open
    BY StopRecorderDoes
  <2>2. t = [u EXCEPT !.recorders = r]
    BY <1>1 DEF getRecorder
  <2>. HIDE DEF u
  <2>3. u.recorders \in Tables
    BY <2>1 DEF State
  <2>4. u.recorders[id] \in RecorderSet
    BY <1>1, <2>1, <2>3, TablesAre
  <2>5. [u.recorders[id] EXCEPT !.fifo = fifo] \in RecorderSet
    BY <2>4 DEF RecorderSet
  <2>6. r \in Tables
    BY <2>3, <2>5, TablesAre
  <2>7. /\ DOMAIN r = dom
        /\ r[id] = [u.recorders[id] EXCEPT !.fifo = fifo]
        /\ \A q \in dom : q # id => r[q] = u.recorders[q]
    BY <1>1, <2>1, <2>3, TablesAre
  <2>8. r[id].open = u.recorders[id].open /\ r[id].observer = u.recorders[id].observer
    BY <2>4, <2>7 DEF RecorderSet
  <2>. HIDE DEF r, t
  <2>9. /\ t \in State /\ Near(u, t) /\ t.player = u.player
        /\ t.recorders = r /\ t.orphan = u.orphan
    BY <2>1, <2>2, <2>6, NewTable
  <2>10. Full(t)
    BY <2>7, <2>9 DEF Full
  <2>11. Near(s, t)
    BY <2>1, <2>9 DEF Near
  <2>. QED
    BY <1>1, <2>1, <2>7, <2>8, <2>9, <2>10, <2>11 DEF t
<1>2. CASE id \notin dom /\ (\/ \E other \in dom : s.recorders[other].fifo = fifo
                             \/ Cardinality(dom) = MaxRecorders)
  <2>1. t = s
    BY <1>2 DEF getRecorder
  <2>. QED
    BY <1>2, <2>1 DEF Near
<1>3. CASE id \notin dom /\ ~(\/ \E other \in dom : s.recorders[other].fifo = fifo
                              \/ Cardinality(dom) = MaxRecorders)
  <2>. DEFINE new == [fifo |-> fifo, observer |-> "none", open |-> FALSE]
              r == [q \in dom \cup {id} |-> IF q = id THEN new ELSE s.recorders[q]]
  <2>1. t = [s EXCEPT !.recorders = r]
    BY <1>3 DEF getRecorder
  <2>2. new \in RecorderSet
    BY DEF RecorderSet
  <2>3. r \in Tables
    BY <1>0, <2>2, TablesAre
  <2>4. /\ DOMAIN r = dom \cup {id} /\ r[id] = new
        /\ \A q \in dom : q # id => r[q] = s.recorders[q]
    OBVIOUS
  <2>5. ~r[id].open /\ r[id].observer = "none"
    BY <2>4
  <2>. HIDE DEF r, t
  <2>6. /\ t \in State /\ Near(s, t) /\ t.player = s.player
        /\ t.recorders = r /\ t.orphan = s.orphan
    BY <2>1, <2>3, NewTable
  <2>7. Full(t)
    <3>1. /\ IsFiniteSet(dom) /\ Cardinality(dom) \in Nat
          /\ Cardinality(dom) < MaxRecorders
      BY <1>3, FS_CardinalityType DEF Full, MaxRecorders
    <3>2. IsFiniteSet(dom \cup {id}) /\ Cardinality(dom \cup {id}) = Cardinality(dom) + 1
      BY <1>3, <3>1, FS_AddElement
    <3>. QED
      BY <2>4, <2>6, <3>1, <3>2 DEF Full, MaxRecorders
  <2>. HIDE DEF new
  <2>. QED
    BY <1>3, <2>4, <2>5, <2>6, <2>7 DEF t
<1>. QED
  BY <1>1, <1>2, <1>3

\* A recorder that is started has its observer, whatever libdvr says.
LEMMA StartRecorderDoes ==
    ASSUME NEW s \in State, NEW id \in Ids, NEW fifo \in Fifos,
           NEW observer \in {"queue", "player"}, NEW ok \in BOOLEAN, Full(s)
    PROVE  LET t == StartRecorder(s, id, fifo, observer, ok)
           IN  /\ t \in State /\ Near(s, t) /\ t.player = s.player /\ t.orphan = s.orphan
               /\ Full(t) /\ DOMAIN s.recorders \subseteq DOMAIN t.recorders
               /\ DOMAIN t.recorders \subseteq DOMAIN s.recorders \cup {id}
               /\ \A r \in DOMAIN s.recorders : r # id => t.recorders[r] = s.recorders[r]
               /\ id \in DOMAIN t.recorders => t.recorders[id].observer = observer
<1>. DEFINE u == getRecorder(s, id, fifo)
            t == StartRecorder(s, id, fifo, observer, ok)
            new == [u.recorders[id] EXCEPT !.observer = observer, !.open = ok]
            r == [u.recorders EXCEPT ![id] = new]
<1>1. /\ u \in State /\ Near(s, u) /\ u.player = s.player /\ u.orphan = s.orphan
      /\ Full(u) /\ DOMAIN s.recorders \subseteq DOMAIN u.recorders
      /\ DOMAIN u.recorders \subseteq DOMAIN s.recorders \cup {id}
      /\ \A q \in DOMAIN s.recorders : q # id => u.recorders[q] = s.recorders[q]
  BY GetRecorderDoes
<1>2. CASE id \notin DOMAIN u.recorders
  <2>1. t = u
    BY <1>2 DEF StartRecorder
  <2>. HIDE DEF t, u
  <2>. QED
    BY <1>1, <1>2, <2>1 DEF t
<1>3. CASE id \in DOMAIN u.recorders
  <2>1. t = [u EXCEPT !.recorders = r]
    BY <1>3 DEF StartRecorder
  <2>. HIDE DEF u
  <2>2. u.recorders \in Tables
    BY <1>1 DEF State
  <2>3. u.recorders[id] \in RecorderSet
    BY <1>3, <2>2, TablesAre
  <2>4. new \in RecorderSet /\ new.observer = observer
    BY <2>3 DEF RecorderSet
  <2>. HIDE DEF new
  <2>5. r \in Tables
    BY <2>2, <2>4, TablesAre
  <2>6. /\ DOMAIN r = DOMAIN u.recorders /\ r[id] = new
        /\ \A q \in DOMAIN u.recorders : q # id => r[q] = u.recorders[q]
    BY <1>3, <2>2, TablesAre
  <2>. HIDE DEF r, t
  <2>7. /\ t \in State /\ Near(u, t) /\ t.player = u.player
        /\ t.recorders = r /\ t.orphan = u.orphan
    BY <1>1, <2>1, <2>5, NewTable
  <2>8. Full(t) /\ Near(s, t)
    BY <1>1, <2>6, <2>7 DEF Full, Near
  <2>. QED
    BY <1>1, <2>4, <2>6, <2>7, <2>8 DEF t
<1>. QED
  BY <1>2, <1>3

\* Changing one recorder keeps all of them tended, if that one is.
LEMMA OneChanged ==
    ASSUME NEW s \in State, NEW t \in State, NEW id, Tended(s),
           t.player = s.player, t.orphan = s.orphan, Full(t),
           \A r \in DOMAIN t.recorders : r # id =>
               r \in DOMAIN s.recorders /\ t.recorders[r] = s.recorders[r],
           id \in DOMAIN t.recorders =>
               /\ t.recorders[id].open => t.recorders[id].observer # "none"
               /\ t.recorders[id].observer = "player" =>
                     id = TimeShifting /\ IsDtv(s) /\ s.player.enabled
    PROVE  Tended(t)
BY DEF Tended, IsDtv

\* A smaller table is not too full.
LEMMA Fuller ==
    ASSUME NEW s, NEW t, NEW id, Full(s), DOMAIN t.recorders = DOMAIN s.recorders \ {id}
    PROVE  Full(t)
<1>1. DOMAIN t.recorders \in SUBSET DOMAIN s.recorders
  OBVIOUS
<1>2. /\ IsFiniteSet(DOMAIN t.recorders)
      /\ Cardinality(DOMAIN t.recorders) <= Cardinality(DOMAIN s.recorders)
  BY <1>1, FS_Subset DEF Full
<1>3. Cardinality(DOMAIN t.recorders) \in Nat /\ Cardinality(DOMAIN s.recorders) \in Nat
  BY <1>2, FS_CardinalityType DEF Full
<1>. QED
  BY <1>2, <1>3 DEF Full, MaxRecorders

LEMMA EndRecorderTended ==
    ASSUME NEW s \in State, NEW id, Tended(s)
    PROVE  /\ Tended(EndRecorder(s, id))
           /\ id = TimeShifting => Kept(s, EndRecorder(s, id)) /\ Unobserved(EndRecorder(s, id))
<1>. DEFINE t == EndRecorder(s, id)
<1>1. /\ t \in State /\ t.player = s.player /\ t.orphan = s.orphan
      /\ DOMAIN t.recorders = DOMAIN s.recorders \ {id}
      /\ \A r \in DOMAIN t.recorders : t.recorders[r] = s.recorders[r]
  BY EndRecorderDoes
<1>. HIDE DEF t
<1>2. Full(t)
  BY <1>1, Fuller DEF Tended
<1>3. Tended(t)
  BY <1>1, <1>2, OneChanged
<1>. QED
  BY <1>1, <1>3 DEF t, Tended, Kept, Unobserved

\* The player's recorder, made while nobody observes for the player.
LEMMA StartRecorderTended ==
    ASSUME NEW s \in State, NEW id \in Ids, NEW fifo \in Fifos,
           NEW observer \in {"queue", "player"}, NEW ok \in BOOLEAN, Tended(s),
           observer = "player" => id = TimeShifting /\ IsDtv(s) /\ s.player.enabled
    PROVE  /\ Tended(StartRecorder(s, id, fifo, observer, ok))
           /\ id = TimeShifting => Kept(s, StartRecorder(s, id, fifo, observer, ok))
<1>. DEFINE t == StartRecorder(s, id, fifo, observer, ok)
<1>0. Full(s)
  BY DEF Tended
<1>1. /\ t \in State /\ t.player = s.player /\ t.orphan = s.orphan /\ Full(t)
      /\ DOMAIN s.recorders \subseteq DOMAIN t.recorders
      /\ DOMAIN t.recorders \subseteq DOMAIN s.recorders \cup {id}
      /\ \A r \in DOMAIN s.recorders : r # id => t.recorders[r] = s.recorders[r]
      /\ id \in DOMAIN t.recorders => t.recorders[id].observer = observer
  BY <1>0, StartRecorderDoes
<1>. HIDE DEF t
<1>2. Tended(t)
  BY <1>1, OneChanged
<1>. QED
  BY <1>1, <1>2 DEF t, Kept

LEMMA GetRecorderTended ==
    ASSUME NEW s \in State, NEW id \in Ids, NEW fifo \in Fifos, Tended(s)
    PROVE  Tended(getRecorder(s, id, fifo))
<1>. DEFINE t == getRecorder(s, id, fifo)
<1>0. Full(s)
  BY DEF Tended
<1>1. /\ t \in State /\ t.player = s.player /\ t.orphan = s.orphan /\ Full(t)
      /\ DOMAIN s.recorders \subseteq DOMAIN t.recorders
      /\ DOMAIN t.recorders \subseteq DOMAIN s.recorders \cup {id}
      /\ \A r \in DOMAIN s.recorders : r # id => t.recorders[r] = s.recorders[r]
      /\ id \in DOMAIN t.recorders =>
            /\ ~t.recorders[id].open
            /\ t.recorders[id].observer =
                  IF id \in DOMAIN s.recorders THEN s.recorders[id].observer ELSE "none"
  BY <1>0, GetRecorderDoes
<1>. HIDE DEF t
<1>2. id \in DOMAIN t.recorders /\ t.recorders[id].observer = "player" =>
          id = TimeShifting /\ IsDtv(s) /\ s.player.enabled
  BY <1>1 DEF Tended
<1>3. Tended(t)
  BY <1>1, <1>2, OneChanged
<1>. QED
  BY <1>3 DEF t

-----------------------------------------------------------------------------
(* The ts player and the playback. *)

LEMMA AsideTended ==
    ASSUME NEW s, NEW t, Tended(s), Aside(s, t)
    PROVE  Tended(t) /\ Kept(s, t)
BY DEF Tended, Aside, Full, Kept, IsDtv

LEMMA DelPlayerDoes ==
    ASSUME NEW s \in State
    PROVE  LET t == delPlayer(s)
           IN  /\ t \in State /\ Aside(s, t)
               /\ t.playing = s.playing /\ t.scanning = s.scanning /\ t.source = s.source
               /\ t.hiu = s.hiu /\ t.shift = s.shift /\ t.session = "none"
               /\ s.playback = "none" => t.playback = "none"
BY DEF State, delPlayer, Aside

\* Once stopped, nothing is left of a timeshift.
LEMMA StopTimeShiftDoes ==
    ASSUME NEW s \in State
    PROVE  LET t == stopTimeShift(s)
           IN  /\ t \in State /\ Aside(s, t)
               /\ t.playing = s.playing /\ t.scanning = s.scanning /\ t.source = s.source
               /\ t.hiu = s.hiu
               /\ s.shift => Clean(t)
               /\ ~s.shift => t = s
BY DEF State, stopTimeShift, Aside, Clean

\* Whatever the ts player is fed from, StopTS ends it.
LEMMA StopTSDoes ==
    ASSUME NEW s \in State, Flagged(s)
    PROVE  LET t == StopTS(s)
           IN  /\ t \in State /\ Aside(s, t)
               /\ t.playing = s.playing /\ t.scanning = s.scanning /\ t.source = s.source
               /\ t.hiu = s.hiu /\ Clean(t)
<1>1. CASE s.shift
  BY <1>1, StopTimeShiftDoes DEF StopTS
<1>2. CASE ~s.shift
  BY <1>2, DelPlayerDoes DEF StopTS, Flagged, Clean
<1>. QED
  BY <1>1, <1>2

\* stopPlaying stops what plays, unless that is a timeshift whose source is gone.
LEMMA StopPlayingDoes ==
    ASSUME NEW s \in State, Flagged(s)
    PROVE  LET t == stopPlaying(s)
           IN  /\ t \in State /\ Aside(s, t) /\ Flagged(t)
               /\ ~t.playing /\ t.scanning = s.scanning /\ t.source = s.source
               /\ t.hiu = s.hiu
               /\ ~t.shift => Clean(t)
               /\ Clean(s) => Clean(t)
<1>. DEFINE u == IF s.source = "DTV" THEN StopTS(s) ELSE s
            t == [u EXCEPT !.playing = FALSE]
<1>1. CASE ~s.playing
  BY <1>1 DEF stopPlaying, State, Aside, Flagged, Clean
<1>2. CASE s.playing
  <2>1. /\ u \in State /\ Aside(s, u)
        /\ u.scanning = s.scanning /\ u.source = s.source /\ u.hiu = s.hiu
        /\ Clean(u) \/ (u = s /\ s.source # "DTV")
    BY StopTSDoes DEF Aside
  <2>2. stopPlaying(s) = t
    BY <1>2 DEF stopPlaying
  <2>. HIDE DEF u
  <2>3. /\ t \in State /\ Aside(u, t) /\ ~t.playing
        /\ t.scanning = u.scanning /\ t.source = u.source /\ t.hiu = u.hiu
        /\ t.session = u.session /\ t.shift = u.shift /\ t.playback = u.playback
    BY <2>1 DEF State, Aside
  <2>. HIDE DEF t
  <2>4. Aside(s, t)
    BY <2>1, <2>3 DEF Aside
  <2>5. ~t.shift => Clean(t)
    BY <2>1, <2>3 DEF Flagged, Clean
  <2>6. Flagged(t)
    BY <2>5 DEF Flagged, Clean
  <2>. QED
    BY <2>1, <2>2, <2>3, <2>4, <2>5, <2>6 DEF Clean
<1>. QED
  BY <1>1, <1>2

\* A switch of the source keeps a timeshift real: it ends it or leaves it alone.
LEMMA SwitchSourceDoes ==
    ASSUME NEW s \in State, NEW src \in Sources, Flagged(s)
    PROVE  LET t == SwitchSource(s, src)
           IN  /\ t \in State /\ Aside(s, t) /\ Flagged(t)
               /\ ~t.scanning /\ t.source = src
               /\ Real(s) => Real(t)
               /\ Clean(s) => Clean(t)
<1>. DEFINE u == [s EXCEPT !.scanning = FALSE]
            v == stopPlaying(u)
            t == [v EXCEPT !.source = src, !.hiu = @ /\ src # "DTV"]
<1>1. /\ u \in State /\ Aside(s, u) /\ ~u.scanning /\ u.source = s.source
      /\ u.playing = s.playing /\ u.session = s.session /\ u.shift = s.shift
      /\ u.playback = s.playback /\ u.hiu = s.hiu
  BY DEF State, Aside
<1>2. Flagged(u) /\ (Clean(s) => Clean(u)) /\ (Real(s) => Real(u))
  BY <1>1 DEF Flagged, Clean, Real, Aside, IsDtv
<1>3. CASE src = s.source /\ src # "TV"
  <2>1. SwitchSource(s, src) = u
    BY <1>3 DEF SwitchSource
  <2>. HIDE DEF u
  <2>. QED
    BY <1>1, <1>2, <1>3, <2>1
<1>4. CASE ~(src = s.source /\ src # "TV")
  <2>1. SwitchSource(s, src) = t
    BY <1>4 DEF SwitchSource
  <2>. HIDE DEF u
  <2>2. /\ v \in State /\ Aside(u, v) /\ Flagged(v) /\ ~v.playing /\ v.scanning = u.scanning
        /\ ~v.shift => Clean(v)
        /\ Clean(u) => Clean(v)
    BY <1>1, <1>2, StopPlayingDoes
  <2>. HIDE DEF v
  <2>3. /\ t \in State /\ Aside(v, t) /\ ~t.playing /\ t.scanning = v.scanning /\ t.source = src
        /\ t.session = v.session /\ t.shift = v.shift /\ t.playback = v.playback
    BY <2>2 DEF State, Aside
  <2>. HIDE DEF t
  <2>4. Aside(s, t)
    BY <1>1, <2>2, <2>3 DEF Aside
  <2>5. Flagged(t) /\ Real(t) /\ (Clean(v) => Clean(t))
    BY <2>2, <2>3 DEF Flagged, Real, Clean
  <2>. QED
    BY <1>1, <1>2, <2>1, <2>2, <2>3, <2>4, <2>5
<1>. QED
  BY <1>3, <1>4

LEMMA StartTimeShiftDoes ==
    ASSUME NEW s \in State, NEW outcome \in Outcomes
    PROVE  LET t == startTimeShift(s, outcome)
           IN  /\ t \in State /\ Aside(s, t) /\ Flagged(t)
               /\ outcome = "started" =>
                     t.session = "memory" /\ t.playback = "open" /\ t.shift /\ t.hiu
<1>. DEFINE u == delPlayer(s)
            t == startTimeShift(s, outcome)
<1>1. u \in State /\ Aside(s, u)
  BY DelPlayerDoes
<1>. HIDE DEF u
<1>2. t \in State /\ Aside(u, t) /\ t.shift
  BY <1>1 DEF State, Outcomes, startTimeShift, Aside, u
<1>3. outcome = "started" => t.session = "memory" /\ t.playback = "open" /\ t.hiu
  BY <1>1 DEF State, startTimeShift, u
<1>. HIDE DEF t
<1>4. Flagged(t) /\ Aside(s, t)
  BY <1>1, <1>2 DEF Flagged, Aside
<1>. QED
  BY <1>2, <1>3, <1>4 DEF t

-----------------------------------------------------------------------------
(* Players. *)

\* What a player leaves that has stopped: nothing of its own.
Quiet(s) == Clean(s) /\ Tended(s) /\ Unobserved(s)

LEMMA QuietFed ==
    ASSUME NEW s \in State, Clean(s)
    PROVE  Fed(s)
BY DEF Fed, Flagged, Real, Clean

\* stop ends the recording of a player, too, and needs no real timeshift for it.
LEMMA StopPlayerDoes ==
    ASSUME NEW s \in State, Tended(s), Flagged(s), ~IsDtv(s) => Clean(s)
    PROVE  LET t == stopPlayer(s)
           IN  t \in State /\ t.player = s.player /\ Quiet(t) /\ Kept(s, t)
<1>. DEFINE t == stopPlayer(s)
<1>1. CASE s.player = None
  <2>1. t = s /\ ~IsDtv(s)
    BY <1>1 DEF stopPlayer, IsDtv
  <2>. QED
    BY <2>1 DEF Quiet, Tended, Unobserved, Kept
<1>2. CASE s.player # None /\ ~IsDtv(s)
  <2>1. t = stopPlaying(s)
    BY <1>2 DEF stopPlayer
  <2>. HIDE DEF t
  <2>2. t \in State /\ Aside(s, t) /\ Clean(t)
    BY <1>2, <2>1, StopPlayingDoes
  <2>3. Tended(t) /\ Kept(s, t) /\ ~IsDtv(t)
    BY <1>2, <2>2, AsideTended DEF Aside, IsDtv
  <2>. QED
    BY <2>2, <2>3 DEF t, Quiet, Tended, Unobserved, Aside
<1>3. CASE IsDtv(s)
  <2>. DEFINE u == IF s.player.enabled THEN EndRecorder(s, TimeShifting) ELSE s
              v == stopPlaying(u)
  <2>1. /\ u \in State /\ u.player = s.player /\ Near(s, u)
        /\ Tended(u) /\ Kept(s, u) /\ Unobserved(u)
    <3>1. CASE s.player.enabled
      BY <3>1, EndRecorderDoes, EndRecorderTended
    <3>2. CASE ~s.player.enabled
      BY <3>2 DEF Near, Tended, Kept, Unobserved
    <3>. QED
      BY <3>1, <3>2
  <2>2. t = stopTimeShift(v)
    BY <1>3 DEF stopPlayer, IsDtv
  <2>. HIDE DEF u, t
  <2>3. Flagged(u)
    BY <2>1 DEF Flagged, Near
  <2>4. v \in State /\ Aside(u, v) /\ (~v.shift => Clean(v))
    BY <2>1, <2>3, StopPlayingDoes
  <2>. HIDE DEF v
  <2>5. t \in State /\ Aside(v, t) /\ Clean(t)
    BY <2>2, <2>4, StopTimeShiftDoes
  <2>6. Aside(u, t)
    BY <2>4, <2>5 DEF Aside
  <2>7. Tended(t)
    BY <2>1, <2>6, AsideTended
  <2>. QED
    BY <2>1, <2>5, <2>6, <2>7 DEF t, Quiet, Unobserved, Kept, Aside
<1>. QED
  BY <1>1, <1>2, <1>3

\* A player that has stopped can be deleted.
LEMMA DeletePlayerDoes ==
    ASSUME NEW s \in State, Quiet(s)
    PROVE  LET t == deletePlayer(s)
           IN  t \in State /\ t.player = None /\ Quiet(t) /\ Kept(s, t)
<1>. DEFINE u == IF IsDtv(s) THEN StopRecorder(s, TimeShifting) ELSE s
            t == [u EXCEPT !.player = None]
<1>1. /\ u \in State /\ Near(s, u) /\ u.player = s.player /\ u.orphan = s.orphan
      /\ DOMAIN u.recorders = DOMAIN s.recorders
      /\ \A r \in DOMAIN s.recorders :
            /\ u.recorders[r].observer = s.recorders[r].observer
            /\ u.recorders[r].open => s.recorders[r].open
            /\ r # TimeShifting => u.recorders[r] = s.recorders[r]
  BY StopRecorderDoes DEF Near
<1>2. deletePlayer(s) = t
  BY DEF deletePlayer
<1>. HIDE DEF u
<1>3. /\ t \in State /\ Near(u, t) /\ t.player = None
      /\ t.orphan = u.orphan /\ t.recorders = u.recorders
  BY <1>1 DEF State, Near
<1>. HIDE DEF t
<1>4. Clean(t)
  BY <1>1, <1>3 DEF Quiet, Clean, Near
<1>5. Tended(t) /\ Unobserved(t) /\ Kept(s, t)
  BY <1>1, <1>3 DEF Quiet, Tended, Unobserved, Full, Kept
<1>. QED
  BY <1>2, <1>3, <1>4, <1>5 DEF Quiet

LEMMA KeptAlong ==
    ASSUME NEW s, NEW t, NEW u, Kept(s, t), Kept(t, u)
    PROVE  Kept(s, u)
BY DEF Kept

LEMMA ReleasePlayersDoes ==
    ASSUME NEW s \in State, Tended(s), Flagged(s), ~IsDtv(s) => Clean(s)
    PROVE  LET t == releasePlayers(s)
           IN  t \in State /\ t.player = None /\ Quiet(t) /\ Kept(s, t)
<1>. DEFINE u == stopPlayer(s)
            t == deletePlayer(u)
<1>1. u \in State /\ Quiet(u) /\ Kept(s, u)
  BY StopPlayerDoes
<1>. HIDE DEF u
<1>2. t \in State /\ t.player = None /\ Quiet(t) /\ Kept(u, t)
  BY <1>1, DeletePlayerDoes
<1>. HIDE DEF t
<1>3. Kept(s, t)
  BY <1>1, <1>2, KeptAlong
<1>. QED
  BY <1>2, <1>3 DEF releasePlayers, t, u

\* Whoever gets a player gets one that has stopped, of the id it asked for.
LEMMA GetPlayerDoes ==
    ASSUME NEW s \in State, Tended(s), Flagged(s), ~IsDtv(s) => Clean(s),
           NEW id \in DtvIds \cup AtvIds, NEW mode \in Modes, NEW enabled \in BOOLEAN
    PROVE  LET t == getPlayer(s, id, mode, enabled)
           IN  /\ t \in State /\ t.player \in PlayerSet /\ t.player.id = id /\ t.player.mode = mode
               /\ Quiet(t) /\ Kept(s, t)
<1>. DEFINE t == getPlayer(s, id, mode, enabled)
<1>1. CASE s.player # None /\ s.player.id = id
  <2>. DEFINE u == [s EXCEPT !.player.mode = mode]
  <2>1. /\ u \in State /\ Near(s, u) /\ u.player \in PlayerSet /\ u.player.id = id
        /\ u.player.mode = mode /\ u.player.enabled = s.player.enabled
        /\ u.recorders = s.recorders /\ u.orphan = s.orphan
    BY <1>1 DEF State, PlayerSet, Near
  <2>2. t = stopPlayer(u)
    BY <1>1 DEF getPlayer
  <2>. HIDE DEF u, t
  <2>3. u.player # None
    BY <2>1, PlayersAssumption
  <2>4. /\ Tended(u) /\ Kept(s, u) /\ Flagged(u)
        /\ ~IsDtv(u) => Clean(u)
    BY <1>1, <2>1, <2>3 DEF Tended, Kept, Flagged, Full, IsDtv, Clean, Near
  <2>5. t \in State /\ t.player = u.player /\ Quiet(t) /\ Kept(u, t)
    BY <2>1, <2>2, <2>4, StopPlayerDoes
  <2>6. Kept(s, t)
    BY <2>4, <2>5, KeptAlong
  <2>. QED
    BY <2>1, <2>5, <2>6 DEF t
<1>2. CASE ~(s.player # None /\ s.player.id = id)
  <2>. DEFINE u == releasePlayers(s)
              p == [id |-> id, mode |-> mode, enabled |-> enabled]
  <2>1. t = [u EXCEPT !.player = p]
    BY <1>2 DEF getPlayer
  <2>2. u \in State /\ u.player = None /\ Quiet(u) /\ Kept(s, u)
    BY ReleasePlayersDoes
  <2>3. p \in PlayerSet /\ p.id = id /\ p.mode = mode
    BY DEF PlayerSet
  <2>. HIDE DEF u, p
  <2>4. /\ t \in State /\ Near(u, t) /\ t.player = p
        /\ t.recorders = u.recorders /\ t.orphan = u.orphan
    BY <2>1, <2>2, <2>3 DEF State, Near
  <2>. HIDE DEF t
  <2>5. Quiet(t) /\ Kept(s, t)
    BY <2>2, <2>4 DEF Quiet, Clean, Near, Tended, Unobserved, Full, Kept
  <2>. QED
    BY <2>3, <2>4, <2>5 DEF t
<1>. QED
  BY <1>1, <1>2

\* Live, whether or not the ts player starts: nothing claims a timeshift.
LEMMA StartLiveDoes ==
    ASSUME NEW s \in State, IsDtv(s), s.player \in PlayerSet, Tended(s), Flagged(s),
           NEW mode \in {"LIVE", "PLAIN"}, NEW ok \in BOOLEAN
    PROVE  LET t == startLive(s, mode, ok)
           IN  t \in State /\ Tended(t) /\ Fed(t) /\ Kept(s, t)
<1>. DEFINE u == SwitchSource(s, "DTV")
            v == [u EXCEPT !.playing = TRUE, !.player.mode = mode]
            w == delPlayer(v)
            t == [w EXCEPT !.session = IF ok THEN "demod" ELSE "none"]
<1>1. /\ u \in State /\ Aside(s, u) /\ Flagged(u) /\ ~u.scanning /\ u.source = "DTV"
  BY SwitchSourceDoes DEF Sources
<1>2. startLive(s, mode, ok) = t
  BY DEF startLive, StartTS
<1>. HIDE DEF u
<1>3. /\ v \in State /\ v.playing /\ v.scanning = u.scanning /\ v.source = u.source
      /\ v.shift = u.shift /\ v.playback = u.playback
      /\ v.recorders = u.recorders /\ v.orphan = u.orphan
      /\ v.player \in PlayerSet /\ v.player.id = u.player.id
      /\ v.player.enabled = u.player.enabled /\ v.player.mode = mode
  BY <1>1 DEF State, PlayerSet, Modes, Aside
<1>. HIDE DEF v
<1>4. /\ w \in State /\ Aside(v, w) /\ w.playing /\ ~w.scanning /\ w.source = "DTV"
      /\ w.shift = v.shift
      /\ v.playback = "none" => w.playback = "none"
  BY <1>1, <1>3, DelPlayerDoes
<1>. HIDE DEF w
<1>5. /\ t \in State /\ Aside(w, t) /\ t.playing /\ ~t.scanning /\ t.source = "DTV"
      /\ t.shift = w.shift /\ t.playback = w.playback /\ t.session # "memory"
  BY <1>4 DEF State, Aside
<1>. HIDE DEF t
<1>6. Flagged(t)
  BY <1>1, <1>3, <1>4, <1>5 DEF Flagged
<1>7. t.player # None /\ IsDtv(t) /\ t.player.mode = mode
  BY <1>1, <1>3, <1>4, <1>5, PlayersAssumption DEF Aside, IsDtv
<1>8. Tended(t) /\ Kept(s, t)
  BY <1>1, <1>3, <1>4, <1>5, <1>7 DEF Aside, Tended, Full, Kept, IsDtv
<1>. QED
  BY <1>2, <1>5, <1>6, <1>7, <1>8 DEF Fed, Real

\* A timeshift that did not start becomes live.
LEMMA TimeShiftOrLiveDoes ==
    ASSUME NEW s \in State, IsDtv(s), s.player \in PlayerSet, Tended(s), Flagged(s),
           NEW outcome \in Outcomes, NEW ok \in BOOLEAN,
           outcome = "started" =>
               s.session = "memory" /\ s.playback = "open" /\ s.shift /\ s.hiu
    PROVE  LET t == TimeShiftOrLive(s, outcome, ok)
           IN  t \in State /\ Tended(t) /\ Fed(t) /\ Kept(s, t)
<1>. DEFINE t == TimeShiftOrLive(s, outcome, ok)
<1>1. CASE outcome = "started"
  <2>1. t = [s EXCEPT !.player.mode = "TIMESHIFT"]
    BY <1>1 DEF TimeShiftOrLive
  <2>. HIDE DEF t
  <2>2. /\ t \in State /\ Near(s, t) /\ t.recorders = s.recorders /\ t.orphan = s.orphan
        /\ t.player \in PlayerSet /\ t.player.id = s.player.id /\ t.player.enabled = s.player.enabled
    BY <2>1 DEF State, PlayerSet, Modes, Near
  <2>3. IsDtv(t)
    BY <2>2, PlayersAssumption DEF IsDtv
  <2>. QED
    BY <1>1, <2>2, <2>3 DEF t, Near, Fed, Flagged, Real, Tended, Full, Kept, IsDtv
<1>2. CASE outcome # "started"
  BY <1>2, StartLiveDoes DEF TimeShiftOrLive
<1>. QED
  BY <1>1, <1>2

\* A player starts with a record and a timeshift, or live.
LEMMA StartLiveTryTimeShiftDoes ==
    ASSUME NEW s \in State, IsDtv(s), s.player \in PlayerSet, Quiet(s),
           NEW enabled \in BOOLEAN, NEW recorded \in BOOLEAN,
           NEW outcome \in Outcomes, NEW ok \in BOOLEAN
    PROVE  LET t == startLiveTryTimeShift(s, enabled, recorded, outcome, ok)
           IN  t \in State /\ Tended(t) /\ Fed(t) /\ Kept(s, t)
<1>. DEFINE on == s.player.enabled /\ enabled
            r == [s EXCEPT !.player.enabled = on]
            e == EndRecorder(r, TimeShifting)
            u == IF on THEN StartRecorder(e, TimeShifting, DefaultFifo, "player", recorded) ELSE r
            v == [SwitchSource(u, "DTV") EXCEPT !.playing = TRUE]
            w == startTimeShift(v, outcome)
            t == startLiveTryTimeShift(s, enabled, recorded, outcome, ok)
<1>1. on \in BOOLEAN
  BY DEF PlayerSet
<1>2. t = IF on /\ TimeShifting \in DOMAIN u.recorders THEN TimeShiftOrLive(w, outcome, ok)
          ELSE startLive(u, "PLAIN", ok)
  BY DEF startLiveTryTimeShift, playDtvTimeShift
<1>. HIDE DEF on
<1>3. /\ r \in State /\ Near(s, r) /\ r.recorders = s.recorders /\ r.orphan = s.orphan
      /\ r.player \in PlayerSet /\ r.player.id = s.player.id /\ r.player.enabled = on
  BY <1>1 DEF State, PlayerSet, Near
<1>. HIDE DEF r, t
<1>4. /\ IsDtv(r) /\ Quiet(r) /\ Kept(s, r)
  BY <1>3, PlayersAssumption DEF IsDtv, Quiet, Clean, Near, Tended, Unobserved, Full, Kept
<1>5. /\ e \in State /\ Near(r, e) /\ e.player = r.player /\ Tended(e) /\ Kept(r, e)
  BY <1>3, <1>4, EndRecorderDoes, EndRecorderTended DEF Quiet
<1>. HIDE DEF e
<1>6. /\ u \in State /\ Near(r, u) /\ u.player = r.player /\ Tended(u) /\ Kept(r, u)
  <2>1. CASE on
    <3>1. TimeShifting \in Ids /\ DefaultFifo \in Fifos /\ Full(e) /\ IsDtv(e) /\ e.player.enabled
      BY <1>3, <1>4, <1>5, <2>1, PlayersAssumption DEF Ids, Tended, IsDtv
    <3>2. /\ u \in State /\ Near(e, u) /\ u.player = e.player
      BY <1>5, <2>1, <3>1, StartRecorderDoes
    <3>3. Tended(u) /\ Kept(e, u)
      BY <1>5, <2>1, <3>1, StartRecorderTended
    <3>. QED
      BY <1>5, <3>2, <3>3, KeptAlong DEF Near
  <2>2. CASE ~on
    BY <1>3, <1>4, <2>2 DEF Near, Quiet, Kept
  <2>. QED
    BY <2>1, <2>2
<1>. HIDE DEF u
<1>7. Kept(s, u) /\ IsDtv(u) /\ Flagged(u) /\ u.player \in PlayerSet
  BY <1>3, <1>4, <1>6, KeptAlong DEF IsDtv, Flagged, Quiet, Clean, Near
<1>8. CASE on /\ TimeShifting \in DOMAIN u.recorders
  <2>1. SwitchSource(u, "DTV") \in State /\ Aside(u, SwitchSource(u, "DTV"))
    BY <1>6, <1>7, SwitchSourceDoes DEF Sources
  <2>2. v \in State /\ Aside(u, v)
    BY <2>1 DEF State, Aside
  <2>. HIDE DEF v
  <2>3. /\ w \in State /\ Aside(v, w) /\ Flagged(w)
        /\ outcome = "started" =>
              w.session = "memory" /\ w.playback = "open" /\ w.shift /\ w.hiu
    BY <2>2, StartTimeShiftDoes
  <2>. HIDE DEF w
  <2>4. Aside(u, w)
    BY <2>2, <2>3 DEF Aside
  <2>5. Tended(w) /\ Kept(u, w) /\ IsDtv(w) /\ w.player \in PlayerSet
    BY <1>6, <1>7, <2>4, AsideTended DEF Aside, IsDtv
  <2>6. t \in State /\ Tended(t) /\ Fed(t) /\ Kept(w, t)
    BY <1>2, <1>8, <2>3, <2>5, TimeShiftOrLiveDoes
  <2>7. Kept(s, t)
    BY <1>7, <2>5, <2>6, KeptAlong
  <2>. QED
    BY <2>6, <2>7 DEF t
<1>9. CASE ~(on /\ TimeShifting \in DOMAIN u.recorders)
  <2>1. t \in State /\ Tended(t) /\ Fed(t) /\ Kept(u, t)
    BY <1>2, <1>6, <1>7, <1>9, StartLiveDoes
  <2>2. Kept(s, t)
    BY <1>7, <2>1, KeptAlong
  <2>. QED
    BY <2>1, <2>2 DEF t
<1>. QED
  BY <1>8, <1>9

-----------------------------------------------------------------------------
(* Commands. *)

\* What a command to a player, a scan and a switch of the source promise.
Served(t) == t \in State /\ Tended(t) /\ Fed(t)

LEMMA QuietServed ==
    ASSUME NEW s \in State, Quiet(s)
    PROVE  Served(s)
BY QuietFed DEF Served, Quiet

LEMMA AsideServed ==
    ASSUME NEW s \in State, Tended(s), NEW t \in State, Aside(s, t), Fed(t)
    PROVE  Served(t) /\ Kept(s, t)
BY AsideTended DEF Served

LEMMA PlayStartDtvServes ==
    ASSUME IInv, PlayStartDtv
    PROVE  Served(tv') /\ Kept(tv, tv')
<1>1. PICK id \in DtvIds, mode \in {"LIVE", "TIMESHIFT"}, enabled \in BOOLEAN,
           recorded \in BOOLEAN, outcome \in Outcomes, ok \in BOOLEAN :
        tv' = startDtv(getPlayer(tv, id, mode, enabled), enabled, recorded, outcome, ok)
  BY DEF PlayStartDtv
<1>. DEFINE s == getPlayer(tv, id, mode, enabled)
<1>2. /\ s \in State /\ s.player \in PlayerSet /\ s.player.id = id
      /\ Quiet(s) /\ Kept(tv, s)
  BY GetPlayerDoes DEF IInv, Fed, Modes
<1>. HIDE DEF s
<1>3. IsDtv(s) /\ Tended(s) /\ Flagged(s)
  BY <1>2, PlayersAssumption DEF IsDtv, Quiet, Clean, Flagged
<1>4. CASE s.player.mode = "LIVE"
  <2>1. tv' = startLiveTryTimeShift(s, enabled, recorded, outcome, ok)
    BY <1>1, <1>4 DEF startDtv, s
  <2>2. Served(tv') /\ Kept(s, tv')
    BY <1>2, <1>3, <2>1, StartLiveTryTimeShiftDoes DEF Served
  <2>. QED
    BY <1>2, <2>2, KeptAlong
<1>5. CASE s.player.mode # "LIVE"
  <2>1. tv' = startLive(s, "LIVE", ok)
    BY <1>1, <1>5 DEF startDtv, s
  <2>2. Served(tv') /\ Kept(s, tv')
    BY <1>2, <1>3, <2>1, StartLiveDoes DEF Served
  <2>. QED
    BY <1>2, <2>2, KeptAlong
<1>. QED
  BY <1>4, <1>5

\* A start that is refused removes no recorder, as none has a player's id.
LEMMA NoSuchRecorder ==
    ASSUME NEW s \in State, NEW id \in DtvIds \cup AtvIds, Quiet(s)
    PROVE  LET t == removeRecorder(s, id)
           IN  Served(t) /\ Kept(s, t)
<1>. DEFINE t == removeRecorder(s, id)
<1>1. id \notin DOMAIN s.recorders
  BY TablesAre, PlayersAssumption DEF State, Ids
<1>2. t \in State /\ Near(s, t) /\ Aside(s, t)
  BY <1>1, RemoveRecorderDoes
<1>. HIDE DEF t
<1>3. Tended(t) /\ Kept(s, t)
  BY <1>2, AsideTended DEF Quiet
<1>4. Clean(t)
  BY <1>2 DEF Quiet, Clean, Near
<1>. QED
  BY <1>2, <1>3, <1>4, QuietFed DEF Served, t

LEMMA PlayStartRefusedServes ==
    ASSUME IInv, PlayStartRefused
    PROVE  Served(tv') /\ Kept(tv, tv')
<1>1. PICK id \in DtvIds, mode \in Modes, enabled \in BOOLEAN :
        tv' = removeRecorder(getPlayer(tv, id, mode, enabled), id)
  BY DEF PlayStartRefused
<1>. DEFINE s == getPlayer(tv, id, mode, enabled)
<1>2. s \in State /\ Quiet(s) /\ Kept(tv, s)
  BY GetPlayerDoes DEF IInv, Fed
<1>. HIDE DEF s
<1>3. Served(tv') /\ Kept(s, tv')
  BY <1>1, <1>2, NoSuchRecorder DEF s
<1>. QED
  BY <1>2, <1>3, KeptAlong

LEMMA PlayStartAtvServes ==
    ASSUME IInv, PlayStartAtv
    PROVE  Served(tv') /\ Kept(tv, tv')
<1>1. PICK id \in AtvIds, stopped \in BOOLEAN :
        LET s == getPlayer(tv, id, "LIVE", FALSE)
        IN  tv' = IF stopped THEN removeRecorder(s, id)
                  ELSE [SwitchSource(s, "TV") EXCEPT !.playing = TRUE]
  BY DEF PlayStartAtv
<1>. DEFINE s == getPlayer(tv, id, "LIVE", FALSE)
            t == SwitchSource(s, "TV")
<1>2. s \in State /\ Quiet(s) /\ Kept(tv, s)
  BY GetPlayerDoes DEF IInv, Fed, Modes
<1>3. CASE stopped
  <2>. HIDE DEF s
  <2>1. Served(tv') /\ Kept(s, tv')
    BY <1>1, <1>2, <1>3, NoSuchRecorder DEF s
  <2>. QED
    BY <1>2, <2>1, KeptAlong
<1>4. CASE ~stopped
  <2>1. tv' = [t EXCEPT !.playing = TRUE]
    BY <1>1, <1>4
  <2>. HIDE DEF s
  <2>2. Flagged(s)
    BY <1>2 DEF Quiet, Clean, Flagged
  <2>3. t \in State /\ Aside(s, t) /\ Clean(t)
    BY <1>2, <2>2, SwitchSourceDoes DEF Quiet, Sources
  <2>. HIDE DEF t
  <2>4. tv' \in State /\ Aside(s, tv') /\ Clean(tv')
    BY <2>1, <2>3 DEF State, Aside, Clean
  <2>5. Tended(tv') /\ Kept(s, tv')
    BY <1>2, <2>4, AsideTended DEF Quiet
  <2>. QED
    BY <1>2, <2>4, <2>5, QuietFed, KeptAlong DEF Served
<1>. QED
  BY <1>3, <1>4

LEMMA PlayStopServes ==
    ASSUME IInv, PlayStop
    PROVE  Served(tv') /\ Kept(tv, tv')
BY ReleasePlayersDoes, QuietServed DEF IInv, Fed, PlayStop

LEMMA PlayPauseServes ==
    ASSUME IInv, PlayPause
    PROVE  Served(tv') /\ Kept(tv, tv')
<1>1. PICK outcome \in Outcomes, ok \in BOOLEAN :
        tv' = TimeShiftOrLive(startTimeShift(tv, outcome), outcome, ok)
  BY DEF PlayPause
<1>. DEFINE s == startTimeShift(tv, outcome)
<1>2. tv \in State /\ Tended(tv) /\ IsDtv(tv) /\ tv.player \in PlayerSet
  BY DEF IInv, PlayPause, IsDtv, State
<1>3. /\ s \in State /\ Aside(tv, s) /\ Flagged(s)
      /\ outcome = "started" =>
            s.session = "memory" /\ s.playback = "open" /\ s.shift /\ s.hiu
  BY <1>2, StartTimeShiftDoes
<1>4. tv' = TimeShiftOrLive(s, outcome, ok)
  BY <1>1
<1>. HIDE DEF s
<1>5. Tended(s) /\ Kept(tv, s) /\ IsDtv(s) /\ s.player \in PlayerSet
  BY <1>2, <1>3, AsideTended DEF Aside, IsDtv
<1>6. Served(tv') /\ Kept(s, tv')
  BY <1>3, <1>4, <1>5, TimeShiftOrLiveDoes DEF Served
<1>. QED
  BY <1>5, <1>6, KeptAlong

\* What changes recorders only leaves what is watched as it was fed.
LEMMA NearFed ==
    ASSUME NEW s, NEW t, Fed(s), Near(s, t), t.player = s.player
    PROVE  Fed(t)
BY DEF Fed, Flagged, Real, Clean, Near, IsDtv

LEMMA OnlyTable ==
    ASSUME NEW s \in State, NEW t \in State, Near(s, t), t.player = s.player, t.orphan = s.orphan
    PROVE  t = [s EXCEPT !.recorders = t.recorders]
BY DEF State, Near

\* Commands to recorders.
LEMMA RecordServes ==
    ASSUME IInv, RecordPrepare \/ RecordStart \/ RecordStop
    PROVE  Served(tv') /\ tv' = [tv EXCEPT !.recorders = tv'.recorders]
<1>0. tv \in State /\ Tended(tv) /\ Fed(tv) /\ Full(tv) /\ RecorderIds \subseteq Ids
  BY DEF IInv, Tended, Ids
<1>1. CASE RecordPrepare
  <2>1. PICK id \in RecorderIds, fifo \in Fifos : tv' = getRecorder(tv, id, fifo)
    BY <1>1 DEF RecordPrepare
  <2>2. tv' \in State /\ Near(tv, tv') /\ tv'.player = tv.player /\ tv'.orphan = tv.orphan
    BY <1>0, <2>1, GetRecorderDoes
  <2>3. Tended(tv')
    BY <1>0, <2>1, GetRecorderTended
  <2>. QED
    BY <1>0, <2>2, <2>3, NearFed, OnlyTable DEF Served
<1>2. CASE RecordStart
  <2>1. PICK id \in RecorderIds, fifo \in Fifos, ok \in BOOLEAN :
            tv' = StartRecorder(tv, id, fifo, "queue", ok)
    BY <1>2 DEF RecordStart
  <2>2. tv' \in State /\ Near(tv, tv') /\ tv'.player = tv.player /\ tv'.orphan = tv.orphan
    BY <1>0, <2>1, StartRecorderDoes
  <2>3. Tended(tv')
    BY <1>0, <2>1, StartRecorderTended
  <2>. QED
    BY <1>0, <2>2, <2>3, NearFed, OnlyTable DEF Served
<1>3. CASE RecordStop
  <2>1. PICK id \in RecorderIds \cap DOMAIN tv.recorders : tv' = EndRecorder(tv, id)
    BY <1>3 DEF RecordStop
  <2>2. tv' \in State /\ Near(tv, tv') /\ tv'.player = tv.player /\ tv'.orphan = tv.orphan
    BY <1>0, <2>1, EndRecorderDoes
  <2>3. Tended(tv')
    BY <1>0, <2>1, EndRecorderTended
  <2>. QED
    BY <1>0, <2>2, <2>3, NearFed, OnlyTable DEF Served
<1>. QED
  BY <1>1, <1>2, <1>3

\* releaseAll leaves no player and no recorder.
LEMMA ReleaseAllDoes ==
    ASSUME NEW s \in State, Tended(s), Fed(s)
    PROVE  LET t == releaseAll(s)
           IN  t \in State /\ Quiet(t) /\ DOMAIN t.recorders = {}
<1>. DEFINE u == releasePlayers(s)
            t == [u EXCEPT !.recorders = NoRecorders]
<1>1. u \in State /\ u.player = None /\ Quiet(u)
  BY ReleasePlayersDoes DEF Fed
<1>2. NoRecorders \in Tables /\ DOMAIN NoRecorders = {}
  BY TablesAre DEF NoRecorders
<1>3. releaseAll(s) = t
  BY DEF releaseAll, releaseRecorders
<1>. HIDE DEF u
<1>4. /\ t \in State /\ Near(u, t) /\ t.player = u.player
      /\ t.recorders = NoRecorders /\ t.orphan = u.orphan
  BY <1>1, <1>2, NewTable
<1>. HIDE DEF t
<1>5. Full(t)
  BY <1>2, <1>4, FS_EmptySet DEF Full, MaxRecorders
<1>6. Quiet(t)
  BY <1>1, <1>2, <1>4, <1>5 DEF Quiet, Clean, Near, Tended, Unobserved
<1>. QED
  BY <1>2, <1>3, <1>4, <1>6

\* Switches of the source, with players or after all of them are released.
LEMMA SwitchServes ==
    ASSUME IInv, SetSourceSwitchInput
    PROVE  Served(tv') /\ (Kept(tv, tv') \/ DOMAIN tv'.recorders = {})
<1>1. PICK src \in Sources \ {"INVALID"}, named \in BOOLEAN :
        tv' = SwitchSource(IF named /\ src = "HDMI" THEN releaseAll(tv) ELSE tv, src)
  BY DEF SetSourceSwitchInput
<1>. DEFINE s == IF named /\ src = "HDMI" THEN releaseAll(tv) ELSE tv
<1>2. s \in State /\ Tended(s) /\ Fed(s) /\ (s = tv \/ DOMAIN s.recorders = {})
  BY ReleaseAllDoes, QuietFed DEF IInv, Quiet
<1>3. tv' = SwitchSource(s, src)
  BY <1>1
<1>. HIDE DEF s
<1>4. /\ tv' \in State /\ Aside(s, tv') /\ Flagged(tv')
      /\ Real(s) => Real(tv')
      /\ Clean(s) => Clean(tv')
  BY <1>2, <1>3, SwitchSourceDoes DEF Fed
<1>5. Fed(tv')
  BY <1>2, <1>4 DEF Fed, Aside, IsDtv
<1>6. Served(tv') /\ Kept(s, tv')
  BY <1>2, <1>4, <1>5, AsideServed
<1>. QED
  BY <1>2, <1>4, <1>6 DEF Aside

LEMMA FrontEndServes ==
    ASSUME IInv, setFrontEnd
    PROVE  Served(tv') /\ Kept(tv, tv')
<1>1. /\ tv' \in State /\ Aside(tv, tv') /\ Flagged(tv') /\ ~tv'.playing
      /\ Clean(tv) => Clean(tv')
  BY StopPlayingDoes DEF IInv, Fed, setFrontEnd
<1>2. Fed(tv')
  BY <1>1 DEF IInv, Fed, Real, Aside, IsDtv
<1>. QED
  BY <1>1, <1>2, AsideServed DEF IInv

\* Scans; the ts player stops, or did not play for anything but a timeshift.
LEMMA ScanServes ==
    ASSUME IInv, Scan \/ atvAutoScan \/ atvManualScan \/ stopScan
    PROVE  Served(tv') /\ Kept(tv, tv')
<1>0. tv \in State /\ Tended(tv) /\ Flagged(tv) /\ Real(tv) /\ (~IsDtv(tv) => Clean(tv))
  BY DEF IInv, Fed
<1>1. CASE Scan
  <2>1. PICK src \in {"TV", "INVALID", tv.source} :
            tv' = [StopTS(tv) EXCEPT !.scanning = TRUE, !.source = src]
    BY <1>1 DEF Scan
  <2>2. StopTS(tv) \in State /\ Aside(tv, StopTS(tv)) /\ Clean(StopTS(tv))
    BY <1>0, StopTSDoes
  <2>3. src \in Sources
    BY <1>0 DEF State, Sources
  <2>4. tv' \in State /\ Aside(tv, tv') /\ Clean(tv')
    BY <2>1, <2>2, <2>3 DEF State, Aside, Clean
  <2>. QED
    BY <1>0, <2>4, QuietFed, AsideServed
<1>2. CASE atvAutoScan
  <2>. DEFINE s == stopPlaying(tv)
  <2>1. tv' = [s EXCEPT !.scanning = TRUE]
    BY <1>2 DEF atvAutoScan
  <2>2. /\ s \in State /\ Aside(tv, s) /\ ~s.playing
        /\ ~s.shift => Clean(s)
        /\ Clean(tv) => Clean(s)
    BY <1>0, StopPlayingDoes
  <2>. HIDE DEF s
  <2>3. /\ tv' \in State /\ Aside(tv, tv') /\ ~tv'.playing /\ tv'.shift = s.shift
        /\ tv'.session = s.session /\ tv'.playback = s.playback
    BY <2>1, <2>2 DEF State, Aside
  <2>4. Fed(tv')
    BY <1>0, <2>2, <2>3 DEF Fed, Flagged, Real, Clean, Aside, IsDtv
  <2>. QED
    BY <1>0, <2>3, <2>4, AsideServed
<1>3. CASE atvManualScan
  <2>1. /\ tv' \in State /\ Aside(tv, tv') /\ tv'.playing = tv.playing /\ tv'.source = tv.source
        /\ tv'.session = tv.session /\ tv'.shift = tv.shift /\ tv'.playback = tv.playback
        /\ tv'.hiu = tv.hiu /\ tv.source # "DTV"
    BY <1>0, <1>3 DEF atvManualScan, State, Aside
  <2>2. Fed(tv')
    BY <1>0, <2>1 DEF Fed, Flagged, Real, Clean, Aside, IsDtv
  <2>. QED
    BY <1>0, <2>1, <2>2, AsideServed
<1>4. CASE stopScan
  <2>1. /\ tv' \in State /\ Aside(tv, tv') /\ tv'.playing = tv.playing /\ tv.scanning
        /\ tv'.session = tv.session /\ tv'.shift = tv.shift /\ tv'.playback = tv.playback
        /\ tv'.hiu = tv.hiu
    BY <1>0, <1>4 DEF stopScan, State, Aside, Sources
  <2>2. Fed(tv')
    BY <1>0, <2>1 DEF Fed, Flagged, Real, Clean, Aside, IsDtv
  <2>. QED
    BY <1>0, <2>1, <2>2, AsideServed
<1>. QED
  BY <1>1, <1>2, <1>3, <1>4

LEMMA StopTvServes ==
    ASSUME IInv, StopTv
    PROVE  Served(tv') /\ (Kept(tv, tv') \/ DOMAIN tv'.recorders = {})
<1>. DEFINE s == IF tv.source \in {"TV", "DTV"} THEN releaseAll(tv) ELSE tv
            u == stopPlaying(s)
<1>1. s \in State /\ Tended(s) /\ Fed(s) /\ (s = tv \/ DOMAIN s.recorders = {})
  BY ReleaseAllDoes, QuietFed DEF IInv, Quiet
<1>2. tv' = [u EXCEPT !.scanning = FALSE, !.source = "INVALID"]
  BY DEF StopTv
<1>. HIDE DEF s
<1>3. /\ u \in State /\ Aside(s, u) /\ ~u.playing
      /\ ~u.shift => Clean(u)
      /\ Clean(s) => Clean(u)
  BY <1>1, StopPlayingDoes DEF Fed
<1>. HIDE DEF u
<1>4. /\ tv' \in State /\ Aside(s, tv') /\ ~tv'.playing /\ tv'.shift = u.shift
      /\ tv'.session = u.session /\ tv'.playback = u.playback
  BY <1>2, <1>3 DEF State, Aside, Sources
<1>5. Fed(tv')
  BY <1>1, <1>3, <1>4 DEF Fed, Flagged, Real, Clean, Aside, IsDtv
<1>6. Served(tv') /\ Kept(s, tv')
  BY <1>1, <1>4, <1>5, AsideServed
<1>. QED
  BY <1>1, <1>4, <1>6 DEF Aside

-----------------------------------------------------------------------------
(* The theorems. *)

\* What a step does about clients' recordings.
Promised ==
    \/ Kept(tv, tv')
    \/ tv' = [tv EXCEPT !.recorders = tv'.recorders]
    \/ DOMAIN tv'.recorders = {}

LEMMA StepServes ==
    ASSUME IInv, Next
    PROVE  IInv' /\ Promised
<1>1. Served(tv') /\ Promised
  <2>1. CASE PlayStartDtv
    BY <2>1, PlayStartDtvServes DEF Promised
  <2>2. CASE PlayStartRefused
    BY <2>2, PlayStartRefusedServes DEF Promised
  <2>3. CASE PlayStartAtv
    BY <2>3, PlayStartAtvServes DEF Promised
  <2>4. CASE PlayStop
    BY <2>4, PlayStopServes DEF Promised
  <2>5. CASE PlayPause
    BY <2>5, PlayPauseServes DEF Promised
  <2>6. CASE RecordPrepare \/ RecordStart \/ RecordStop
    BY <2>6, RecordServes DEF Promised
  <2>7. CASE SetSourceSwitchInput
    BY <2>7, SwitchServes DEF Promised
  <2>8. CASE setFrontEnd
    BY <2>8, FrontEndServes DEF Promised
  <2>9. CASE Scan \/ atvAutoScan \/ atvManualScan \/ stopScan
    BY <2>9, ScanServes DEF Promised
  <2>10. CASE StopTv
    BY <2>10, StopTvServes DEF Promised
  <2>. QED
    BY <2>1, <2>2, <2>3, <2>4, <2>5, <2>6, <2>7, <2>8, <2>9, <2>10 DEF Next
<1>. QED
  BY <1>1 DEF IInv, Served, Tended, Fed, Flagged, Real, Clean, Full, IsDtv

LEMMA Inductive == Spec => []IInv
<1>1. Init => IInv
  <2>. SUFFICES ASSUME Init
                PROVE  IInv
    OBVIOUS
  <2>1. NoRecorders \in Tables /\ DOMAIN NoRecorders = {}
    BY TablesAre DEF NoRecorders
  <2>2. tv \in State /\ tv.player = None /\ tv.recorders = NoRecorders /\ ~tv.orphan /\ Clean(tv)
    BY <2>1 DEF Init, State, Sources, Clean
  <2>3. Tended(tv)
    BY <2>1, <2>2, FS_EmptySet DEF Tended, Full, MaxRecorders
  <2>. QED
    BY <2>2, <2>3, QuietFed DEF IInv
<1>2. IInv /\ [Next]_vars => IInv'
  <2>1. ASSUME IInv, Next
        PROVE  IInv'
    BY <2>1, StepServes
  <2>2. ASSUME IInv, UNCHANGED vars
        PROVE  IInv'
    BY <2>2 DEF vars, IInv, Tended, Fed, Flagged, Real, Clean, Full, IsDtv
  <2>. QED
    BY <2>1, <2>2
<1>. QED
  BY <1>1, <1>2, PTL DEF Spec

\* What CTv, the managers and CAv keep has its type, and RecorderManager keeps
\* within its size.
THEOREM TypeCorrect == Spec => []TypeOK
<1>1. IInv => TypeOK
  <2>. SUFFICES ASSUME IInv
                PROVE  TypeOK
    OBVIOUS
  <2>1. tv.recorders \in Tables
    BY DEF IInv, State
  <2>2. \A id \in DOMAIN tv.recorders : Recorder(tv.recorders[id])
    BY <2>1, TablesAre DEF RecorderSet, Recorder
  <2>3. DOMAIN tv.recorders \subseteq RecorderIds \cup {TimeShifting}
    BY <2>1, TablesAre DEF Ids
  <2>. QED
    BY <2>2, <2>3 DEF IInv, State, Tended, Full, TypeOK
<1>. QED
  BY <1>1, Inductive, PTL

\* No record session outlives its recorder, every recorder that records has an
\* observer, and the player's lives: whatever fails, for any recorders.
THEOREM RecordersAreTended == Spec => []RecordersTended
<1>1. IInv => RecordersTended
  BY DEF IInv, Tended, RecordersTended
<1>. QED
  BY <1>1, Inductive, PTL

\* A player in timeshift that plays is fed from a playback, through memory.
THEOREM TimeShiftsAreReal == Spec => []TimeShiftIsReal
<1>1. IInv => TimeShiftIsReal
  BY DEF IInv, Fed, Real, TimeShiftIsReal
<1>. QED
  BY <1>1, Inductive, PTL

\* A player that is gone has left no ts player, playback or flag.
THEOREM NothingIsLeft == Spec => []NothingLeftBehind
<1>1. IInv => NothingLeftBehind
  BY DEF IInv, Fed, Clean, IsDtv, NothingLeftBehind
<1>. QED
  BY <1>1, Inductive, PTL

\* Only commands to recorders, or the end of all of them, change a recording.
THEOREM RecordingsAreKept == Spec => ClientsKeepRecordings
<1>. DEFINE Step == \A id \in DOMAIN tv.recorders \ {TimeShifting} :
                       \/ id \in DOMAIN tv'.recorders /\ tv'.recorders[id] = tv.recorders[id]
                       \/ tv' = [tv EXCEPT !.recorders = tv'.recorders]
                       \/ DOMAIN tv'.recorders = {}
<1>1. IInv /\ [Next]_vars => [Step]_vars
  <2>1. ASSUME IInv, Next
        PROVE  Step
    BY <2>1, StepServes DEF Promised, Kept
  <2>. QED
    BY <2>1
<1>. QED
  BY <1>1, Inductive, PTL DEF Spec, ClientsKeepRecordings
=============================================================================
