-------------------------------- MODULE Alerts --------------------------------
(***************************************************************************)
(* The emergency alerts and the rating regions of an ATSC stream           *)
(* (CTvEas.cpp, CTvRrt.cpp; CTv.cpp, Tv_Easupdate, Tv_RrtUpdate,           *)
(* StopTvLock): two services that each open demux 2 and an EPG handle when *)
(* a program is tuned, take the sections out of libdvb's lists and tell    *)
(* them to clients.                                                        *)
(*                                                                         *)
(* The event of the alerts is one object that every section is parsed      *)
(* into, over what the section before left there.                          *)
(***************************************************************************)
EXTENDS Integers, Sequences, SequencesExt, FiniteSets

CONSTANTS Sections, \* sections of alerts that are broadcast
          Regions,  \* lists of sections of ratings that are broadcast
          Failing,  \* steps that may fail: "open", "create", "user", "mode"
          Slots,    \* the length of the event's arrays; 64 in the code
          MaxCalls, \* how often a program is tuned, or the source stopped
          Nothing

Services == {"eas", "rrt"}

VARIABLES refs,   \* how often demux 2 is open, by the service that opened it
          closed, \* closes of a demux that was not open
          dmx,    \* mDmxId, mDmx_id: whether it says 2
          handle, \* mEasScanHandle, mRrtScanHandle: none, made, or scanning
          event,  \* mCurEasEv: its counts and arrays
          told,   \* the words of the last parcel of an alert
          sent,   \* the section that is about
          rated,  \* the ratings told of the last list
          listed, \* that list
          calls
vars == <<refs, closed, dmx, handle, event, told, sent, rated, listed, calls>>

Empty ==
    [count |-> 0, id |-> 0, codes |-> 0, code |-> [i \in 1..Slots |-> 0],
     locations |-> 0, location |-> [i \in 1..Slots |-> 0],
     exceptions |-> 0, exception |-> [i \in 1..Slots |-> 0],
     texts |-> 0, text |-> [i \in 1..2 |-> <<>>], descriptors |-> 0, descriptor |-> [i \in 1..2 |-> <<>>]]

Init ==
    /\ refs = [s \in Services |-> 0] /\ closed = 0
    /\ dmx = [s \in Services |-> FALSE] /\ handle = [s \in Services |-> "none"]
    /\ event = Empty /\ told = <<>> /\ sent = Nothing /\ rated = {} /\ listed = Nothing /\ calls = 0

-----------------------------------------------------------------------------
(* Start and stop. *)

Fails(step) == IF step \in Failing THEN BOOLEAN ELSE {FALSE}

\* Faulty variant: the demux is closed without forgetting that it was open.
Destroyed_KeepId(s) == [refs |-> 0, dmx |-> dmx[s], closed |-> IF dmx[s] /\ refs[s] = 0 THEN 1 ELSE 0]

\* EasDestroy, RrtDestroy: the demux's part.
Destroyed(s) ==
    [refs |-> IF dmx[s] /\ refs[s] > 0 THEN refs[s] - 1 ELSE refs[s], dmx |-> FALSE,
     closed |-> IF dmx[s] /\ refs[s] = 0 THEN 1 ELSE 0]

\* EasCreate or RrtCreate, and the start of the scan; the step that fails.
Started(s, after) ==
    \E open \in Fails("open"), create \in Fails("create"), user \in Fails("user"), mode \in Fails("mode") :
      /\ dmx' = [dmx EXCEPT ![s] = TRUE]
      /\ refs' = [refs EXCEPT ![s] = IF open THEN after.refs ELSE after.refs + 1]
      /\ closed' = closed + after.closed
      /\ handle' = [handle EXCEPT ![s] =
           CASE open \/ create -> IF after.stop THEN "none" ELSE handle[s]
             [] ~open /\ ~create /\ (user \/ mode) -> "made"
             [] OTHER -> "scanning"]

Call == calls < MaxCalls /\ calls' = calls + 1

\* Tv_Easupdate, Tv_RrtUpdate: what there is a handle for is stopped first.
Update(s) ==
    /\ Call
    /\ IF handle[s] # "none"
       THEN Started(s, [refs |-> Destroyed(s).refs, closed |-> Destroyed(s).closed, stop |-> TRUE])
       ELSE Started(s, [refs |-> refs[s], closed |-> 0, stop |-> FALSE])
    /\ UNCHANGED <<event, told, sent, rated, listed>>

\* StopTvLock
StopBoth ==
    /\ Call
    /\ refs' = [s \in Services |-> Destroyed(s).refs]
    /\ dmx' = [s \in Services |-> Destroyed(s).dmx]
    /\ closed' = closed + Destroyed("eas").closed + Destroyed("rrt").closed
    /\ handle' = [s \in Services |-> "none"]
    /\ UNCHANGED <<event, told, sent, rated, listed>>

-----------------------------------------------------------------------------
(* Sections. *)

\* The entries that a section has replace those of the event, from the first.
Over(array, entries) == [i \in DOMAIN array |-> IF i <= Len(entries) THEN entries[i] ELSE array[i]]

\* The loop over the texts stays on the first entry, and so does the next one.
FirstOver(array, entries) == IF entries = <<>> THEN array ELSE [array EXCEPT ![1] = Last(entries)]

\* Faulty variant: what is not in the section is left as it was.
DescriptorCount_Kept(section) == IF section.texts = <<>> THEN event.descriptors ELSE Len(section.descriptors)

\* Descriptors are counted only where there is a text.
DescriptorCount(section) == IF section.texts = <<>> THEN 0 ELSE Len(section.descriptors)

\* EasEvtCallback: only the first section of the list is taken.
Parsed(list) ==
    LET section == Head(list) IN
    [count |-> Len(list), id |-> section.id,
     codes |-> Len(section.codes), code |-> Over(event.code, section.codes),
     locations |-> Len(section.locations), location |-> Over(event.location, section.locations),
     exceptions |-> Len(section.exceptions), exception |-> Over(event.exception, section.exceptions),
     texts |-> Len(section.texts), text |-> FirstOver(event.text, section.texts),
     descriptors |-> DescriptorCount(section),
     descriptor |-> IF DescriptorCount(section) = 0 THEN event.descriptor
                    ELSE FirstOver(event.descriptor, section.descriptors)]

Upto(array, count) == [i \in 1..count |-> array[i]]
Counted(entries) == <<Len(entries)>> \o entries

\* DroidTvServiceIntf::onTvEvent, TV_EVENT_EAS: one number after the other.
Words(e) ==
    <<e.count, e.id>> \o Counted(Upto(e.code, e.codes)) \o Counted(Upto(e.location, e.locations))
      \o Counted(Upto(e.exception, e.exceptions))
      \o <<e.texts>> \o FlattenSeq([i \in 1..e.texts |-> Counted(e.text[i])])
      \o <<e.descriptors>> \o FlattenSeq([i \in 1..e.descriptors |-> Counted(e.descriptor[i])])

NewCea(list) ==
    /\ handle["eas"] = "scanning"
    /\ event' = Parsed(list) /\ told' = Words(event') /\ sent' = list
    /\ UNCHANGED <<refs, closed, dmx, handle, rated, listed, calls>>

\* RrtTableCallback: the first of the values of a dimension is not told.
Ratings(list, n, d) ==
    LET dimension == list[n].dimensions[d] IN
    {[sections |-> Len(list), region |-> list[n].region, dimension |-> dimension.name,
      values |-> Len(dimension.values) - 1, value |-> dimension.values[v]] : v \in 2..Len(dimension.values)}

NewRrt(list) ==
    /\ handle["rrt"] \in {"made", "scanning"}
    /\ rated' = UNION {UNION {Ratings(list, n, d) : d \in DOMAIN list[n].dimensions} : n \in DOMAIN list}
    /\ listed' = list
    /\ UNCHANGED <<refs, closed, dmx, handle, event, told, sent, calls>>

Next ==
    \/ \E s \in Services : Update(s)
    \/ StopBoth
    \/ \E list \in Sections : NewCea(list)
    \/ \E list \in Regions : NewRrt(list)

Spec == Init /\ [][Next]_vars

-----------------------------------------------------------------------------
\* What a section of one text and at most one descriptor says: a client gets
\* that, whatever the section before was.
WordsOf(list) ==
    LET e == Head(list)
        descriptors == IF e.texts = <<>> THEN <<>> ELSE e.descriptors
    IN
    <<Len(list), e.id>> \o Counted(e.codes) \o Counted(e.locations) \o Counted(e.exceptions)
      \o <<Len(e.texts)>> \o FlattenSeq([i \in 1..Len(e.texts) |-> Counted(e.texts[i])])
      \o <<Len(descriptors)>> \o FlattenSeq([i \in 1..Len(descriptors) |-> Counted(descriptors[i])])

\* The numbers of an event whose arrays are full, of which the parcel takes 1024.
Largest == 12 + 64 + 8 + 1 + 3 * 64 + 1 + 4 * 64 + 1 + 2 * (7 + 64) + 1 + 2 * (2 + 64)

\* Clients are told of an alert what its section says, with nothing of the
\* sections before it, and of a rating region every value of every dimension;
\* and as long as demux 2 can be opened, it is open as often as the services
\* think, so that neither closes what it does not have, and stopping leaves it
\* closed.
AlertsTold ==
    /\ (sent # Nothing /\ Len(Head(sent).texts) <= 1 /\ Len(Head(sent).descriptors) <= 1)
         => told = WordsOf(sent)
    /\ Largest <= 1024
    /\ listed # Nothing =>
         \A n \in DOMAIN listed : \A d \in DOMAIN listed[n].dimensions :
           LET dimension == listed[n].dimensions[d] IN
           {r.value : r \in {t \in rated : t.region = listed[n].region /\ t.dimension = dimension.name}}
             = {dimension.values[v] : v \in 2..Len(dimension.values)}
    /\ closed = 0
    /\ \A s \in Services : refs[s] = (IF dmx[s] THEN 1 ELSE 0) /\ (handle[s] # "none" => dmx[s])
=============================================================================
