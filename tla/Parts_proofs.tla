----------------------------- MODULE Parts_proofs -----------------------------
EXTENDS Parts, FiniteSetTheorems, SequenceTheorems, WellFoundedInduction, TLAPS

-----------------------------------------------------------------------------
(* Settings. *)

\* No two settings share an area.
LEMMA AreasDiffer ==
    \A s, t \in Setting!Names : Setting!Areas[s] = Setting!Areas[t] => s = t
<1> DEFINE Its(f) == \A s \in DOMAIN f : Setting!Areas[s] = f[s]
           Apart(f, g) == \A s \in DOMAIN f, t \in DOMAIN g : f[s] = g[t] => s = t
<1> USE DEF Setting!MiscAreas, Setting!FlagAreas, Setting!ModeAreas, Setting!SwitchAreas,
            Setting!TvinAreas, Setting!PictureAreas, Setting!LightAreas, Setting!SignalAreas,
            Setting!BoardAreas, Setting!HdmiAreas, Setting!MarkAreas
<1>1. Its(Setting!MiscAreas)
  BY DEF Setting!Areas, Setting!Names
<1>2. Its(Setting!FlagAreas)
  BY DEF Setting!Areas, Setting!Names
<1>3. Its(Setting!ModeAreas)
  BY DEF Setting!Areas, Setting!Names
<1>4. Its(Setting!SwitchAreas)
  BY DEF Setting!Areas, Setting!Names
<1>5. Its(Setting!TvinAreas)
  BY DEF Setting!Areas, Setting!Names
<1>6. Its(Setting!PictureAreas)
  BY DEF Setting!Areas, Setting!Names
<1>7. Its(Setting!LightAreas)
  BY DEF Setting!Areas, Setting!Names
<1>8. Its(Setting!SignalAreas)
  BY DEF Setting!Areas, Setting!Names
<1>9. Its(Setting!BoardAreas)
  BY DEF Setting!Areas, Setting!Names
<1>10. Its(Setting!HdmiAreas)
  BY DEF Setting!Areas, Setting!Names
<1>11. Its(Setting!MarkAreas)
  BY DEF Setting!Areas, Setting!Names
<1>12. /\ Apart(Setting!MiscAreas, Setting!MiscAreas)
       /\ Apart(Setting!MiscAreas, Setting!FlagAreas)
       /\ Apart(Setting!MiscAreas, Setting!ModeAreas)
       /\ Apart(Setting!MiscAreas, Setting!SwitchAreas)
       /\ Apart(Setting!MiscAreas, Setting!TvinAreas)
       /\ Apart(Setting!MiscAreas, Setting!PictureAreas)
       /\ Apart(Setting!MiscAreas, Setting!LightAreas)
       /\ Apart(Setting!MiscAreas, Setting!SignalAreas)
       /\ Apart(Setting!MiscAreas, Setting!BoardAreas)
       /\ Apart(Setting!MiscAreas, Setting!HdmiAreas)
       /\ Apart(Setting!MiscAreas, Setting!MarkAreas)
  OBVIOUS
<1>13. /\ Apart(Setting!FlagAreas, Setting!FlagAreas)
       /\ Apart(Setting!FlagAreas, Setting!ModeAreas)
       /\ Apart(Setting!FlagAreas, Setting!SwitchAreas)
       /\ Apart(Setting!FlagAreas, Setting!TvinAreas)
       /\ Apart(Setting!FlagAreas, Setting!PictureAreas)
       /\ Apart(Setting!FlagAreas, Setting!LightAreas)
       /\ Apart(Setting!FlagAreas, Setting!SignalAreas)
       /\ Apart(Setting!FlagAreas, Setting!BoardAreas)
       /\ Apart(Setting!FlagAreas, Setting!HdmiAreas)
       /\ Apart(Setting!FlagAreas, Setting!MarkAreas)
  OBVIOUS
<1>14. /\ Apart(Setting!ModeAreas, Setting!ModeAreas)
       /\ Apart(Setting!ModeAreas, Setting!SwitchAreas)
       /\ Apart(Setting!ModeAreas, Setting!TvinAreas)
       /\ Apart(Setting!ModeAreas, Setting!PictureAreas)
       /\ Apart(Setting!ModeAreas, Setting!LightAreas)
       /\ Apart(Setting!ModeAreas, Setting!SignalAreas)
       /\ Apart(Setting!ModeAreas, Setting!BoardAreas)
       /\ Apart(Setting!ModeAreas, Setting!HdmiAreas)
       /\ Apart(Setting!ModeAreas, Setting!MarkAreas)
  OBVIOUS
<1>15. /\ Apart(Setting!SwitchAreas, Setting!SwitchAreas)
       /\ Apart(Setting!SwitchAreas, Setting!TvinAreas)
       /\ Apart(Setting!SwitchAreas, Setting!PictureAreas)
       /\ Apart(Setting!SwitchAreas, Setting!LightAreas)
       /\ Apart(Setting!SwitchAreas, Setting!SignalAreas)
       /\ Apart(Setting!SwitchAreas, Setting!BoardAreas)
       /\ Apart(Setting!SwitchAreas, Setting!HdmiAreas)
       /\ Apart(Setting!SwitchAreas, Setting!MarkAreas)
  OBVIOUS
<1>16. /\ Apart(Setting!TvinAreas, Setting!TvinAreas)
       /\ Apart(Setting!TvinAreas, Setting!PictureAreas)
       /\ Apart(Setting!TvinAreas, Setting!LightAreas)
       /\ Apart(Setting!TvinAreas, Setting!SignalAreas)
       /\ Apart(Setting!TvinAreas, Setting!BoardAreas)
       /\ Apart(Setting!TvinAreas, Setting!HdmiAreas)
       /\ Apart(Setting!TvinAreas, Setting!MarkAreas)
  OBVIOUS
<1>17. /\ Apart(Setting!PictureAreas, Setting!PictureAreas)
       /\ Apart(Setting!PictureAreas, Setting!LightAreas)
       /\ Apart(Setting!PictureAreas, Setting!SignalAreas)
       /\ Apart(Setting!PictureAreas, Setting!BoardAreas)
       /\ Apart(Setting!PictureAreas, Setting!HdmiAreas)
       /\ Apart(Setting!PictureAreas, Setting!MarkAreas)
  OBVIOUS
<1>18. /\ Apart(Setting!LightAreas, Setting!LightAreas)
       /\ Apart(Setting!LightAreas, Setting!SignalAreas)
       /\ Apart(Setting!LightAreas, Setting!BoardAreas)
       /\ Apart(Setting!LightAreas, Setting!HdmiAreas)
       /\ Apart(Setting!LightAreas, Setting!MarkAreas)
  OBVIOUS
<1>19. /\ Apart(Setting!SignalAreas, Setting!SignalAreas)
       /\ Apart(Setting!SignalAreas, Setting!BoardAreas)
       /\ Apart(Setting!SignalAreas, Setting!HdmiAreas)
       /\ Apart(Setting!SignalAreas, Setting!MarkAreas)
  OBVIOUS
<1>20. /\ Apart(Setting!BoardAreas, Setting!BoardAreas)
       /\ Apart(Setting!BoardAreas, Setting!HdmiAreas)
       /\ Apart(Setting!BoardAreas, Setting!MarkAreas)
  OBVIOUS
<1>21. /\ Apart(Setting!HdmiAreas, Setting!HdmiAreas)
       /\ Apart(Setting!HdmiAreas, Setting!MarkAreas)
  OBVIOUS
<1>22. /\ Apart(Setting!MarkAreas, Setting!MarkAreas)
  OBVIOUS
<1> HIDE DEF Setting!MiscAreas, Setting!FlagAreas, Setting!ModeAreas, Setting!SwitchAreas,
             Setting!TvinAreas, Setting!PictureAreas, Setting!LightAreas, Setting!SignalAreas,
             Setting!BoardAreas, Setting!HdmiAreas, Setting!MarkAreas
<1> QED
  BY <1>1, <1>2, <1>3, <1>4, <1>5, <1>6, <1>7, <1>8, <1>9, <1>10, <1>11,
     <1>12, <1>13, <1>14, <1>15, <1>16, <1>17, <1>18, <1>19, <1>20, <1>21, <1>22 DEF Setting!Names

LEMMA NamesKnown ==
    /\ {"ChannelLockEnValue", "ParentalControlSwitch", "SystemSleepTimer"} \subseteq Setting!Names
    /\ "lock" \notin Setting!Names
    /\ DOMAIN Setting!MarkAreas = {"Mark1", "Mark2", "Mark3"}
    /\ {"Mark1", "Mark2", "Mark3"} \subseteq Setting!Names
    /\ {"BurnWriteCharacterChar", "FactoryBurnMode", "PowerOnOffChannel", "LastSelectSourceInput",
        "SystemLanguage", "AgingMode", "PanelType", "PowerOnMusicSwitch", "PowerOnMusicVolume"}
         \subseteq Setting!Names
    /\ {"SearchNavigateFlag", "InputNumLimit", "LocalDimingOnOffFlg"} \subseteq Setting!Names
    /\ {"StandbyMode", "CVBSStd", "BlackoutEnable", "DLGEnable", "VRREnable"} \subseteq Setting!Names
    /\ {"QMSEnable", "HDMIEdidVersion1", "HDMIEdidVersion2", "HDMIEdidVersion3", "HDMIEdidVersion4",
        "HDMIHdcpSwitcher", "HDMIColorRangeMode"} \subseteq Setting!Names
  BY DEF Setting!Names, Setting!MiscAreas, Setting!FlagAreas, Setting!ModeAreas,
     Setting!SwitchAreas, Setting!TvinAreas, Setting!PictureAreas, Setting!LightAreas,
     Setting!SignalAreas, Setting!BoardAreas, Setting!HdmiAreas, Setting!MarkAreas

MarkNames == {"Mark1", "Mark2", "Mark3"}
MarkValue(m) == CASE m = "Mark1" -> Setting!Small(221) [] m = "Mark2" -> Setting!Small(136)
                  [] m = "Mark3" -> Setting!Small(204)

\* What a restore saves.
Entries ==
    ({"lock"} \X {0})
      \cup ((Setting!Names \ ({"ChannelLockEnValue"} \cup MarkNames)) \X Words)
      \cup {<<m, MarkValue(m)>> : m \in MarkNames}

Bytes(s) == Setting!Area(Setting!Areas[s])

\* An area holds what was saved last, in as many bytes as are saved, and in the
\* others what it held at first.
AreasInv ==
    /\ fill \in 0..255
    /\ \A s \in Setting!Names : Bytes(s) \in Words
    /\ DOMAIN saved \subseteq Setting!Names
    /\ \A s \in DOMAIN saved : saved[s] \in Words
    /\ \A s \in Setting!Names, n \in 1..4 : n > Setting!Width(s) => Bytes(s)[n] = fill
    /\ \A s \in DOMAIN saved, n \in 1..4 : n <= Setting!Width(s) => Bytes(s)[n] = saved[s][n]
    /\ \A m \in MarkNames \cap DOMAIN saved : saved[m] = MarkValue(m)
    /\ enabled \in BOOLEAN
    /\ enabled <=> Bytes("ChannelLockEnValue")[1] = 0

\* A lock that no other thread has set back is the one set last; and a restore
\* that has read the mask is at a lock.
LocksInv ==
    /\ DOMAIN setting = Threads \cup {Setting!Restorer}
    /\ \A t \in DOMAIN setting : setting[t] # Setting!Idle => setting[t].flag \in BOOLEAN /\ setting[t].source \in 0..31
    /\ setting[Setting!Restorer] # Setting!Idle => saving # <<>> /\ saving[1][1] = "lock"
    /\ \A i \in DOMAIN locks : i \in 0..31 /\ locks[i] \in BOOLEAN /\ (i \notin crossed => (i \in mask <=> locks[i]))

SettingsIInv == AreasInv /\ saving \in Seq(Entries) /\ LocksInv

LEMMA WidthRange == \A s : Setting!Width(s) \in {1, 2, 4}
  BY DEF Setting!Width

\* Saving one number changes the area of no other.
LEMMA PutOne ==
    ASSUME SettingsIInv, NEW s \in Setting!Names, NEW v \in Words, Setting!Put(s, v),
           UNCHANGED fill
    PROVE  /\ \A t \in Setting!Names \ {s} : Bytes(t)' = Bytes(t)
           /\ Bytes(s)' = [n \in 1..4 |-> IF n <= Setting!Width(s) THEN v[n] ELSE Bytes(s)[n]]
           /\ DOMAIN saved' = DOMAIN saved \cup {s}
           /\ saved'[s] = v
           /\ \A t \in DOMAIN saved \ {s} : saved'[t] = saved[t]
<1>1. ssm' = Setting!With(ssm, Setting!Areas[s], Setting!Written(s, v)) /\ saved' = Setting!With(saved, s, v)
  BY DEF Setting!Put
<1>2. \A t \in Setting!Names \ {s} : Setting!Areas[t] # Setting!Areas[s]
  BY AreasDiffer
<1>3. \A t \in Setting!Names \ {s} : Bytes(t)' = Bytes(t)
  BY <1>1, <1>2 DEF Bytes, Setting!Area, Setting!With
<1>4. Bytes(s)' = Setting!Written(s, v)
  BY <1>1 DEF Bytes, Setting!Area, Setting!With
<1> QED BY <1>1, <1>3, <1>4 DEF Setting!Written, Bytes, Setting!With

LEMMA PutKeeps ==
    ASSUME SettingsIInv, NEW s \in Setting!Names, NEW v \in Words, Setting!Put(s, v), UNCHANGED fill,
           s \in MarkNames => v = MarkValue(s)
    PROVE  /\ \A t \in Setting!Names : Bytes(t)' \in Words
           /\ DOMAIN saved' \subseteq Setting!Names
           /\ \A t \in DOMAIN saved' : saved'[t] \in Words
           /\ \A t \in Setting!Names, n \in 1..4 : n > Setting!Width(t) => Bytes(t)'[n] = fill
           /\ \A t \in DOMAIN saved', n \in 1..4 : n <= Setting!Width(t) => Bytes(t)'[n] = saved'[t][n]
           /\ \A m \in MarkNames \cap DOMAIN saved' : saved'[m] = MarkValue(m)
<1>0. /\ \A t \in Setting!Names \ {s} : Bytes(t)' = Bytes(t)
      /\ Bytes(s)' = [n \in 1..4 |-> IF n <= Setting!Width(s) THEN v[n] ELSE Bytes(s)[n]]
      /\ DOMAIN saved' = DOMAIN saved \cup {s}
      /\ saved'[s] = v
      /\ \A t \in DOMAIN saved \ {s} : saved'[t] = saved[t]
  BY PutOne
<1>1. \A n \in 1..4 : v[n] \in 0..255 /\ Bytes(s)[n] \in 0..255
  <2>1. v \in Words /\ Bytes(s) \in Words
    BY DEF SettingsIInv, AreasInv, LocksInv
  <2> QED BY <2>1 DEF Words
<1>2. Bytes(s)' \in Words
  <2>1. Bytes(s)' = [n \in 1..4 |-> IF n <= Setting!Width(s) THEN v[n] ELSE Bytes(s)[n]]
    BY <1>0
  <2> QED BY <1>1, <2>1 DEF Words
<1>3. \A t \in Setting!Names : Bytes(t)' \in Words
  BY <1>0, <1>2 DEF SettingsIInv, AreasInv, LocksInv
<1>4. ASSUME NEW t \in Setting!Names, NEW n \in 1..4, n > Setting!Width(t) PROVE Bytes(t)'[n] = fill
  BY <1>0, <1>4, WidthRange DEF SettingsIInv, AreasInv, LocksInv
<1>5. ASSUME NEW t \in DOMAIN saved', NEW n \in 1..4, n <= Setting!Width(t) PROVE Bytes(t)'[n] = saved'[t][n]
  <2>1. CASE t = s
    BY <1>0, <1>5, <2>1
  <2>2. CASE t # s
    BY <1>0, <1>5, <2>2 DEF SettingsIInv, AreasInv, LocksInv
  <2> QED BY <2>1, <2>2
<1> QED BY <1>0, <1>3, <1>4, <1>5 DEF SettingsIInv, AreasInv, LocksInv

\* What is read of the channel lock's switch is its first byte.
LEMMA LockReads == Setting!Read("ChannelLockEnValue") = Setting!Zero <=> Bytes("ChannelLockEnValue")[1] = 0
<1> DEFINE b == [n \in 1..4 |-> IF n <= 1 THEN Bytes("ChannelLockEnValue")[n] ELSE 0]
<1>1. Setting!Read("ChannelLockEnValue") = b
  BY DEF Setting!Read, Setting!ReadWidth, Setting!Width, Setting!Seen, Setting!Versions, Bytes
<1>2. b[1] = Bytes("ChannelLockEnValue")[1] /\ b[2] = 0 /\ b[3] = 0 /\ b[4] = 0
  OBVIOUS
<1>3. DOMAIN b = 1..4 /\ b = [n \in 1..4 |-> b[n]]
  OBVIOUS
<1>4. b = Setting!Zero <=> b[1] = 0
  BY <1>2, <1>3 DEF Setting!Zero
<1> QED BY <1>1, <1>2, <1>4

LEMMA SettingsInitIInv == Setting!Init => SettingsIInv
<1> SUFFICES ASSUME Setting!Init PROVE SettingsIInv
  OBVIOUS
<1>1. fill \in 0..255 /\ ssm = <<>> /\ saved = <<>> /\ locks = <<>> /\ saving = <<>>
  BY SettingsAssumption DEF Setting!Init
<1>2. \A s : Bytes(s) = [n \in 1..4 |-> fill]
  BY <1>1 DEF Bytes, Setting!Area
<1>3. \A s : Bytes(s) \in Words /\ \A n \in 1..4 : Bytes(s)[n] = fill
  BY <1>1, <1>2 DEF Words
<1>4. enabled \in BOOLEAN /\ (enabled <=> Bytes("ChannelLockEnValue")[1] = 0)
  <2>1. enabled = (fill = 0)
    BY DEF Setting!Init
  <2>2. Bytes("ChannelLockEnValue")[1] = fill
    BY <1>3
  <2> QED BY <2>1, <2>2, Zenon
<1>5. DOMAIN saved = {} /\ DOMAIN locks = {} /\ saving \in Seq(Entries)
  BY <1>1
<1>6. /\ DOMAIN setting = Threads \cup {Setting!Restorer}
      /\ \A t \in DOMAIN setting : setting[t] = Setting!Idle
  BY DEF Setting!Init
<1> QED BY <1>1, <1>3, <1>4, <1>5, <1>6 DEF SettingsIInv, AreasInv, LocksInv

\* The channel lock's switch is not a number that clients save.
LEMMA OthersKeepLock ==
    ASSUME SettingsIInv, NEW s \in Setting!Names \ {"ChannelLockEnValue"}, NEW v \in Words, Setting!Put(s, v),
           UNCHANGED <<fill, enabled>>
    PROVE  enabled' <=> Bytes("ChannelLockEnValue")'[1] = 0
<1>1. Bytes("ChannelLockEnValue")' = Bytes("ChannelLockEnValue")
  BY PutOne, NamesKnown
<1> QED BY <1>1 DEF SettingsIInv, AreasInv, LocksInv

LEMMA BytesKept == UNCHANGED <<ssm, fill>> => \A s : Bytes(s)' = Bytes(s)
  BY DEF Bytes, Setting!Area

LEMMA AreasKept == AreasInv /\ UNCHANGED <<ssm, fill, enabled, saved>> => AreasInv'
<1> SUFFICES ASSUME AreasInv, UNCHANGED <<ssm, fill, enabled, saved>> PROVE AreasInv'
  OBVIOUS
<1>1. \A s : Bytes(s)' = Bytes(s)
  BY BytesKept
<1> QED BY <1>1 DEF AreasInv

\* A lock that is set leaves the others as they are, or marks them.
LEMMA LockSet ==
    ASSUME SettingsIInv, NEW t \in DOMAIN setting, Setting!SetLock(t)
    PROVE  /\ \A j \in DOMAIN locks' :
                j \in 0..31 /\ locks'[j] \in BOOLEAN /\ (j \notin crossed' => (j \in mask' <=> locks'[j]))
           /\ DOMAIN setting' = DOMAIN setting /\ setting'[t] = Setting!Idle
           /\ \A u \in DOMAIN setting \ {t} : setting'[u] = setting[u]
<1> DEFINE source == setting[t].source
           read == setting[t].read
<1>1. /\ mask' = Setting!Masked(read, source, setting[t].flag)
      /\ locks' = Setting!With(locks, source, setting[t].flag)
      /\ crossed' = (crossed \cup {i \in 0..31 : (i \in mask) # (i \in read)}) \ {source}
      /\ setting' = [setting EXCEPT ![t] = Setting!Idle]
      /\ setting[t].flag \in BOOLEAN /\ source \in 0..31
  BY DEF Setting!SetLock, SettingsIInv, LocksInv
<1> HIDE DEF source, read
<1>2. /\ DOMAIN locks' = DOMAIN locks \cup {source} /\ locks'[source] = setting[t].flag
      /\ \A j \in DOMAIN locks \ {source} : locks'[j] = locks[j]
  BY <1>1 DEF Setting!With
<1>3. (source \in mask' <=> setting[t].flag) /\ \A j : j # source => (j \in mask' <=> j \in read)
  BY <1>1 DEF Setting!Masked
<1>4. ASSUME NEW j \in DOMAIN locks \ {source}, j \notin crossed' PROVE j \in mask' <=> locks'[j]
  <2>1. j \in 0..31 /\ j \notin crossed /\ (j \in mask <=> locks[j])
    BY <1>1, <1>4 DEF SettingsIInv, AreasInv, LocksInv
  <2>2. j \in mask <=> j \in read
    BY <1>1, <1>4, <2>1
  <2> QED BY <1>2, <1>3, <1>4, <2>1, <2>2
<1> QED BY <1>1, <1>2, <1>3, <1>4 DEF SettingsIInv, AreasInv, LocksInv

LEMMA MarksSaved ==
    /\ Setting!Marks = <<<<"Mark1", MarkValue("Mark1")>>, <<"Mark2", MarkValue("Mark2")>>,
                         <<"Mark3", MarkValue("Mark3")>>>>
    /\ \A m \in MarkNames : MarkValue(m) \in Words
  BY DEF Setting!Marks, MarkValue, MarkNames, Words, Setting!Small

\* Every restore saves what there is to save.
LEMMA RestoresSave ==
    ASSUME NEW list \in {Setting!Defaults(Setting!Zero), Setting!Defaults(Setting!Small(1)), Setting!FacDefaults}
    PROVE  list \in Seq(Entries)
<1>1. ASSUME NEW s \in Setting!Names \ ({"ChannelLockEnValue"} \cup MarkNames), NEW v \in Words
      PROVE  <<s, v>> \in Entries
  BY DEF Entries
<1>2. <<"lock", 0>> \in Entries
  BY DEF Entries
<1>3. /\ Setting!Zero \in Words /\ Setting!MinusOne \in Words
      /\ \A n \in 0..255 : Setting!Small(n) \in Words
  <2>1. Setting!Zero \in Words
    BY DEF Setting!Zero, Words
  <2>2. Setting!MinusOne \in Words
    BY DEF Setting!MinusOne, Words
  <2>3. ASSUME NEW n \in 0..255 PROVE Setting!Small(n) \in Words
    BY DEF Setting!Small, Words
  <2> QED BY <2>1, <2>2, <2>3
<1>4. Setting!Marks \in Seq(Entries)
  <2>1. \A m \in MarkNames : <<m, MarkValue(m)>> \in Entries
    BY DEF Entries
  <2> QED BY <2>1, MarksSaved DEF MarkNames
<1>5. Setting!MiscDefaults \in Seq(Entries)
  BY <1>1, <1>2, <1>3, NamesKnown DEF Setting!MiscDefaults, MarkNames
<1>6. Setting!FacDefaults \in Seq(Entries)
  BY <1>1, <1>2, <1>3, NamesKnown DEF Setting!FacDefaults, MarkNames
<1>7. ASSUME NEW v \in Words PROVE Setting!Defaults(v) \in Seq(Entries)
  <2> DEFINE rest ==
        <<<<"BurnWriteCharacterChar", Setting!Small(138)>>, <<"CVBSStd", Setting!Zero>>,
          <<"LastSelectSourceInput", Setting!Zero>>,
          <<"PanelType", Setting!Zero>>, <<"StandbyMode", Setting!Zero>>,
          <<"HDMIEdidVersion1", v>>, <<"HDMIEdidVersion2", v>>, <<"HDMIEdidVersion3", v>>,
          <<"HDMIEdidVersion4", v>>, <<"HDMIHdcpSwitcher", Setting!Zero>>,
          <<"HDMIColorRangeMode", Setting!Zero>>>>
  <2>1. rest \in Seq(Entries)
    BY <1>1, <1>2, <1>3, <1>7, NamesKnown DEF MarkNames
  <2>2. Setting!Defaults(v) = Setting!Marks \o Setting!MiscDefaults \o rest
    BY DEF Setting!Defaults
  <2> HIDE DEF rest
  <2> QED BY <1>4, <1>5, <2>1, <2>2
<1>8. Setting!Small(1) \in Words
  BY <1>3
<1> QED BY <1>3, <1>6, <1>7, <1>8

LEMMA SettingsStepIInv == SettingsIInv /\ [Setting!Next]_settings => SettingsIInv'
<1> SUFFICES ASSUME SettingsIInv, [Setting!Next]_settings PROVE SettingsIInv'
  OBVIOUS
<1>1. ASSUME NEW s \in Setting!Saved, NEW v \in Numbers, Setting!Save(s, v) PROVE SettingsIInv'
  <2>0. UNCHANGED <<fill, mask, setting, enabled, saving, locks, crossed>>
    BY <1>1 DEF Setting!Save
  <2>1. s \in Setting!Names \ {"ChannelLockEnValue"} /\ s \notin MarkNames /\ v \in Words
    BY SettingsAssumption, NamesKnown DEF Setting!Saved, MarkNames
  <2>2. CASE Setting!Put(s, v)
    <3> HIDE DEF MarkNames
    <3> QED BY <2>0, <2>1, <2>2, PutKeeps, OthersKeepLock DEF SettingsIInv, AreasInv, LocksInv
  <2>3. CASE UNCHANGED <<ssm, saved>>
    BY <2>0, <2>3, BytesKept DEF SettingsIInv, AreasInv, LocksInv
  <2> QED BY <1>1, <2>2, <2>3 DEF Setting!Save
<1>2. ASSUME NEW t \in Threads, Setting!WriteMask(t) PROVE SettingsIInv'
  <2>1. Setting!SetLock(t) /\ UNCHANGED <<ssm, fill, enabled, saving, saved>>
    BY <1>2 DEF Setting!WriteMask
  <2>2. t \in DOMAIN setting /\ t # Setting!Restorer
    BY SettingsAssumption DEF SettingsIInv, AreasInv, LocksInv
  <2>3. Setting!Idle' = Setting!Idle
    BY DEF Setting!Idle
  <2>4. setting'[Setting!Restorer] = setting[Setting!Restorer]
    BY <2>1, <2>2, LockSet DEF SettingsIInv, LocksInv
  <2>5. LocksInv'
    BY <2>1, <2>2, <2>3, <2>4, LockSet DEF SettingsIInv, LocksInv
  <2> QED BY <2>1, <2>5, AreasKept DEF SettingsIInv
<1>3. ASSUME NEW t \in Threads, NEW i \in Lockable, NEW f \in BOOLEAN, Setting!ReadMask(t, i, f) PROVE SettingsIInv'
  <2>1. /\ UNCHANGED <<ssm, fill, mask, enabled, saving, saved, locks, crossed>>
        /\ setting' = [setting EXCEPT ![t] = Setting!Begun(i, f)]
    BY <1>3 DEF Setting!ReadMask
  <2>2. Setting!Begun(i, f) # Setting!Idle => Setting!Begun(i, f).flag \in BOOLEAN /\ Setting!Begun(i, f).source \in 0..31
    BY DEF Setting!Begun
  <2>3. t # Setting!Restorer /\ Setting!Idle' = Setting!Idle
    BY SettingsAssumption DEF Setting!Idle
  <2>4. /\ DOMAIN setting' = DOMAIN setting /\ setting'[t] = Setting!Begun(i, f)
        /\ \A u \in DOMAIN setting \ {t} : setting'[u] = setting[u]
    BY <2>1 DEF SettingsIInv, AreasInv, LocksInv
  <2>5. LocksInv'
    BY <2>1, <2>2, <2>3, <2>4 DEF SettingsIInv, LocksInv
  <2> QED BY <2>1, <2>5, AreasKept DEF SettingsIInv
<1>4. ASSUME NEW enable \in BOOLEAN, Setting!SetBlockEn(enable) PROVE SettingsIInv'
  <2> DEFINE v == Setting!Small(IF enable THEN 0 ELSE 1)
             s == "ChannelLockEnValue"
  <2>1. v \in Words /\ (enable <=> v[1] = 0)
    BY DEF Setting!Small, Words
  <2>2. s \in Setting!Names /\ s \notin MarkNames /\ Setting!Width(s) = 1
    BY NamesKnown DEF MarkNames, Setting!Width
  <2>3. Setting!Put(s, v) /\ UNCHANGED <<fill, mask, setting, saving, locks, crossed>> /\ enabled' = enable
    BY <1>4 DEF Setting!SetBlockEn
  <2> HIDE DEF v
  <2>4. Bytes(s)'[1] = v[1]
    <3>1. Bytes(s)' = [n \in 1..4 |-> IF n <= Setting!Width(s) THEN v[n] ELSE Bytes(s)[n]]
      BY <2>1, <2>2, <2>3, PutOne
    <3> QED BY <2>2, <3>1
  <2> QED BY <2>1, <2>2, <2>3, <2>4, PutKeeps DEF SettingsIInv, AreasInv, LocksInv
<1>5. ASSUME NEW list \in {Setting!Defaults(Setting!Zero), Setting!Defaults(Setting!Small(1)), Setting!FacDefaults},
             Setting!Restore(list) PROVE SettingsIInv'
  BY <1>5, RestoresSave, BytesKept DEF SettingsIInv, AreasInv, LocksInv, Setting!Restore
<1>6. ASSUME Setting!RestoreSave PROVE SettingsIInv'
  <2> DEFINE e == saving[1]
  <2>1. /\ e \in Entries /\ saving' \in Seq(Entries) /\ e[1] # "lock" /\ Setting!Put(e[1], e[2])
        /\ UNCHANGED <<fill, mask, setting, enabled, locks, crossed>>
    BY <1>6 DEF SettingsIInv, AreasInv, LocksInv, Setting!RestoreSave
  <2>2. /\ e[1] \in Setting!Names \ {"ChannelLockEnValue"} /\ e[2] \in Words
        /\ e[1] \in MarkNames => e[2] = MarkValue(e[1])
    BY <2>1, NamesKnown, MarksSaved DEF Entries, MarkNames
  <2>3. setting[Setting!Restorer] = Setting!Idle
    BY <2>1 DEF SettingsIInv, AreasInv, LocksInv
  <2> QED BY <2>1, <2>2, <2>3, PutKeeps, OthersKeepLock DEF SettingsIInv, AreasInv, LocksInv, Setting!Idle
<1>7. ASSUME Setting!RestoreReadLock PROVE SettingsIInv'
  <2>1. /\ UNCHANGED <<ssm, fill, mask, enabled, saving, saved, locks, crossed>>
        /\ setting' = [setting EXCEPT ![Setting!Restorer] = Setting!Begun(0, FALSE)]
        /\ saving # <<>> /\ saving[1][1] = "lock"
    BY <1>7 DEF Setting!RestoreReadLock
  <2>2. Setting!Begun(0, FALSE).flag \in BOOLEAN /\ Setting!Begun(0, FALSE).source \in 0..31
    BY DEF Setting!Begun
  <2>3. /\ DOMAIN setting' = DOMAIN setting /\ setting'[Setting!Restorer] = Setting!Begun(0, FALSE)
        /\ \A u \in DOMAIN setting \ {Setting!Restorer} : setting'[u] = setting[u]
    BY <2>1 DEF SettingsIInv, AreasInv, LocksInv
  <2>4. Setting!Idle' = Setting!Idle
    BY DEF Setting!Idle
  <2>5. LocksInv'
    BY <2>1, <2>2, <2>3, <2>4 DEF SettingsIInv, LocksInv
  <2> QED BY <2>1, <2>5, AreasKept DEF SettingsIInv
<1>8. ASSUME Setting!RestoreWriteLock PROVE SettingsIInv'
  <2>1. /\ Setting!SetLock(Setting!Restorer) /\ UNCHANGED <<ssm, fill, enabled, saved>>
        /\ saving' = Tail(saving)
    BY <1>8 DEF Setting!RestoreWriteLock
  <2>2. saving' \in Seq(Entries)
    BY <2>1 DEF SettingsIInv, AreasInv, LocksInv, Setting!SetLock
  <2>3. Setting!Restorer \in DOMAIN setting
    BY DEF SettingsIInv, AreasInv, LocksInv
  <2>4. Setting!Idle' = Setting!Idle
    BY DEF Setting!Idle
  <2>5. LocksInv'
    BY <2>1, <2>3, <2>4, LockSet DEF SettingsIInv, LocksInv
  <2> QED BY <2>1, <2>2, <2>5, AreasKept DEF SettingsIInv
<1>9. ASSUME Setting!Restart PROVE SettingsIInv'
  <2>1. enabled' = (Setting!Read("ChannelLockEnValue") = Setting!Zero)
    BY <1>9 DEF Setting!Restart
  <2>2. Setting!Read("ChannelLockEnValue") = Setting!Zero <=> Bytes("ChannelLockEnValue")[1] = 0
    BY LockReads
  <2> QED BY <1>9, <2>1, <2>2, BytesKept DEF SettingsIInv, AreasInv, LocksInv, Setting!Restart
<1>10. CASE UNCHANGED settings
  BY <1>10, BytesKept DEF SettingsIInv, AreasInv, LocksInv, settings
<1> QED
  BY <1>1, <1>2, <1>3, <1>4, <1>5, <1>6, <1>7, <1>8, <1>9, <1>10 DEF Setting!Next

\* A number that fits its area is read as it was saved.
LEMMA ReadsBack ==
    ASSUME SettingsIInv, NEW s \in DOMAIN saved, Setting!Fits(s, saved[s]),
           s = "SystemSleepTimer" => fill = 0
    PROVE  Setting!Read(s) = saved[s]
<1> DEFINE v == saved[s]
           b == [n \in 1..4 |-> IF n <= Setting!ReadWidth(s) THEN Bytes(s)[n] ELSE 0]
<1>1. s \in Setting!Names /\ v \in Words
  BY DEF SettingsIInv, AreasInv, LocksInv
<1>2. Setting!Read(s) = Setting!Seen(s, b)
  BY DEF Setting!Read, Bytes
<1>3. \A n \in 1..4 : n <= Setting!Width(s) => b[n] = v[n]
  BY WidthRange DEF SettingsIInv, AreasInv, LocksInv, Setting!ReadWidth
<1>4. v = [n \in 1..4 |-> v[n]]
  BY <1>1 DEF Words
<1>5. CASE \A n \in 1..4 : n > Setting!Width(s) => v[n] = 0
  <2>1. \A n \in 1..4 : n > Setting!Width(s) => b[n] = 0
    BY <1>1, WidthRange DEF SettingsIInv, AreasInv, LocksInv, Setting!ReadWidth
  <2>2. \A n \in 1..4 : b[n] = v[n]
    BY <1>3, <1>5, <2>1, WidthRange
  <2>3. b = v
    BY <1>4, <2>2
  <2> QED BY <1>2, <2>3 DEF Setting!Fits
<1>6. CASE /\ s \in {"DLGEnable", "VRREnable", "BlackoutEnable"}
           /\ v[1] > 127 /\ v[2] = 255 /\ v[3] = 255 /\ v[4] = 255
  <2>1. b[1] = v[1]
    BY <1>3, <1>6, WidthRange
  <2>2. Setting!Seen(s, b) = <<v[1], 255, 255, 255>>
    BY <1>6, <2>1 DEF Setting!Seen, Setting!Versions
  <2>3. v = <<v[1], 255, 255, 255>>
    BY <1>4, <1>6
  <2> QED BY <1>2, <2>2, <2>3
<1> QED BY <1>5, <1>6 DEF Setting!Fits

LEMMA SettingsIInvKept == SettingsIInv => Setting!SettingsKept
<1> SUFFICES ASSUME SettingsIInv PROVE Setting!SettingsKept
  OBVIOUS
<1>1. \A s \in DOMAIN saved :
         Setting!Fits(s, saved[s]) /\ (s = "SystemSleepTimer" => fill = 0) => Setting!Read(s) = saved[s]
  BY ReadsBack
<1>2. \A i \in DOMAIN locks \ crossed : i \in mask <=> locks[i]
  BY DEF SettingsIInv, AreasInv, LocksInv
<1>3. \A i \in DOMAIN locks \ crossed : Setting!SourceLocked(i) => locks[i]
  BY DEF SettingsIInv, AreasInv, LocksInv, Setting!SourceLocked
<1>4. enabled = (Setting!Read("ChannelLockEnValue") = Setting!Zero)
  <2>1. enabled \in BOOLEAN /\ (enabled <=> Setting!Read("ChannelLockEnValue") = Setting!Zero)
    BY LockReads DEF SettingsIInv, AreasInv, LocksInv
  <2> QED BY <2>1, Zenon
<1>5. ASSUME DOMAIN Setting!MarkAreas \subseteq DOMAIN saved PROVE Setting!MarkCheck
  <2>1. "Mark1" \in DOMAIN saved /\ saved["Mark1"] = Setting!Small(221)
    BY <1>5, NamesKnown DEF SettingsIInv, AreasInv, LocksInv, MarkNames, MarkValue
  <2>2. Setting!Fits("Mark1", Setting!Small(221))
    BY DEF Setting!Fits, Setting!Small, Setting!Width, Setting!Seen, Setting!Versions
  <2>3. Setting!Read("Mark1") = Setting!Small(221)
    BY <1>1, <2>1, <2>2
  <2>4. Setting!Marks[1][1] = "Mark1" /\ Setting!Marks[1][2] = Setting!Small(221)
    BY DEF Setting!Marks
  <2> QED BY <2>3, <2>4, NamesKnown DEF Setting!MarkCheck
<1> QED BY <1>1, <1>2, <1>3, <1>4, <1>5 DEF Setting!SettingsKept

-----------------------------------------------------------------------------
(* The keys. *)

Handing == {"set", "join", "low", "high", "new low", "new high"}
Steps == {"idle", "write", "answer", "hdcp", "name", "read"} \cup Handing
WorkSteps == {"none", "created", "low", "high", "on?", "give", "low?", "high?", "ending", "ended"}
SavedKeys == {"mac", "usid", "hdcp2_rx"}

KeysType ==
    /\ keycfg.startWork \in BOOLEAN
    /\ DOMAIN keys = Key!Names
    /\ keyop \in [Threads -> [pc : Steps, key : SavedKeys \cup {Nothing},
                              value : Addresses \cup Codes \cup Keys \cup {Nothing}]]
    /\ address = [low |-> address.low, high |-> address.high]
    /\ turnOn \in BOOLEAN
    /\ worker = [pc |-> worker.pc, low |-> worker.low, high |-> worker.high]
    /\ worker.pc \in WorkSteps

\* A key whose content no other client's naming led astray is the one saved last.
DeviceInv ==
    /\ \A t \in Threads : keyop[t].pc = "write" => keyop[t].key \in SavedKeys
    /\ ~Key!May("close") => \A k \in (DOMAIN kept \cap Key!Names) \ strayed : keys[k] = kept[k]
    /\ "file" \in DOMAIN kept /\ ~Key!May("file") => keyfile = kept["file"]

\* One client at a time starts the thread, which was told to work when it was
\* started last; what it has given the interface it compares.
StartInv ==
    /\ \A t \in Threads : keyop[t].pc \in Handing => keyop[t].value \in Addresses
    /\ \A t, u \in Threads : Key!Starting(t) /\ Key!Starting(u) => t = u
    /\ \A t \in Threads : keyop[t].pc \in {"new low", "new high"} => worker.pc = "none"
    /\ worker.pc # "none" /\ (\A t \in Threads : ~Key!Starting(t)) => turnOn
    /\ worker.pc \in {"low?", "high?"} => eth = [low |-> worker.low, high |-> worker.high]

\* The address is the one that was set last, but for its second word while that
\* is set; the thread compares one word after the other, and ends when both are
\* the same.
HeardInv ==
    /\ \A t \in Threads : keyop[t].pc \in {"high", "new high"} => address.low = keyop[t].value.low
    /\ (\A t \in Threads : keyop[t].pc \notin {"high", "new high"}) /\ handed # Nothing => address = handed
    /\ worker.pc = "none" /\ handed # Nothing => \E t \in Threads : keyop[t].pc \in {"new low", "new high"}
    /\ worker.pc = "high?" => worker.low = address.low
    /\ worker.pc \in {"ending", "ended"} /\ turnOn /\ keycfg.startWork => eth = address

AddressInv == StartInv /\ (~unheard => HeardInv)

KeysIInv == KeysType /\ DeviceInv /\ AddressInv

LEMMA KeysInitIInv == Key!Init => KeysIInv
<1> SUFFICES ASSUME Key!Init PROVE KeysIInv
  OBVIOUS
<1>1. KeysType
  BY DEF KeysType, Key!Init, Key!Idle, Key!NoThread, Steps, WorkSteps
<1>2. DeviceInv
  BY DEF DeviceInv, Key!Init, Key!Idle, Key!Names
<1>3. AddressInv
  BY DEF AddressInv, StartInv, HeardInv, Key!Starting, Key!Init, Key!Idle, Key!NoThread, Handing
<1> QED BY <1>1, <1>2, <1>3 DEF KeysIInv

OpType == [pc : Steps, key : SavedKeys \cup {Nothing}, value : Addresses \cup Codes \cup Keys \cup {Nothing}]

LEMMA GoesTyped ==
    ASSUME KeysType, NEW t \in Threads, NEW pc \in Steps, Key!Go(t, pc)
    PROVE  keyop' \in [Threads -> OpType]
<1>1. keyop \in [Threads -> OpType]
  BY DEF KeysType, OpType
<1>2. keyop[t] \in OpType
  BY <1>1
<1>3. [keyop[t] EXCEPT !.pc = pc] \in OpType
  BY <1>2 DEF OpType
<1> HIDE DEF OpType
<1> QED BY <1>1, <1>3 DEF Key!Go

LEMMA KeysStepType == KeysIInv /\ [Key!Next]_keydata => KeysType'
<1> SUFFICES ASSUME KeysIInv, [Key!Next]_keydata PROVE KeysType'
  OBVIOUS
<1> USE DEF KeysIInv, KeysType
<1>1. ASSUME NEW t \in Threads, NEW k \in SavedKeys, NEW v \in Addresses \cup Codes \cup Keys, Key!Save(t, k, v)
      PROVE  KeysType'
  BY <1>1 DEF Key!Save, Steps
<1>2. ASSUME NEW t \in Threads, NEW v \in Keys, Key!SaveToFile(t, v) PROVE KeysType'
  BY <1>2 DEF Key!SaveToFile
<1>3. ASSUME NEW t \in Threads, NEW k \in {"mac", "usid"}, Key!Read(t, k) PROVE KeysType'
  BY <1>3 DEF Key!Read, Steps, SavedKeys
<1>4. ASSUME NEW t \in Threads, Key!Write(t) PROVE KeysType'
  <2>1. DOMAIN keys' = Key!Names
    BY <1>4 DEF Key!Write, Key!Taken
  <2> QED BY <1>4, <2>1 DEF Key!Write, Key!Go, Key!Return, Key!Idle, Steps
<1>5. ASSUME NEW t \in Threads, Key!Answer(t) PROVE KeysType'
  BY <1>5 DEF Key!Answer, Key!Return, Key!Idle, Steps
<1>6. ASSUME NEW t \in Threads, Key!SetHDCPKey(t) PROVE KeysType'
  BY <1>6 DEF Key!SetHDCPKey, Key!Go, Steps
<1>7. ASSUME NEW t \in Threads, Key!ReadHDCPKey(t) PROVE KeysType'
  BY <1>7 DEF Key!ReadHDCPKey, Key!Return, Key!Idle, Steps
<1>8. ASSUME NEW t \in Threads, Key!NameAddress(t) PROVE KeysType'
  BY <1>8 DEF Key!NameAddress, Key!Go, Steps
<1>9. ASSUME NEW t \in Threads, Key!ReadAddress(t) PROVE KeysType'
  <2>0. "set" \in Steps
    BY DEF Steps, Handing
  <2>1. CASE keys["mac"] \in Addresses /\ keyop' = [keyop EXCEPT ![t] = [pc |-> "set", key |-> "mac", value |-> keys["mac"]]]
    BY <1>9, <2>0, <2>1 DEF Key!ReadAddress, SavedKeys
  <2>2. CASE Key!Return(t)
    BY <1>9, <2>2 DEF Key!ReadAddress, Key!Return, Key!Idle, Steps
  <2> QED BY <1>9, <2>1, <2>2 DEF Key!ReadAddress
<1>10. ASSUME NEW t \in Threads, Key!SetAddress(t) PROVE KeysType'
  <2>1. PICK pc \in Steps : Key!Go(t, pc)
    BY <1>10 DEF Key!SetAddress, Steps, Handing
  <2>2. turnOn' \in BOOLEAN
    BY <1>10 DEF Key!SetAddress
  <2> QED BY <1>10, <2>1, <2>2 DEF Key!SetAddress, Key!Go
<1>11. ASSUME NEW t \in Threads, Key!Join(t) PROVE KeysType'
  <2>1. keyop' \in [Threads -> OpType]
    BY <1>11, GoesTyped DEF Key!Join, Steps, Handing
  <2>2. worker'.pc \in WorkSteps
    BY <1>11 DEF Key!Join, Key!NoThread, WorkSteps
  <2> QED BY <1>11, <2>1, <2>2 DEF Key!Join, Key!NoThread, OpType
<1>12. ASSUME NEW t \in Threads, Key!SetLow(t) PROVE KeysType'
  <2>1. keyop' \in [Threads -> OpType]
    BY <1>12, GoesTyped DEF Key!SetLow, Steps, Handing
  <2>2. address' = [low |-> address'.low, high |-> address'.high]
    BY <1>12 DEF Key!SetLow
  <2> QED BY <1>12, <2>1, <2>2 DEF Key!SetLow, OpType
<1>13. ASSUME NEW t \in Threads, Key!SetHigh(t) PROVE KeysType'
  BY <1>13 DEF Key!SetHigh, Key!Return, Key!Idle, Steps, WorkSteps
<1>14. ASSUME Key!Start \/ Key!GetLow \/ Key!GetHigh \/ Key!TurnedOn \/ Key!Give \/ Key!LowSame \/ Key!HighSame \/ Key!End
       PROVE  KeysType'
  BY <1>14 DEF Key!Start, Key!GetLow, Key!GetHigh, Key!TurnedOn, Key!Give, Key!LowSame, Key!HighSame,
               Key!End, Key!Work, Key!Moved, WorkSteps
<1>15. ASSUME Key!Restart PROVE KeysType'
  BY <1>15 DEF Key!Restart, Key!Idle, Key!NoThread, Steps, WorkSteps
<1>16. CASE UNCHANGED keydata
  BY <1>16 DEF keydata
<1> HIDE DEF KeysIInv, KeysType
<1> QED
  BY <1>1, <1>2, <1>3, <1>4, <1>5, <1>6, <1>7, <1>8, <1>9, <1>10, <1>11, <1>12, <1>13, <1>14, <1>15, <1>16
     DEF Key!Next, SavedKeys

\* Where the threads are after a step of one of them.
LEMMA Goes ==
    ASSUME KeysIInv, NEW t \in Threads, NEW pc, Key!Go(t, pc)
    PROVE  /\ keyop'[t].pc = pc /\ keyop'[t].key = keyop[t].key /\ keyop'[t].value = keyop[t].value
           /\ \A u \in Threads \ {t} : keyop'[u] = keyop[u]
  BY DEF KeysIInv, KeysType, Key!Go

LEMMA Returns ==
    ASSUME KeysIInv, NEW t \in Threads, Key!Return(t)
    PROVE  keyop'[t].pc = "idle" /\ \A u \in Threads \ {t} : keyop'[u] = keyop[u]
  BY DEF KeysIInv, KeysType, Key!Return, Key!Idle

LEMMA KeysStepDevice == KeysIInv /\ [Key!Next]_keydata => DeviceInv'
<1> SUFFICES ASSUME KeysIInv, [Key!Next]_keydata PROVE DeviceInv'
  OBVIOUS
<1>a. DeviceInv /\ KeysType
  BY DEF KeysIInv
<1>1. ASSUME NEW t \in Threads, NEW k \in SavedKeys, NEW v, Key!Save(t, k, v), k = "mac" => v \in Addresses
      PROVE  DeviceInv'
  <2>1. keyop' = [keyop EXCEPT ![t] = [pc |-> "write", key |-> k, value |-> v]]
    BY <1>1 DEF Key!Save
  <2>2. keyop'[t] = [pc |-> "write", key |-> k, value |-> v] /\ \A u \in Threads \ {t} : keyop'[u] = keyop[u]
    BY <1>a, <2>1 DEF KeysType
  <2> QED BY <1>1, <1>a, <2>2 DEF DeviceInv, Key!Save
<1>2. ASSUME NEW t \in Threads, NEW v \in Keys, Key!SaveToFile(t, v) PROVE DeviceInv'
  <2>1. kept' = Key!Kept("file", v) /\ UNCHANGED <<keys, keyop, strayed>>
    BY <1>2 DEF Key!SaveToFile
  <2>2. "file" \notin Key!Names
    BY DEF Key!Names
  <2>3. ~Key!May("file") => keyfile' = v
    BY <1>2 DEF Key!SaveToFile, Key!Taken
  <2> QED BY <1>a, <2>1, <2>2, <2>3 DEF DeviceInv, Key!Kept
<1>3. ASSUME NEW t \in Threads, Key!Write(t) PROVE DeviceInv'
  <2>1. keyop[t].pc = "write" /\ keyop[t].key \in SavedKeys /\ UNCHANGED keyfile
    BY <1>3, <1>a DEF Key!Write, Key!At, DeviceInv
  <2>2. \E pc \in {"name", "idle"} : keyop'[t].pc = pc /\ \A u \in Threads \ {t} : keyop'[u] = keyop[u]
    BY <1>3, Goes, Returns DEF Key!Write
  <2>3. CASE UNCHANGED <<keys, kept, strayed>>
    BY <1>a, <2>1, <2>2, <2>3 DEF DeviceInv
  <2>4. CASE /\ keys' \in Key!Taken([keys EXCEPT ![selected] = keyop[t].value], keys, "close")
             /\ kept' = Key!Kept(keyop[t].key, keyop[t].value)
             /\ strayed' = (IF selected = keyop[t].key THEN strayed \ {selected} ELSE strayed \cup {selected, keyop[t].key})
    <3>1. ASSUME ~Key!May("close"), NEW k \in DOMAIN kept' \cap Key!Names, k \notin strayed' PROVE keys'[k] = kept'[k]
      <4>1. keys' = [keys EXCEPT ![selected] = keyop[t].value]
        BY <2>4, <3>1 DEF Key!Taken
      <4>2. CASE k = keyop[t].key
        BY <1>a, <2>4, <3>1, <4>1, <4>2 DEF KeysType, Key!Kept
      <4>3. CASE k # keyop[t].key
        <5>1. k \in DOMAIN kept /\ kept'[k] = kept[k]
          BY <2>4, <3>1, <4>3 DEF Key!Kept
        <5>2. k \notin strayed /\ k # selected
          BY <2>4, <3>1, <4>3
        <5>3. keys'[k] = keys[k]
          BY <1>a, <3>1, <4>1, <5>2 DEF KeysType
        <5> QED BY <1>a, <3>1, <5>1, <5>2, <5>3 DEF DeviceInv
      <4> QED BY <4>2, <4>3
    <3>2. "file" \in DOMAIN kept' => "file" \in DOMAIN kept /\ kept'["file"] = kept["file"]
      BY <2>1, <2>4 DEF Key!Kept, SavedKeys
    <3> QED BY <1>a, <2>1, <2>2, <3>1, <3>2 DEF DeviceInv
  <2> QED BY <1>3, <2>3, <2>4 DEF Key!Write
<1>4. ASSUME NEW t \in Threads, UNCHANGED <<keys, kept, keyfile, strayed>>,
             keyop'[t].pc # "write", \A u \in Threads \ {t} : keyop'[u] = keyop[u]
      PROVE  DeviceInv'
  BY <1>4, <1>a DEF DeviceInv
<1>5. ASSUME NEW t \in Threads, NEW k \in {"mac", "usid"}, Key!Read(t, k) PROVE DeviceInv'
  <2>1. keyop' = [keyop EXCEPT ![t] = [pc |-> "answer", key |-> k, value |-> Nothing]]
    BY <1>5 DEF Key!Read
  <2>2. keyop'[t].pc # "write" /\ \A u \in Threads \ {t} : keyop'[u] = keyop[u]
    BY <1>a, <2>1 DEF KeysType
  <2> QED BY <1>4, <1>5, <2>2 DEF Key!Read
<1>6. ASSUME NEW t \in Threads,
             Key!Answer(t) \/ Key!SetHDCPKey(t) \/ Key!ReadHDCPKey(t) \/ Key!NameAddress(t) \/ Key!ReadAddress(t)
               \/ Key!SetAddress(t) \/ Key!Join(t) \/ Key!SetLow(t) \/ Key!SetHigh(t)
      PROVE  DeviceInv'
  <2>1. UNCHANGED <<keys, kept, keyfile, strayed>>
    BY <1>6 DEF Key!Answer, Key!SetHDCPKey, Key!ReadHDCPKey, Key!NameAddress, Key!ReadAddress, Key!SetAddress,
                Key!Join, Key!SetLow, Key!SetHigh
  <2>2. \/ \E pc \in Steps \ {"write"} : Key!Go(t, pc)
        \/ Key!Return(t)
        \/ UNCHANGED keyop /\ keyop[t].pc # "write"
        \/ keyop' = [keyop EXCEPT ![t] = [pc |-> "set", key |-> "mac", value |-> keys["mac"]]]
    BY <1>6 DEF Key!Answer, Key!SetHDCPKey, Key!ReadHDCPKey, Key!NameAddress, Key!ReadAddress, Key!SetAddress,
                Key!Join, Key!SetLow, Key!SetHigh, Key!At, Key!Call, Steps, Handing
  <2>3. keyop'[t].pc # "write" /\ \A u \in Threads \ {t} : keyop'[u] = keyop[u]
    BY <1>a, <2>2, Goes, Returns DEF KeysType
  <2> QED BY <1>4, <2>1, <2>3
<1>7. ASSUME Key!Start \/ Key!GetLow \/ Key!GetHigh \/ Key!TurnedOn \/ Key!Give \/ Key!LowSame \/ Key!HighSame \/ Key!End
       PROVE  DeviceInv'
  <2>1. UNCHANGED <<keys, keyfile, keyop, kept, strayed>>
    BY <1>7 DEF Key!Start, Key!GetLow, Key!GetHigh, Key!TurnedOn, Key!Give, Key!LowSame, Key!HighSame,
                Key!End, Key!Work
  <2> QED BY <1>a, <2>1 DEF DeviceInv
<1>8. ASSUME Key!Restart PROVE DeviceInv'
  <2>1. \A t \in Threads : keyop'[t].pc = "idle"
    BY <1>8 DEF Key!Restart, Key!Idle
  <2> QED BY <1>8, <1>a, <2>1 DEF DeviceInv, Key!Restart
<1>9. CASE UNCHANGED keydata
  BY <1>9, <1>a DEF DeviceInv, keydata
<1> QED
  BY <1>1, <1>2, <1>3, <1>5, <1>6, <1>7, <1>8, <1>9 DEF Key!Next, SavedKeys

LEMMA KeysStepAddress == KeysIInv /\ [Key!Next]_keydata => AddressInv'
<1> SUFFICES ASSUME KeysIInv, [Key!Next]_keydata PROVE AddressInv'
  OBVIOUS
<1>a. KeysType /\ AddressInv
  BY DEF KeysIInv
<1> USE DEF Handing, Key!Starting
\* A step of a thread that sets no word of the address.
<1>1. ASSUME NEW t \in Threads,
             keyop[t].pc \notin Handing, keyop'[t].pc \notin Handing \ {"set"},
             keyop'[t].pc = "set" => keyop'[t].value \in Addresses,
             \A u \in Threads \ {t} : keyop'[u] = keyop[u],
             UNCHANGED <<keycfg, address, turnOn, worker, eth, handed, unheard>>
      PROVE  AddressInv'
  <2>1. \A u \in Threads : \A pc \in Handing \ {"set"} : keyop'[u].pc = pc <=> keyop[u].pc = pc
    BY <1>1
  <2>2. \A u \in Threads : keyop'[u].pc \in Handing => keyop'[u].value \in Addresses
    BY <1>1, <1>a DEF AddressInv, StartInv
  <2>3. \A u \in Threads : keyop'[u].pc \in {"high", "new high"} => keyop'[u].value = keyop[u].value
    BY <1>1
  <2>4. StartInv'
    <3>1. \A u \in Threads : Key!Starting(u)' <=> Key!Starting(u)
      BY <2>1
    <3>2. \A u \in Threads : keyop'[u].pc \in {"new low", "new high"} => keyop[u].pc \in {"new low", "new high"}
      BY <2>1
    <3> HIDE DEF Key!Starting
    <3> QED BY <1>1, <1>a, <2>2, <3>1, <3>2 DEF AddressInv, StartInv
  <2>5. ~unheard => HeardInv'
    BY <1>1, <1>a, <2>1, <2>3 DEF AddressInv, HeardInv
  <2> QED BY <1>1, <2>4, <2>5 DEF AddressInv
<1>2. ASSUME NEW t \in Threads, NEW k, NEW v, Key!Save(t, k, v) PROVE AddressInv'
  <2>1. keyop[t].pc = "idle" /\ keyop' = [keyop EXCEPT ![t] = [pc |-> "write", key |-> k, value |-> v]]
    BY <1>2 DEF Key!Save, Key!Call, Key!At
  <2>2. keyop'[t].pc = "write" /\ \A u \in Threads \ {t} : keyop'[u] = keyop[u]
    BY <1>a, <2>1 DEF KeysType
  <2> QED BY <1>1, <1>2, <2>1, <2>2 DEF Key!Save
<1>3. ASSUME NEW t \in Threads, NEW k, Key!Read(t, k) PROVE AddressInv'
  <2>1. keyop[t].pc = "idle" /\ keyop' = [keyop EXCEPT ![t] = [pc |-> "answer", key |-> k, value |-> Nothing]]
    BY <1>3 DEF Key!Read, Key!Call, Key!At
  <2>2. keyop'[t].pc = "answer" /\ \A u \in Threads \ {t} : keyop'[u] = keyop[u]
    BY <1>a, <2>1 DEF KeysType
  <2> QED BY <1>1, <1>3, <2>1, <2>2 DEF Key!Read
<1>4. ASSUME NEW t \in Threads, NEW v,
             Key!Write(t) \/ Key!Answer(t) \/ Key!SetHDCPKey(t) \/ Key!ReadHDCPKey(t) \/ Key!NameAddress(t)
               \/ Key!SaveToFile(t, v)
      PROVE  AddressInv'
  <2>1. keyop[t].pc \in {"write", "answer", "hdcp", "name", "idle"}
    BY <1>4 DEF Key!Write, Key!Answer, Key!SetHDCPKey, Key!ReadHDCPKey, Key!NameAddress, Key!SaveToFile,
                Key!At, Key!Call
  <2>2. \/ \E pc \in {"name", "hdcp", "read"} : Key!Go(t, pc)
        \/ Key!Return(t)
        \/ UNCHANGED keyop
    BY <1>4 DEF Key!Write, Key!Answer, Key!SetHDCPKey, Key!ReadHDCPKey, Key!NameAddress, Key!SaveToFile
  <2>3. keyop'[t].pc \notin Handing /\ \A u \in Threads \ {t} : keyop'[u] = keyop[u]
    BY <2>1, <2>2, Goes, Returns
  <2>4. UNCHANGED <<keycfg, address, turnOn, worker, eth, handed, unheard>>
    BY <1>4 DEF Key!Write, Key!Answer, Key!SetHDCPKey, Key!ReadHDCPKey, Key!NameAddress, Key!SaveToFile
  <2> QED BY <1>1, <2>1, <2>3, <2>4
<1>5. ASSUME NEW t \in Threads, Key!ReadAddress(t) PROVE AddressInv'
  <2>1. keyop[t].pc = "read" /\ UNCHANGED <<keycfg, address, turnOn, worker, eth, handed, unheard>>
    BY <1>5 DEF Key!ReadAddress, Key!At
  <2>2. /\ keyop'[t].pc = "idle" \/ (keyop'[t].pc = "set" /\ keyop'[t].value \in Addresses)
        /\ \A u \in Threads \ {t} : keyop'[u] = keyop[u]
    <3>1. CASE Key!Return(t)
      BY <3>1, Returns
    <3>2. CASE /\ keys["mac"] \in Addresses
               /\ keyop' = [keyop EXCEPT ![t] = [pc |-> "set", key |-> "mac", value |-> keys["mac"]]]
      BY <1>a, <3>2 DEF KeysType
    <3> QED BY <1>5, <3>1, <3>2 DEF Key!ReadAddress
  <2> QED BY <1>1, <2>1, <2>2
<1>6. ASSUME NEW t \in Threads, Key!SetAddress(t) PROVE AddressInv'
  <2>1. /\ keyop[t].pc = "set" /\ keyop[t].value \in Addresses
        /\ \A u \in Threads : keyop[u].pc \notin {"join", "new low", "new high"}
        /\ UNCHANGED <<keycfg, address, worker, eth, handed, unheard>>
    BY <1>6, <1>a DEF Key!SetAddress, Key!At, AddressInv, StartInv
  <2>2. PICK pc \in {"low", "join", "new low"} :
           /\ Key!Go(t, pc)
           /\ pc = "low" => UNCHANGED turnOn
           /\ pc = "join" => worker.pc # "none" /\ turnOn' = FALSE
           /\ pc = "new low" => worker.pc = "none" /\ UNCHANGED turnOn
    BY <1>6 DEF Key!SetAddress
  <2>3. /\ keyop'[t].pc = pc /\ keyop'[t].value = keyop[t].value
        /\ \A u \in Threads \ {t} : keyop'[u] = keyop[u]
    BY <2>2, Goes
  <2>4. StartInv'
    <3>1. \A u \in Threads : Key!Starting(u)' => u = t /\ pc # "low"
      BY <2>1, <2>2, <2>3
    <3>2. pc = "low" => \A u \in Threads : ~Key!Starting(u)
      BY <2>1
    <3>3. ASSUME worker'.pc # "none", \A u \in Threads : ~Key!Starting(u)' PROVE turnOn'
      <4>1. keyop'[t].pc \notin {"join", "new low"}
        BY <3>3
      <4>2. pc = "low"
        BY <2>2, <2>3, <4>1, Zenon
      <4>4. turnOn' = turnOn /\ worker' = worker
        BY <2>1, <2>2, <4>2, ZenonT(30)
      <4>3. worker.pc # "none" /\ (\A u \in Threads : ~Key!Starting(u)) => turnOn
        BY <1>a DEF AddressInv, StartInv
      <4> HIDE DEF Key!Starting
      <4> QED BY <3>2, <3>3, <4>2, <4>3, <4>4
    <3>4. \A u \in Threads : keyop'[u].pc \in {"new low", "new high"} => worker'.pc = "none"
      BY <2>1, <2>2, <2>3
    <3>5. \A u \in Threads : keyop'[u].pc \in Handing => keyop'[u].value \in Addresses
      BY <1>a, <2>1, <2>3 DEF AddressInv, StartInv
    <3>6. worker'.pc \in {"low?", "high?"} => eth' = [low |-> worker'.low, high |-> worker'.high]
      BY <1>a, <2>1 DEF AddressInv, StartInv
    <3> HIDE DEF Key!Starting, Handing
    <3>7. \A u, v \in Threads : Key!Starting(u)' /\ Key!Starting(v)' => u = v
      BY <3>1, ZenonT(30)
    <3> QED BY <3>3, <3>4, <3>5, <3>6, <3>7, ZenonT(30) DEF StartInv
  <2>5. ~unheard => HeardInv'
    BY <1>a, <2>1, <2>2, <2>3 DEF AddressInv, HeardInv
  <2> QED BY <2>1, <2>4, <2>5 DEF AddressInv
<1>7. ASSUME NEW t \in Threads, Key!Join(t) PROVE AddressInv'
  <2>1. /\ keyop[t].pc = "join" /\ worker'.pc = "none" /\ Key!Go(t, "new low")
        /\ UNCHANGED <<keycfg, address, turnOn, eth, handed, unheard>>
    BY <1>7 DEF Key!Join, Key!At, Key!NoThread
  <2>2. /\ keyop'[t].pc = "new low" /\ keyop'[t].value = keyop[t].value
        /\ \A u \in Threads \ {t} : keyop'[u] = keyop[u]
    BY <2>1, Goes
  <2>3. StartInv'
    BY <1>a, <2>1, <2>2 DEF AddressInv, StartInv
  <2>4. ~unheard => HeardInv'
    BY <1>a, <2>1, <2>2 DEF AddressInv, HeardInv
  <2> QED BY <2>1, <2>3, <2>4 DEF AddressInv
<1>8. ASSUME NEW t \in Threads, Key!SetLow(t) PROVE AddressInv'
  <2>1. /\ keyop[t].pc \in {"low", "new low"}
        /\ address' = [address EXCEPT !.low = keyop[t].value.low]
        /\ UNCHANGED <<keycfg, turnOn, worker, eth, handed>>
        /\ ~unheard' => ~Key!Beside(t)
        /\ keyop[t].pc = "low" /\ ~unheard' => ~unheard /\ ~Key!Ending
        /\ Key!Go(t, IF keyop[t].pc = "low" THEN "high" ELSE "new high")
    BY <1>8 DEF Key!SetLow, Key!At
  <2>2. /\ keyop'[t].pc = (IF keyop[t].pc = "low" THEN "high" ELSE "new high")
        /\ keyop'[t].value = keyop[t].value
        /\ \A u \in Threads \ {t} : keyop'[u] = keyop[u]
    <3>1. PICK pc : pc = (IF keyop[t].pc = "low" THEN "high" ELSE "new high") /\ Key!Go(t, pc)
      BY <2>1
    <3> QED BY <3>1, Goes
  <2>3. StartInv'
    BY <1>a, <2>1, <2>2 DEF AddressInv, StartInv
  <2>4. ASSUME ~unheard' PROVE HeardInv'
    <3>1. \A u \in Threads \ {t} : keyop'[u].pc \notin {"high", "new high"}
      BY <2>1, <2>2, <2>4 DEF Key!Beside, Key!Setting
    <3>2. address'.low = keyop'[t].value.low
      BY <1>a, <2>1, <2>2 DEF KeysType
    <3>3. keyop[t].pc = "low" => worker.pc \notin {"none", "ending", "ended", "high?"}
      BY <2>1, <2>4 DEF Key!Ending, Key!Ended
    <3>4. keyop[t].pc = "new low" => worker.pc = "none"
      BY <1>a DEF AddressInv, StartInv
    <3>5. keyop'[t].pc \in {"high", "new high"} /\ (keyop[t].pc = "new low" => keyop'[t].pc = "new high")
      BY <2>1, <2>2
    <3> QED BY <2>1, <3>1, <3>2, <3>3, <3>4, <3>5 DEF HeardInv
  <2> QED BY <2>3, <2>4 DEF AddressInv
<1>9. ASSUME NEW t \in Threads, Key!SetHigh(t) PROVE AddressInv'
  <2>1. /\ keyop[t].pc \in {"high", "new high"} /\ keyop[t].value \in Addresses
        /\ address' = [address EXCEPT !.high = keyop[t].value.high]
        /\ handed' = keyop[t].value /\ UNCHANGED <<keycfg, eth>>
        /\ ~unheard' => ~unheard /\ ~Key!Beside(t)
        /\ keyop[t].pc = "high" => UNCHANGED <<turnOn, worker>> /\ (~unheard' => ~Key!Ended)
        /\ keyop[t].pc = "new high" => turnOn' = TRUE /\ worker'.pc = "created"
    BY <1>9, <1>a DEF Key!SetHigh, Key!At, AddressInv, StartInv, KeysType
  <2>2. keyop'[t].pc = "idle" /\ \A u \in Threads \ {t} : keyop'[u] = keyop[u]
    BY <1>9, Returns DEF Key!SetHigh
  <2>3. StartInv'
    <3>1. CASE keyop[t].pc = "high"
      <4>1. \A u \in Threads : Key!Starting(u)' <=> Key!Starting(u)
        BY <2>2, <3>1
      <4>2. \A u \in Threads : keyop'[u].pc \in Handing => u # t /\ keyop'[u] = keyop[u]
        BY <2>2
      <4>3. \A u \in Threads : keyop'[u].pc \in {"new low", "new high"} => u # t /\ keyop'[u] = keyop[u]
        BY <2>2
      <4> HIDE DEF Key!Starting, Handing
      <4>4. UNCHANGED <<turnOn, worker, eth>>
        BY <2>1, <3>1
      <4>5. StartInv
        BY <1>a DEF AddressInv
      <4> QED BY <4>1, <4>2, <4>3, <4>4, <4>5, Zenon DEF StartInv
    <3>2. CASE keyop[t].pc = "new high"
      BY <1>a, <2>1, <2>2, <3>2 DEF AddressInv, StartInv
    <3> QED BY <2>1, <3>1, <3>2
  <2>4. ASSUME ~unheard' PROVE HeardInv'
    <3>1. \A u \in Threads : keyop'[u].pc \notin {"high", "new high"}
      BY <2>1, <2>2, <2>4 DEF Key!Beside, Key!Setting
    <3>2. address' = handed' /\ address'.low = address.low
      <4>1. address.low = keyop[t].value.low
        BY <1>a, <2>1, <2>4 DEF AddressInv, HeardInv
      <4>2. address' = [low |-> keyop[t].value.low, high |-> keyop[t].value.high]
        BY <1>a, <2>1, <4>1 DEF KeysType
      <4> QED BY <2>1, <4>1, <4>2, KeysAssumption
    <3>3. worker'.pc \notin {"none", "ending", "ended"}
      BY <2>1, <2>4 DEF Key!Ended
    <3>4. worker'.pc = "high?" => worker'.low = address'.low
      BY <1>a, <2>1, <2>4, <3>2 DEF AddressInv, HeardInv
    <3> QED BY <3>1, <3>2, <3>3, <3>4 DEF HeardInv
  <2> QED BY <2>3, <2>4 DEF AddressInv
<1>10. ASSUME Key!Start \/ Key!GetLow \/ Key!GetHigh \/ Key!TurnedOn \/ Key!Give \/ Key!LowSame \/ Key!HighSame \/ Key!End
       PROVE  AddressInv'
  <2> USE DEF Key!Start, Key!GetLow, Key!GetHigh, Key!TurnedOn, Key!Give, Key!LowSame, Key!HighSame, Key!End, Key!Work,
              Key!Moved
  <2>1. /\ UNCHANGED <<keycfg, keyop, address, turnOn, handed, unheard>>
        /\ worker.pc \in WorkSteps \ {"none", "ended"}
    BY <1>10 DEF WorkSteps
  <2>2. worker'.pc \in WorkSteps \ {"none", "created"}
    BY <1>10, <1>a DEF WorkSteps, KeysType
  <2>3. worker'.pc \in {"low?", "high?"} => eth' = [low |-> worker'.low, high |-> worker'.high]
    BY <1>10, <1>a DEF KeysType, AddressInv, StartInv
  <2>4. worker'.pc = "high?" => worker'.low = address.low
    BY <1>10, <1>a DEF KeysType
  <2>5. ~unheard /\ worker'.pc \in {"ending", "ended"} /\ turnOn /\ keycfg.startWork => eth' = address
    <3>1. CASE Key!HighSame
      BY <3>1, <1>a DEF KeysType, AddressInv, StartInv, HeardInv
    <3>2. CASE Key!End
      <4>1. worker.pc = "ending" /\ eth' = eth
        BY <3>2
      <4> QED BY <1>a, <4>1 DEF AddressInv, HeardInv
    <3>3. CASE Key!Start
      BY <3>3, <1>a DEF KeysType
    <3>4. CASE Key!TurnedOn
      BY <3>4, <1>a DEF KeysType
    <3>5. CASE Key!GetLow \/ Key!GetHigh \/ Key!Give \/ Key!LowSame
      <4>1. \E pc \in {"low", "high", "on?", "low?", "high?"} : worker'.pc = pc
        BY <3>5, <1>a DEF KeysType
      <4> QED BY <4>1
    <3> QED BY <1>10, <3>1, <3>2, <3>3, <3>4, <3>5
  <2> HIDE DEF Key!Start, Key!GetLow, Key!GetHigh, Key!TurnedOn, Key!Give, Key!LowSame, Key!HighSame, Key!End, Key!Work,
              Key!Moved
  <2>6. StartInv'
    BY <1>a, <2>1, <2>2, <2>3 DEF AddressInv, StartInv
  <2>7. ~unheard => HeardInv'
    BY <1>a, <2>1, <2>2, <2>4, <2>5 DEF AddressInv, HeardInv
  <2> QED BY <2>1, <2>6, <2>7 DEF AddressInv
<1>11. ASSUME Key!Restart PROVE AddressInv'
  <2>1. /\ \A t \in Threads : keyop'[t].pc = "idle"
        /\ worker'.pc = "none" /\ handed' = Nothing
    BY <1>11 DEF Key!Restart, Key!Idle, Key!NoThread
  <2> QED BY <2>1 DEF AddressInv, StartInv, HeardInv
<1>12. CASE UNCHANGED keydata
  BY <1>12, <1>a DEF AddressInv, StartInv, HeardInv, keydata
<1> QED
  BY <1>2, <1>3, <1>4, <1>5, <1>6, <1>7, <1>8, <1>9, <1>10, <1>11, <1>12 DEF Key!Next

LEMMA KeysIInvKept == KeysIInv => Key!KeysKept
<1> SUFFICES ASSUME KeysIInv PROVE Key!KeysKept
  OBVIOUS
<1>1. ASSUME Key!Quiet, keycfg.startWork, handed # Nothing, ~unheard PROVE eth = handed
  <2>1. \A t \in Threads : keyop[t].pc = "idle"
    BY <1>1 DEF Key!Quiet, Key!At
  <2>2. worker.pc = "ended" /\ address = handed
    BY <1>1, <2>1 DEF KeysIInv, AddressInv, HeardInv, Key!Quiet
  <2>3. turnOn
    BY <2>1, <2>2 DEF KeysIInv, AddressInv, StartInv, Key!Starting
  <2> QED BY <1>1, <2>2, <2>3 DEF KeysIInv, AddressInv, HeardInv
<1> QED BY <1>1 DEF KeysIInv, DeviceInv, Key!KeysKept

\* What clients save is read as it was saved, and the address that was set last
\* is the interface's: for every set of numbers and keys, however many threads
\* save them and whichever steps of them come in between.  History variables name
\* what is excepted: a lock that a thread set back while it set another, a key
\* whose name another client changed under the writer, and an address that was
\* set beside another or after the thread had looked last.  Clients that start
\* the thread do so one by one.
THEOREM SavedIsKept == PartsSpec => []SettingsKept
<1> DEFINE Inv == (part = "settings" => SettingsIInv) /\ (part = "keydata" => KeysIInv)
<1>1. PartsInit => Inv
  BY SettingsInitIInv, KeysInitIInv DEF PartsInit
<1>2. Inv /\ [PartsNext]_partsVars => Inv'
  <2> SUFFICES ASSUME Inv, [PartsNext]_partsVars PROVE Inv'
    OBVIOUS
  <2>1. part' = part
    BY DEF PartsNext, partsVars
  <2>2. part = "settings" => [Setting!Next]_settings
    BY DEF PartsNext, partsVars
  <2>3. part = "keydata" => [Key!Next]_keydata
    BY DEF PartsNext, partsVars
  <2> QED BY <2>1, <2>2, <2>3, SettingsStepIInv, KeysStepType, KeysStepDevice, KeysStepAddress DEF KeysIInv
<1>3. Inv => SettingsKept
  BY SettingsIInvKept, KeysIInvKept DEF SettingsKept
<1> QED BY <1>1, <1>2, <1>3, PTL DEF PartsSpec

-----------------------------------------------------------------------------
(* VideoPath. *)

Modules == {"vdin0", "decoder", "amlvideo2.0", "vdetect.0", "ppmgr", "deinterlace", "amvideo", "videoqueue.0"}

LEMMA StagesAre ==
    /\ Path!Stage("vdin0") = 1 /\ Path!Stage("decoder") = 1
    /\ Path!Stage("amlvideo2.0") = 2 /\ Path!Stage("vdetect.0") = 3
    /\ Path!Stage("ppmgr") = 4 /\ Path!Stage("deinterlace") = 5
    /\ Path!Stage("amvideo") = 6 /\ Path!Stage("videoqueue.0") = 6
<1>1. DOMAIN Path!Stages = 1..6
  BY DEF Path!Stages
<1>2. ASSUME NEW n \in 1..6, NEW m \in Path!Stages[n] PROVE Path!Stage(m) = n
  <2>1. \A k \in 1..6 : m \in Path!Stages[k] => k = n
    BY <1>2 DEF Path!Stages
  <2> QED BY <1>1, <2>1 DEF Path!Stage
<1>3. /\ "vdin0" \in Path!Stages[1] /\ "decoder" \in Path!Stages[1]
      /\ "amlvideo2.0" \in Path!Stages[2] /\ "vdetect.0" \in Path!Stages[3]
      /\ "ppmgr" \in Path!Stages[4] /\ "deinterlace" \in Path!Stages[5]
      /\ "amvideo" \in Path!Stages[6] /\ "videoqueue.0" \in Path!Stages[6]
  BY DEF Path!Stages
<1> QED BY <1>2, <1>3

\* A sequence of modules from stage a to stage b, each once and in order.
Rises(s, a, b) ==
    /\ s \in Seq(Modules)
    /\ \A n \in 1..Len(s) : Path!Stage(s[n]) \in a..b
    /\ \A n \in 1..Len(s) - 1 : Path!Stage(s[n]) < Path!Stage(s[n + 1])

LEMMA RisesOn ==
    ASSUME NEW a \in Int, NEW b \in Int, NEW c \in Int, NEW d \in Int, b < c, a <= c, b <= d, 
           NEW s, NEW t, Rises(s, a, b), Rises(t, c, d)
    PROVE  /\ Rises(s \o t, a, d)
           /\ Len(s \o t) = Len(s) + Len(t)
           /\ ToSet(s \o t) = ToSet(s) \cup ToSet(t)
           /\ s # <<>> => (s \o t)[1] = s[1]
           /\ t # <<>> => (s \o t)[Len(s \o t)] = t[Len(t)]
<1> DEFINE u == s \o t
           m == Len(s)
           k == Len(t)
<1>1. /\ s \in Seq(Modules) /\ t \in Seq(Modules) /\ m \in Nat /\ k \in Nat
      /\ DOMAIN s = 1..m /\ DOMAIN t = 1..k
  BY LenProperties DEF Rises
<1>0. u \in Seq(Modules) /\ Len(u) = m + k
  BY <1>1, ConcatProperties
<1>2. /\ Len(u) = m + k
      /\ \A n \in 1..m + k : u[n] = IF n <= m THEN s[n] ELSE t[n - m]
  BY <1>1, ConcatProperties
<1>3. DOMAIN u = 1..m + k
  BY <1>0, LenProperties
<1> HIDE DEF u, m, k
<1>4. \A n \in 1..m : n \in 1..m + k /\ u[n] = s[n]
  BY <1>1, <1>2
<1>5. \A n \in 1..k : n + m \in 1..m + k /\ u[n + m] = t[n]
  BY <1>1, <1>2
<1>6. \A n \in 1..m + k : n \in 1..m \/ n - m \in 1..k
  BY <1>1
<1>7. ASSUME NEW n \in 1..m + k PROVE Path!Stage(u[n]) \in a..d
  <2>1. CASE n \in 1..m
    BY <1>4, <2>1 DEF Rises, m
  <2>2. CASE n - m \in 1..k
    <3>1. u[n] = t[n - m]
      BY <1>1, <1>5, <2>2
    <3> QED BY <2>2, <3>1 DEF Rises, k
  <2> QED BY <1>6, <2>1, <2>2
<1>8. ASSUME NEW n \in 1..m + k - 1 PROVE Path!Stage(u[n]) < Path!Stage(u[n + 1])
  <2>1. CASE n \in 1..m - 1
    <3>1. n \in 1..m /\ n + 1 \in 1..m
      BY <1>1, <2>1
    <3>2. u[n] = s[n] /\ u[n + 1] = s[n + 1]
      BY <1>4, <3>1
    <3> QED BY <2>1, <3>2 DEF Rises, m
  <2>2. CASE n = m
    <3>1. n \in 1..m /\ 1 \in 1..k
      BY <1>1, <2>2
    <3>2. u[n] = s[n] /\ u[n + 1] = t[1]
      BY <1>1, <1>4, <1>5, <2>2, <3>1
    <3>3. Path!Stage(s[n]) \in a..b /\ Path!Stage(t[1]) \in c..d
      BY <3>1 DEF Rises, m, k
    <3> QED BY <3>2, <3>3
  <2>3. CASE n - m \in 1..k - 1
    <3>1. n - m \in 1..k /\ (n - m) + 1 \in 1..k
      BY <1>1, <2>3
    <3>2. u[n] = t[n - m] /\ u[n + 1] = t[(n - m) + 1]
      BY <1>1, <1>5, <3>1
    <3> QED BY <2>3, <3>2 DEF Rises, k
  <2>4. n \in 1..m - 1 \/ n = m \/ n - m \in 1..k - 1
    BY <1>1
  <2> QED BY <2>1, <2>2, <2>3, <2>4
<1>9. ToSet(u) = ToSet(s) \cup ToSet(t)
  <2>1. ToSet(s) = {s[n] : n \in 1..m} /\ ToSet(t) = {t[n] : n \in 1..k} /\ ToSet(u) = {u[n] : n \in 1..m + k}
    BY <1>1, <1>3 DEF ToSet
  <2>2. ASSUME NEW n \in 1..m + k PROVE u[n] \in ToSet(s) \cup ToSet(t)
    <3>1. CASE n \in 1..m
      BY <1>4, <2>1, <3>1
    <3>2. CASE n - m \in 1..k
      <4>1. u[n] = t[n - m]
        BY <1>1, <1>5, <3>2
      <4> QED BY <2>1, <3>2, <4>1
    <3> QED BY <1>6, <3>1, <3>2
  <2>3. ASSUME NEW n \in 1..m PROVE s[n] \in ToSet(u)
    BY <1>4, <2>1
  <2>4. ASSUME NEW n \in 1..k PROVE t[n] \in ToSet(u)
    BY <1>5, <2>1
  <2> QED BY <2>1, <2>2, <2>3, <2>4
<1>10. s # <<>> => u[1] = s[1]
  <2>1. s # <<>> => 1 \in 1..m
    BY <1>1, EmptySeq DEF m
  <2> QED BY <1>4, <2>1
<1>11. t # <<>> => u[Len(u)] = t[k]
  <2>1. t # <<>> => k \in 1..k
    BY <1>1, EmptySeq DEF k
  <2>2. Len(u) = k + m
    BY <1>1, <1>2
  <2> QED BY <1>5, <2>1, <2>2
<1>12. Len(u) = m + k
  BY <1>2
<1>13. Rises(u, a, d)
  <2>1. \A n \in 1..Len(u) : Path!Stage(u[n]) \in a..d
    BY <1>7, <1>12
  <2>2. ASSUME NEW n \in 1..Len(u) - 1 PROVE Path!Stage(u[n]) < Path!Stage(u[n + 1])
    <3>1. n \in 1..m + k - 1
      BY <1>1, <1>12
    <3> QED BY <1>8, <3>1
  <2>3. u \in Seq(Modules)
    BY <1>0
  <2> QED BY <2>1, <2>2, <2>3 DEF Rises
<1> QED BY <1>9, <1>10, <1>11, <1>12, <1>13 DEF u, m, k

\* One module, or none.
LEMMA Piece ==
    /\ Rises(<<"vdin0">>, 1, 1) /\ Rises(<<"decoder">>, 1, 1)
    /\ Rises(<<"amlvideo2.0">>, 2, 2) /\ Rises(<<>>, 2, 2)
    /\ Rises(<<"vdetect.0">>, 3, 3) /\ Rises(<<>>, 3, 3)
    /\ Rises(<<"ppmgr">>, 4, 4)
    /\ Rises(<<"deinterlace">>, 5, 5) /\ Rises(<<>>, 5, 5)
    /\ Rises(<<"amvideo">>, 6, 6) /\ Rises(<<"videoqueue.0">>, 6, 6)
<1>1. Rises(<<"vdin0">>, 1, 1) /\ Rises(<<"decoder">>, 1, 1)
  BY StagesAre DEF Rises, Modules
<1>2. Rises(<<"amlvideo2.0">>, 2, 2) /\ Rises(<<"vdetect.0">>, 3, 3)
  BY StagesAre DEF Rises, Modules
<1>3. Rises(<<"ppmgr">>, 4, 4) /\ Rises(<<"deinterlace">>, 5, 5)
  BY StagesAre DEF Rises, Modules
<1>4. Rises(<<"amvideo">>, 6, 6) /\ Rises(<<"videoqueue.0">>, 6, 6)
  BY StagesAre DEF Rises, Modules
<1>5. Rises(<<>>, 2, 2) /\ Rises(<<>>, 3, 3) /\ Rises(<<>>, 5, 5)
  BY DEF Rises
<1> QED BY <1>1, <1>2, <1>3, <1>4, <1>5

LEMMA SetOf == ToSet(<<>>) = {} /\ \A m : ToSet(<<m>>) = {m}
  BY DEF ToSet

LEMMA FrontRises ==
    ASSUME NEW name
    PROVE  LET f == <<Path!Source(name)>> \o Path!If("amlvideo2" \in conf, <<"amlvideo2.0">>)
                      \o Path!If("vdetect" \in conf, <<"vdetect.0">>) IN
           Rises(f, 1, 3) /\ f # <<>> /\ Path!Stage(f[1]) = 1 /\ "deinterlace" \notin ToSet(f)
<1> DEFINE o == <<Path!Source(name)>>
           a == Path!If("amlvideo2" \in conf, <<"amlvideo2.0">>)
           v == Path!If("vdetect" \in conf, <<"vdetect.0">>)
<1>0. Len(o) = 1
  OBVIOUS
<1>1. Rises(o, 1, 1)
  BY Piece DEF Path!Source
<1>2. "deinterlace" \notin ToSet(o) /\ Path!Stage(o[1]) = 1
  BY SetOf, StagesAre DEF Path!Source
<1>3. Rises(a, 2, 2) /\ "deinterlace" \notin ToSet(a)
  <2>1. a = <<>> \/ a = <<"amlvideo2.0">>
    BY DEF Path!If
  <2> HIDE DEF a
  <2> QED BY <2>1, Piece, SetOf
<1>4. Rises(v, 3, 3) /\ "deinterlace" \notin ToSet(v)
  <2>1. v = <<>> \/ v = <<"vdetect.0">>
    BY DEF Path!If
  <2> HIDE DEF v
  <2> QED BY <2>1, Piece, SetOf
<1>5. o # <<>> /\ Len(a) \in Nat /\ Len(v) \in Nat
  BY <1>3, <1>4, LenProperties DEF Rises
<1> DEFINE oa == o \o a
           f == oa \o v
<1> HIDE DEF o, a, v
<1>6. Rises(oa, 1, 2)
  BY <1>1, <1>3, RisesOn
<1>7. Len(oa) = Len(o) + Len(a)
  BY <1>1, <1>3, RisesOn
<1>8. ToSet(oa) = ToSet(o) \cup ToSet(a)
  BY <1>1, <1>3, RisesOn
<1>9. oa[1] = o[1]
  BY <1>1, <1>3, <1>5, RisesOn
<1>10. oa # <<>> /\ Len(oa) \in Nat \ {0}
  BY <1>0, <1>5, <1>7
<1> HIDE DEF oa
<1>11. Rises(f, 1, 3)
  BY <1>4, <1>6, RisesOn
<1>12. Len(f) = Len(oa) + Len(v)
  BY <1>4, <1>6, RisesOn
<1>13. ToSet(f) = ToSet(oa) \cup ToSet(v)
  BY <1>4, <1>6, RisesOn
<1>14. f[1] = oa[1]
  BY <1>4, <1>6, <1>10, RisesOn
<1>15. f # <<>>
  BY <1>5, <1>10, <1>12
<1>16. Path!Stage(f[1]) = 1 /\ "deinterlace" \notin ToSet(f)
  BY <1>2, <1>3, <1>4, <1>8, <1>9, <1>13, <1>14
<1> QED BY <1>11, <1>15, <1>16 DEF o, a, v, oa

LEMMA EndRises ==
    ASSUME NEW name
    PROVE  LET e == IF "tunnel" \in conf /\ name = "tvpath"
                    THEN Path!If("backend" \notin conf, <<"deinterlace">>) \o <<"videoqueue.0">>
                    ELSE <<"ppmgr">> \o Path!If("backend" \notin conf, <<"deinterlace">>) \o <<"amvideo">> IN
           Rises(e, 4, 6) /\ e # <<>> /\ Path!Stage(e[Len(e)]) = 6 /\ ("deinterlace" \in ToSet(e) <=> "backend" \notin conf)
<1> DEFINE d == Path!If("backend" \notin conf, <<"deinterlace">>)
           p == <<"ppmgr">>
           q == <<"videoqueue.0">>
           r == <<"amvideo">>
<1>1. Rises(d, 5, 5) /\ ("deinterlace" \in ToSet(d) <=> "backend" \notin conf)
  <2>1. d = IF "backend" \notin conf THEN <<"deinterlace">> ELSE <<>>
    BY DEF Path!If
  <2> HIDE DEF d
  <2> QED BY <2>1, Piece, SetOf
<1>2. Len(d) \in Nat
  BY <1>1, LenProperties DEF Rises
<1>3. Rises(p, 4, 4) /\ Rises(q, 6, 6) /\ Rises(r, 6, 6)
  BY Piece
<1>4. ToSet(p) = {"ppmgr"} /\ ToSet(q) = {"videoqueue.0"} /\ ToSet(r) = {"amvideo"}
  BY SetOf
<1>5. Len(p) = 1 /\ Len(q) = 1 /\ Len(r) = 1
  OBVIOUS
<1>9. q # <<>> /\ r # <<>>
  OBVIOUS
<1>6. Path!Stage(q[1]) = 6 /\ Path!Stage(r[1]) = 6
  BY StagesAre
<1> DEFINE dq == d \o q
           pd == p \o d
           pdr == pd \o r
<1> HIDE DEF d, p, q, r
<1>7. CASE "tunnel" \in conf /\ name = "tvpath"
  <2>1. Rises(dq, 5, 6)
    BY <1>1, <1>3, RisesOn
  <2>3. ToSet(dq) = ToSet(d) \cup ToSet(q)
    BY <1>1, <1>3, RisesOn
  <2>4. Len(dq) = Len(d) + Len(q)
    BY <1>1, <1>3, RisesOn
  <2>5. dq[Len(dq)] = q[1]
    <3>1. dq[Len(dq)] = q[Len(q)]
      BY <1>1, <1>3, <1>9, RisesOn
    <3> QED BY <1>5, <3>1
  <2>6. dq # <<>>
    BY <1>2, <1>5, <2>4
  <2> HIDE DEF dq
  <2>2. Rises(dq, 4, 6)
    BY <2>1 DEF Rises
  <2>7. "deinterlace" \in ToSet(dq) <=> "backend" \notin conf
    BY <1>1, <1>4, <2>3
  <2> QED BY <1>6, <1>7, <2>2, <2>5, <2>6, <2>7 DEF dq, d, q
<1>8. CASE ~("tunnel" \in conf /\ name = "tvpath")
  <2>1. Rises(pd, 4, 5)
    BY <1>1, <1>3, RisesOn
  <2>2. ToSet(pd) = ToSet(p) \cup ToSet(d)
    BY <1>1, <1>3, RisesOn
  <2>3. Len(pd) = Len(p) + Len(d)
    BY <1>1, <1>3, RisesOn
  <2> HIDE DEF pd
  <2>4. Rises(pdr, 4, 6)
    BY <1>3, <2>1, RisesOn
  <2>5. ToSet(pdr) = ToSet(pd) \cup ToSet(r)
    BY <1>3, <2>1, RisesOn
  <2>6. Len(pdr) = Len(pd) + Len(r)
    BY <1>3, <2>1, RisesOn
  <2>7. pdr[Len(pdr)] = r[1]
    <3>1. pdr[Len(pdr)] = r[Len(r)]
      BY <1>3, <1>9, <2>1, RisesOn
    <3> QED BY <1>5, <3>1
  <2>8. pdr # <<>>
    BY <1>2, <1>5, <2>3, <2>6
  <2> HIDE DEF pdr
  <2>9. "deinterlace" \in ToSet(pdr) <=> "backend" \notin conf
    BY <1>1, <1>4, <2>2, <2>5
  <2> QED BY <1>6, <1>8, <2>4, <2>7, <2>8, <2>9 DEF pdr, pd, d, p, r
<1> QED BY <1>7, <1>8

LEMMA BuiltThrough == ASSUME NEW name PROVE Path!Through(Path!Built(name))
<1> DEFINE f == <<Path!Source(name)>> \o Path!If("amlvideo2" \in conf, <<"amlvideo2.0">>)
                  \o Path!If("vdetect" \in conf, <<"vdetect.0">>)
           e == IF "tunnel" \in conf /\ name = "tvpath"
                THEN Path!If("backend" \notin conf, <<"deinterlace">>) \o <<"videoqueue.0">>
                ELSE <<"ppmgr">> \o Path!If("backend" \notin conf, <<"deinterlace">>) \o <<"amvideo">>
           u == f \o e
<1>1. Path!Built(name) = u
  BY DEF Path!Built
<1>2. Rises(f, 1, 3) /\ f # <<>> /\ Path!Stage(f[1]) = 1 /\ "deinterlace" \notin ToSet(f)
  BY FrontRises
<1>3. Rises(e, 4, 6) /\ e # <<>> /\ Path!Stage(e[Len(e)]) = 6 /\ ("deinterlace" \in ToSet(e) <=> "backend" \notin conf)
  BY EndRises
<1> HIDE DEF f, e
<1>4. Rises(u, 1, 6)
  BY <1>2, <1>3, RisesOn
<1>5. Len(u) = Len(f) + Len(e)
  BY <1>2, <1>3, RisesOn
<1>6. ToSet(u) = ToSet(f) \cup ToSet(e)
  BY <1>2, <1>3, RisesOn
<1>7. u[1] = f[1]
  BY <1>2, <1>3, RisesOn
<1>8. u[Len(u)] = e[Len(e)]
  BY <1>2, <1>3, RisesOn
<1>9. u # <<>>
  <2>1. Len(f) \in Nat /\ Len(e) \in Nat \ {0} /\ Len(<<>>) = 0
    BY <1>2, <1>3, LenProperties, EmptySeq DEF Rises
  <2> HIDE DEF u
  <2> QED BY <1>5, <2>1
<1> HIDE DEF u
<1>10. ("deinterlace" \in ToSet(u)) # ("backend" \in conf)
  BY <1>2, <1>3, <1>6
<1>11. \A n \in 1..Len(u) - 1 : Path!Stage(u[n]) < Path!Stage(u[n + 1])
  BY <1>4 DEF Rises
<1>12. Path!Stage(u[1]) = 1 /\ Path!Stage(u[Len(u)]) = 6
  BY <1>2, <1>3, <1>7, <1>8
<1>13. Path!Through(u)
  <2> DEFINE In == ("deinterlace" \in ToSet(u)) # ("backend" \in conf)
             Up == \A n \in 1..Len(u) - 1 : Path!Stage(u[n]) < Path!Stage(u[n + 1])
  <2>1. In /\ Up
    BY <1>10, <1>11
  <2>2. u # <<>> /\ Path!Stage(u[1]) = 1 /\ Path!Stage(u[Len(u)]) = 6 /\ Up /\ In => Path!Through(u)
    BY DEF Path!Through, Path!ToSet, ToSet
  <2> HIDE DEF In, Up
  <2> QED BY <1>9, <1>12, <2>1, <2>2
<1> QED BY <1>1, <1>13

\* What is left of the job of opening, from its start to its end.
Left4 == <<<<"rm", "tvpath">>, <<"add", "tvpath">>, <<"rm", "default">>, <<"add", "default">>>>
Left3 == <<<<"add", "tvpath">>, <<"rm", "default">>, <<"add", "default">>>>
Left2 == <<<<"rm", "default">>, <<"add", "default">>>>
Left1 == <<<<"add", "default">>>>

LEMMA LeftGoes ==
    /\ Tail(Left4) = Left3 /\ Tail(Left3) = Left2 /\ Tail(Left2) = Left1 /\ Tail(Left1) = <<>>
    /\ SubSeq(Left4, 3, Len(Left4)) = Left2 /\ SubSeq(Left2, 3, Len(Left2)) = <<>>
<1>1. Tail(Left4) = Left3 /\ Tail(Left3) = Left2 /\ Tail(Left2) = Left1 /\ Tail(Left1) = <<>>
  BY DEF Left4, Left3, Left2, Left1
<1>2. SubSeq(Left4, 3, Len(Left4)) = Left2
  <2> DEFINE s == SubSeq(Left4, 3, Len(Left4))
             S == {"rm", "add"} \X {"tvpath", "default"}
  <2>1. Left4 \in Seq(S) /\ Len(Left4) = 4 /\ Left4[3] = <<"rm", "default">> /\ Left4[4] = <<"add", "default">>
    BY DEF Left4
  <2>2. Left2 \in Seq(S) /\ Len(Left2) = 2 /\ Left2[1] = <<"rm", "default">> /\ Left2[2] = <<"add", "default">>
    BY DEF Left2
  <2> HIDE DEF S
  <2>3. s \in Seq(S) /\ Len(s) = 2 /\ s[1] = Left4[3] /\ s[2] = Left4[4]
    BY <2>1, SubSeqProperties
  <2> HIDE DEF s
  <2>0. s[1] = Left2[1] /\ s[2] = Left2[2]
    BY <2>1, <2>2, <2>3
  <2>4. ASSUME NEW n \in 1..Len(s) PROVE s[n] = Left2[n]
    <3>1. n = 1 \/ n = 2
      BY <2>3
    <3> QED BY <2>0, <3>1
  <2>5. s = Left2
    BY <2>2, <2>3, <2>4, SeqEqual
  <2> QED BY <2>5 DEF s
<1>3. SubSeq(Left2, 3, Len(Left2)) = <<>>
  BY DEF Left2
<1> QED BY <1>1, <1>2, <1>3

LEMMA LeftFirst ==
    /\ Left4[1] = <<"rm", "tvpath">> /\ Left3[1] = <<"add", "tvpath">>
    /\ Left2[1] = <<"rm", "default">> /\ Left1[1] = <<"add", "default">>
  BY DEF Left4, Left3, Left2, Left1

LEMMA LeftDiffer ==
    /\ Left4 # <<>> /\ Left3 # <<>> /\ Left2 # <<>> /\ Left1 # <<>>
    /\ Left4 \notin {Left3, Left2, Left1} /\ Left3 \notin {Left2, Left1} /\ Left2 # Left1
  BY DEF Left4, Left3, Left2, Left1

\* A job that was not refused anything has built what it is past.
PathIInv ==
    /\ DOMAIN paths = Path!Names
    /\ starts \in Nat
    /\ building \in {Left4, Left3, Left2, Left1, <<>>}
    /\ paths["tvpath"] \in {<<>>, Path!Built("tvpath")}
    /\ paths["default"] \in Foreign \cup {<<>>, Path!Built("default")}
    /\ building = <<>> /\ ~refused /\ whole => paths["default"] = Path!Built("default")
    /\ building \in {Left2, Left1, <<>>} /\ ~refused /\ starts = 0 => paths["tvpath"] = Path!Built("tvpath")

LEMMA PathInitIInv == Path!Init => PathIInv
<1> SUFFICES ASSUME Path!Init PROVE PathIInv
  OBVIOUS
<1>1. building = Left4 /\ starts = 0
  BY DEF Path!Init, Left4
<1>2. DOMAIN paths = Path!Names /\ paths["tvpath"] = <<>> /\ paths["default"] \in Foreign
  BY DEF Path!Init, Path!Names
<1> QED BY <1>1, <1>2, LeftDiffer DEF PathIInv

\* A whole path is one of the set's own.
LEMMA CompleteBuilt == PathIInv /\ Path!Complete => paths["default"] = Path!Built("default")
<1> SUFFICES ASSUME PathIInv, Path!Complete PROVE paths["default"] = Path!Built("default")
  OBVIOUS
<1>1. Path!ToSet(paths["default"]) = ToSet(paths["default"])
  BY DEF Path!ToSet, ToSet
<1>2. {"decoder", "deinterlace", "ppmgr"} \subseteq ToSet(paths["default"])
  BY <1>1 DEF Path!Complete
<1>3. paths["default"] \notin Foreign
  BY <1>2, PathAssumption
<1>4. paths["default"] # <<>>
  BY <1>2, SetOf
<1> QED BY <1>3, <1>4 DEF PathIInv

LEMMA PathStepIInv == PathIInv /\ [Path!Next]_path => PathIInv'
<1> SUFFICES ASSUME PathIInv, [Path!Next]_path PROVE PathIInv'
  OBVIOUS
<1>1. conf' = conf
  BY DEF Path!Next, Path!StartDtv, Path!RemovePath, Path!AddPath, Path!Play, Path!Hold, Path!Rebuild, path
<1>2. \A name : Path!Built(name)' = Path!Built(name)
  BY <1>1 DEF Path!Built, Path!If, Path!Source
<1> DEFINE T == Path!Built("tvpath")
           D == Path!Built("default")
<1>3. T' = T /\ D' = D
  BY <1>2
<1> HIDE DEF T, D
<1>4. /\ DOMAIN paths = Path!Names /\ starts \in Nat
      /\ building \in {Left4, Left3, Left2, Left1, <<>>}
      /\ paths["tvpath"] \in {<<>>, T} /\ paths["default"] \in Foreign \cup {<<>>, D}
      /\ building = <<>> /\ ~refused /\ whole => paths["default"] = D
      /\ building \in {Left2, Left1, <<>>} /\ ~refused /\ starts = 0 => paths["tvpath"] = T
  BY DEF PathIInv, T, D
<1> DEFINE Kept == /\ DOMAIN paths' = Path!Names /\ starts' \in Nat
                   /\ building' \in {Left4, Left3, Left2, Left1, <<>>}
                   /\ paths'["tvpath"] \in {<<>>, T} /\ paths'["default"] \in Foreign \cup {<<>>, D}
                   /\ building' = <<>> /\ ~refused' /\ whole' => paths'["default"] = D
                   /\ building' \in {Left2, Left1, <<>>} /\ ~refused' /\ starts' = 0 => paths'["tvpath"] = T
<1>5. SUFFICES Kept
  BY <1>2 DEF PathIInv, T, D, Left4, Left3, Left2, Left1
<1>6. "tvpath" \in Path!Names /\ "default" \in Path!Names
  BY DEF Path!Names
<1>7. CASE Path!StartDtv
  <2>1. building = <<>> /\ starts' = starts + 1 /\ paths' = paths
    BY <1>7 DEF Path!StartDtv
  <2>2. CASE Path!Complete
    <3>1. paths["default"] = D
      BY <2>2, CompleteBuilt DEF D
    <3>2. building' = <<>>
      BY <1>7, <2>2 DEF Path!StartDtv
    <3> QED BY <1>4, <2>1, <3>1, <3>2
  <2>3. CASE ~Path!Complete
    <3>1. building' = Left2
      BY <1>7, <2>3 DEF Path!StartDtv, Left2
    <3> QED BY <1>4, <2>1, <3>1, LeftDiffer
  <2> QED BY <2>2, <2>3
<1>8. ASSUME NEW name \in {"tvpath", "default"}, Path!RemovePath(name) PROVE Kept
  <2>1. starts' = starts /\ whole' = whole /\ building # <<>> /\ building[1] = <<"rm", name>>
    BY <1>8 DEF Path!RemovePath
  <2>2. \/ name = "tvpath" /\ building = Left4
        \/ name = "default" /\ building = Left2
    BY <1>4, <2>1, LeftFirst
  <2>3. \/ /\ paths' = [paths EXCEPT ![name] = <<>>]
           /\ building' = Tail(building) /\ refused' = refused
        \/ /\ building' = SubSeq(building, 3, Len(building)) /\ refused' = TRUE
           /\ paths' = paths
    BY <1>8 DEF Path!RemovePath
  <2>4. CASE name = "tvpath" /\ building = Left4
    <3>1. building' \in {Left3, Left2} /\ (building' = Left3 \/ refused' = TRUE)
      BY <2>3, <2>4, LeftGoes
    <3>2. /\ paths'["tvpath"] \in {<<>>, paths["tvpath"]} /\ paths'["default"] = paths["default"]
          /\ DOMAIN paths' = DOMAIN paths
      BY <1>4, <1>6, <2>3, <2>4
    <3> QED BY <1>4, <2>1, <3>1, <3>2, LeftDiffer
  <2>5. CASE name = "default" /\ building = Left2
    <3>1. building' \in {Left1, <<>>} /\ (building' = Left1 \/ refused' = TRUE)
      BY <2>3, <2>5, LeftGoes
    <3>0. refused => refused'
      BY <2>3
    <3>2. /\ paths'["default"] \in {<<>>, paths["default"]} /\ paths'["tvpath"] = paths["tvpath"]
          /\ DOMAIN paths' = DOMAIN paths
      BY <1>4, <1>6, <2>3, <2>5
    <3> QED BY <1>4, <2>1, <2>5, <3>0, <3>1, <3>2, LeftDiffer
  <2> QED BY <2>2, <2>4, <2>5
<1>9. ASSUME NEW name \in {"tvpath", "default"}, Path!AddPath(name) PROVE Kept
  <2>1. /\ starts' = starts /\ whole' = whole /\ building # <<>> /\ building[1] = <<"add", name>>
        /\ building' = Tail(building)
    BY <1>9 DEF Path!AddPath
  <2>2. \/ name = "tvpath" /\ building = Left3
        \/ name = "default" /\ building = Left1
    BY <1>4, <2>1, LeftFirst
  <2> DEFINE N(n) == IF n = name THEN Path!Built(name)
                     ELSE IF n = "dvhdmiin" /\ name = "tvpath" /\ "tunnel" \in conf
                          THEN <<"dv_vdin", "videoqueue.0">> ELSE paths[n]
  <2>3. CASE name = "tvpath" /\ building = Left3
    <3>1. building' = Left2
      BY <2>1, <2>3, LeftGoes
    <3>2. paths' = [n \in Path!Names |-> N(n)] /\ refused' = refused
      BY <1>9, <2>3 DEF Path!AddPath, Path!Refusable
    <3>3. DOMAIN paths' = Path!Names /\ paths'["tvpath"] = N("tvpath") /\ paths'["default"] = N("default")
      BY <1>6, <3>2
    <3>4. N("tvpath") = T /\ N("default") = paths["default"]
      BY <2>3 DEF T
    <3> HIDE DEF N
    <3> QED BY <1>4, <2>1, <3>1, <3>3, <3>4, LeftDiffer
  <2>4. CASE name = "default" /\ building = Left1
    <3>1. building' = <<>>
      BY <2>1, <2>4, LeftGoes
    <3>2. \/ refused' = TRUE /\ paths' = paths
          \/ paths' = [n \in Path!Names |-> N(n)] /\ refused' = refused
      BY <1>9 DEF Path!AddPath
    <3>3. CASE refused' = TRUE /\ paths' = paths
      BY <1>4, <2>1, <3>1, <3>3, LeftDiffer
    <3>4. CASE paths' = [n \in Path!Names |-> N(n)] /\ refused' = refused
      <4>1. DOMAIN paths' = Path!Names /\ paths'["tvpath"] = N("tvpath") /\ paths'["default"] = N("default")
        BY <1>6, <3>4
      <4>2. N("default") = D /\ N("tvpath") = paths["tvpath"]
        BY <2>4 DEF D
      <4> HIDE DEF N
      <4> QED BY <1>4, <2>1, <2>4, <3>1, <3>4, <4>1, <4>2, LeftDiffer
    <3> QED BY <3>2, <3>3, <3>4
  <2> QED BY <2>2, <2>3, <2>4
<1>10. ASSUME NEW new \in Foreign, Path!Rebuild(new) PROVE Kept
  <2>1. /\ paths' = [paths EXCEPT !["default"] = new] /\ whole' = FALSE
        /\ building' = building /\ refused' = refused /\ starts' = starts
    BY <1>10 DEF Path!Rebuild
  <2>2. DOMAIN paths' = DOMAIN paths /\ paths'["default"] = new /\ paths'["tvpath"] = paths["tvpath"]
    BY <1>4, <1>6, <2>1
  <2> QED BY <1>4, <2>1, <2>2
<1>11. CASE UNCHANGED <<paths, building, refused, whole, starts>>
  BY <1>4, <1>11
<1> QED
  BY <1>7, <1>8, <1>9, <1>10, <1>11 DEF Path!Next, Path!Play, Path!Hold, path

LEMMA PathIInvFits == PathIInv => Path!FramesComeThrough
<1> SUFFICES ASSUME PathIInv, building = <<>>, ~refused
             PROVE  /\ whole => Path!Through(paths["default"])
                    /\ starts = 0 => Path!Through(paths["tvpath"])
                    /\ paths["tvpath"] # <<>> => Path!Through(paths["tvpath"])
  BY DEF Path!FramesComeThrough
<1>1. Path!Through(Path!Built("tvpath")) /\ Path!Through(Path!Built("default"))
  BY BuiltThrough
<1> QED BY <1>1 DEF PathIInv

-----------------------------------------------------------------------------
(* DisplayMode. *)

\* The greatest of a set of numbers is one of them.
LEMMA BestIs ==
    ASSUME NEW S, S \subseteq Int, IsFiniteSet(S), S # {}
    PROVE  Display!Best(S) \in S
<1> DEFINE Above(x) == {z \in S : x < z}
           Sizes == {Cardinality(Above(x)) : x \in S}
<1>1. ASSUME NEW x \in S PROVE IsFiniteSet(Above(x)) /\ Cardinality(Above(x)) \in Nat
  <2>1. Above(x) \in SUBSET S
    OBVIOUS
  <2> QED BY <2>1, FS_Subset, FS_CardinalityType
<1>2. Sizes \subseteq Nat /\ Sizes # {}
  BY <1>1
<1>3. PICK least \in Sizes : \A n \in Sizes : ~ <<n, least>> \in OpToRel(<, Nat)
  BY <1>2, WFMin, NatLessThanWellFounded
<1>4. PICK x \in S : least = Cardinality(Above(x))
  OBVIOUS
<1>5. ASSUME NEW y \in S, x < y PROVE FALSE
  <2>1. Above(y) \in SUBSET Above(x) /\ y \in Above(x) /\ y \notin Above(y)
    <3>1. x \in Int /\ y \in Int /\ x < y
      BY <1>5
    <3>2. \A z \in S : z \in Int /\ (y < z => x < z)
      BY <3>1
    <3>3. ~ (y < y)
      BY <3>1
    <3>4. y \in Above(x)
      BY <3>1
    <3> QED BY <3>2, <3>3, <3>4
  <2>2. Above(x) # Above(y)
    BY <2>1
  <2>3. Cardinality(Above(y)) <= Cardinality(Above(x)) /\ Cardinality(Above(x)) # Cardinality(Above(y))
    <3> HIDE DEF Above
    <3> QED BY <1>1, <2>1, <2>2, FS_Subset
  <2>4. Cardinality(Above(y)) \in Sizes /\ Cardinality(Above(y)) \in Nat /\ least \in Nat
    BY <1>1, <1>4
  <2>5. Cardinality(Above(y)) < least
    <3> HIDE DEF Above
    <3> QED BY <1>4, <2>3, <2>4
  <2>6. <<Cardinality(Above(y)), least>> \in OpToRel(<, Nat)
    BY <2>4, <2>5 DEF OpToRel
  <2> QED BY <1>3, <2>4, <2>6
<1>6. ASSUME NEW y \in S PROVE y <= x
  <2>1. x \in Int /\ y \in Int /\ ~ (x < y)
    BY <1>5
  <2> QED BY <2>1
<1> QED BY <1>6 DEF Display!Best

-----------------------------------------------------------------------------
\* The decoder's format for what is known of an analog channel.
LEMMA FormatOfNtsc ==
    ASSUME NEW vfmt, NEW std, vfmt \cap {"PAL", "NTSC", "SECAM"} = {"NTSC"}
    PROVE  Display!stdEnumToCvbsFmt(vfmt, std) \in {"NTSC_443", "NTSC_M"}
  BY DEF Display!stdEnumToCvbsFmt

LEMMA FormatOfSecam ==
    ASSUME NEW vfmt, NEW std, vfmt \cap {"PAL", "NTSC", "SECAM"} = {"SECAM"}
    PROVE  Display!stdEnumToCvbsFmt(vfmt, std) = "SECAM"
<1>1. {"SECAM"} # {"PAL"} /\ {"SECAM"} # {"NTSC"}
  OBVIOUS
<1> QED BY <1>1 DEF Display!stdEnumToCvbsFmt

LEMMA FormatOfPal ==
    ASSUME NEW vfmt, NEW std, vfmt \cap {"PAL", "NTSC", "SECAM"} = {"PAL"}
    PROVE  /\ std \cap {"PAL_M", "NTSC_M"} = {} => Display!stdEnumToCvbsFmt(vfmt, std) = "PAL_I"
           /\ std \cap {"PAL_M", "NTSC_M"} # {} =>
                /\ vfmt \ {"PAL", "NTSC", "SECAM"} = {"PAL_60"} => Display!stdEnumToCvbsFmt(vfmt, std) = "PAL_60"
                /\ vfmt \ {"PAL", "NTSC", "SECAM"} = {"PAL_Nc"} => Display!stdEnumToCvbsFmt(vfmt, std) = "PAL_CN"
                /\ vfmt \ {"PAL", "NTSC", "SECAM"} = {"PAL_M"} => Display!stdEnumToCvbsFmt(vfmt, std) = "PAL_M"
<1>1. {"PAL"} # {"NTSC"} /\ {"PAL_60"} # {"PAL_Nc"} /\ {"PAL_M"} # {"PAL_Nc"} /\ {"PAL_M"} # {"PAL_60"}
  OBVIOUS
<1>2. vfmt \ (vfmt \cap {"PAL", "NTSC", "SECAM"}) = vfmt \ {"PAL", "NTSC", "SECAM"}
  OBVIOUS
<1>3. {"PAL_M"} \cup {"NTSC_M"} = {"PAL_M", "NTSC_M"}
  OBVIOUS
<1> DEFINE lines == vfmt \ {"PAL", "NTSC", "SECAM"}
<1>4. Display!stdEnumToCvbsFmt(vfmt, std) =
        IF std \cap {"PAL_M", "NTSC_M"} # {}
        THEN CASE lines = {"PAL_60"} -> "PAL_60" [] lines = {"PAL_Nc"} -> "PAL_CN"
               [] lines \in {Display!PAL_DK, Display!PAL_BG, Display!PAL_I, Display!PAL_M, Display!NTSC_M} -> "PAL_M"
               [] OTHER -> "PAL_I"
        ELSE "PAL_I"
  BY <1>1, <1>2, <1>3 DEF Display!stdEnumToCvbsFmt, Display!PAL_M, Display!NTSC_M
<1> HIDE DEF lines
<1>5. Display!PAL_M = {"PAL_M"}
  BY DEF Display!PAL_M
<1>6. lines \in {{"PAL_60"}, {"PAL_Nc"}} =>
        lines \notin {Display!PAL_DK, Display!PAL_BG, Display!PAL_I, Display!PAL_M, Display!NTSC_M}
  <2>1. "PAL_60" \in lines \/ "PAL_Nc" \in lines
        => lines \notin {Display!PAL_DK, Display!PAL_BG, Display!PAL_I, Display!PAL_M, Display!NTSC_M}
    BY DEF Display!PAL_DK, Display!PAL_BG, Display!PAL_I, Display!PAL_M, Display!NTSC_M
  <2> QED BY <2>1
<1>7. lines = {"PAL_60"} => Display!stdEnumToCvbsFmt(vfmt, std) = IF std \cap {"PAL_M", "NTSC_M"} # {} THEN "PAL_60" ELSE "PAL_I"
  BY <1>1, <1>4, <1>6
<1>8. lines = {"PAL_Nc"} => Display!stdEnumToCvbsFmt(vfmt, std) = IF std \cap {"PAL_M", "NTSC_M"} # {} THEN "PAL_CN" ELSE "PAL_I"
  BY <1>1, <1>4, <1>6
<1>9. lines = {"PAL_M"} => Display!stdEnumToCvbsFmt(vfmt, std) = IF std \cap {"PAL_M", "NTSC_M"} # {} THEN "PAL_M" ELSE "PAL_I"
  BY <1>1, <1>4, <1>5
<1> QED BY <1>4, <1>7, <1>8, <1>9 DEF lines

Fifty(fmt) == fmt \in {"PAL_I", "NTSC_50", "PAL_CN", "SECAM"}

LEMMA FiftyHzIs == \A fmt : <<"CVBS", fmt, "i", 50>> \in Display!FiftyHz <=> Fifty(fmt)
  BY DEF Display!FiftyHz, Fifty

\* A channel's picture is at fifty fields where its format says so.
LEMMA ChannelAtRate ==
    ASSUME NEW channel \in Display!Channels
    PROVE  Display!Fields(channel[1]) = IF Fifty(Display!stdEnumToCvbsFmt(channel[1], channel[2])) THEN 50 ELSE 60
<1> DEFINE fmt == Display!stdEnumToCvbsFmt(channel[1], channel[2])
           rate == Display!Fields(channel[1])
<1>1. CASE \E v \in {"PAL", "NTSC", "SECAM"}, a \in Display!Audios :
             channel = <<Display!enumToStdAndColor(v, a), Display!enumToStdAndColor(v, a)>>
  <2>1. PICK v \in {"PAL", "NTSC", "SECAM"}, a \in Display!Audios :
             channel = <<Display!enumToStdAndColor(v, a), Display!enumToStdAndColor(v, a)>>
    BY <1>1
  <2> DEFINE name == Display!enumToStdAndColor(v, a)
             bits == Display!SoundBits(v, a)
  <2>2. name = {v} \cup bits
    BY DEF Display!enumToStdAndColor, Display!Colour
  <2>3. bits \cap {"PAL", "NTSC", "SECAM", "PAL_60"} = {}
    BY DEF Display!SoundBits, Display!PAL_DK, Display!PAL_BG, Display!PAL_I, Display!PAL_M, Display!NTSC_M,
           Display!SECAM_DK, Display!SECAM_L, Display!SECAM_LC
  <2>4. name \cap {"PAL", "NTSC", "SECAM"} = {v}
    BY <2>2, <2>3
  <2>5. CASE v = "NTSC"
    <3>1. fmt \in {"NTSC_443", "NTSC_M"}
      BY <2>1, <2>4, <2>5, FormatOfNtsc
    <3>2. rate = 60
      BY <2>1, <2>2, <2>5 DEF Display!Fields
    <3> QED BY <3>1, <3>2 DEF Fifty
  <2>6. CASE v = "SECAM"
    <3>1. fmt = "SECAM"
      BY <2>1, <2>4, <2>6, FormatOfSecam
    <3>2. rate = 50
      BY <2>1, <2>2, <2>3, <2>6 DEF Display!Fields
    <3> QED BY <3>1, <3>2 DEF Fifty
  <2>7. CASE v = "PAL" /\ a = "M"
    <3>1. bits = {"PAL_M"}
      BY <2>7 DEF Display!SoundBits, Display!PAL_M
    <3>2. name = {"PAL", "PAL_M"} /\ name \cap {"PAL_M", "NTSC_M"} # {} /\ name \ {"PAL", "NTSC", "SECAM"} = {"PAL_M"}
      BY <2>2, <2>7, <3>1
    <3>3. fmt = "PAL_M"
      BY <2>1, <2>4, <2>7, <3>2, FormatOfPal
    <3>4. rate = 60
      BY <2>1, <3>2 DEF Display!Fields
    <3> QED BY <3>3, <3>4 DEF Fifty
  <2>8. CASE v = "PAL" /\ a # "M"
    <3>1. bits \cap {"PAL_M", "NTSC_M"} = {}
      BY <2>8 DEF Display!SoundBits, Display!PAL_DK, Display!PAL_BG, Display!PAL_I
    <3>2. name \cap {"PAL_M", "NTSC_M"} = {} /\ name \cap {"PAL_M", "PAL_60"} = {} /\ "NTSC" \notin name
      BY <2>2, <2>3, <2>8, <3>1
    <3>3. fmt = "PAL_I"
      BY <2>1, <2>4, <2>8, <3>2, FormatOfPal
    <3>4. rate = 50
      BY <2>1, <3>2 DEF Display!Fields
    <3> QED BY <3>3, <3>4 DEF Fifty
  <2> QED BY <2>5, <2>6, <2>7, <2>8
<1>2. CASE \E lines \in {"PAL_60", "PAL_Nc"} : channel = <<{"PAL", lines}, Display!enumToStdAndColor("PAL", "M")>>
  <2>1. PICK lines \in {"PAL_60", "PAL_Nc"} : channel = <<{"PAL", lines}, Display!enumToStdAndColor("PAL", "M")>>
    BY <1>2
  <2>2. channel[1] \cap {"PAL", "NTSC", "SECAM"} = {"PAL"} /\ channel[1] \ {"PAL", "NTSC", "SECAM"} = {lines}
    BY <2>1
  <2>3. channel[2] \cap {"PAL_M", "NTSC_M"} # {}
    BY <2>1 DEF Display!enumToStdAndColor, Display!SoundBits, Display!PAL_M
  <2>4. fmt = IF lines = "PAL_60" THEN "PAL_60" ELSE "PAL_CN"
    BY <2>2, <2>3, FormatOfPal
  <2>5. rate = IF lines = "PAL_60" THEN 60 ELSE 50
    BY <2>1 DEF Display!Fields
  <2> QED BY <2>4, <2>5 DEF Fifty
<1>3. CASE \E a \in Display!Audios : channel = <<{"NTSC", "NTSC_443"}, Display!enumToStdAndColor("NTSC", a)>>
  <2>1. channel[1] = {"NTSC", "NTSC_443"}
    BY <1>3
  <2>2. fmt \in {"NTSC_443", "NTSC_M"}
    BY <2>1, FormatOfNtsc
  <2>3. rate = 60
    BY <2>1 DEF Display!Fields
  <2> QED BY <2>2, <2>3 DEF Fifty
<1> QED
  <2>1. Display!Videos \ {"AUTO"} = {"PAL", "NTSC", "SECAM"}
    BY DEF Display!Videos
  <2> QED BY <1>1, <1>2, <1>3, <2>1 DEF Display!Channels

-----------------------------------------------------------------------------
At(m, freq) == [m EXCEPT !.freq = freq]

\* The mode that the rate alone picks.
ByRate(freq) ==
    [lines |-> Display!Best(Display!Zero({m.lines : m \in {n \in sink.modes : Display!Mentions(n, freq)}})),
     scan |-> "p", freq |-> freq]

Rates(m) == {n.freq : n \in {o \in sink.modes : o.lines = m.lines /\ o.scan = m.scan}}

LEMMA ModeAt ==
    ASSUME NEW m \in Modes, NEW freq \in Nat
    PROVE  /\ At(m, freq) \in Modes
           /\ At(m, freq).lines = m.lines /\ At(m, freq).scan = m.scan /\ At(m, freq).freq = freq
           /\ \A f : At(At(m, f), freq) = At(m, freq)
           /\ m.freq = freq => At(m, freq) = m
<1>1. /\ At(m, freq) \in Modes
      /\ At(m, freq).lines = m.lines /\ At(m, freq).scan = m.scan /\ At(m, freq).freq = freq
  BY DEF At, Modes
<1>2. \A f : At(At(m, f), freq) = At(m, freq)
  BY DEF At, Modes
<1>3. m.freq = freq => At(m, freq) = m
  BY DEF At, Modes
<1> QED BY <1>1, <1>2, <1>3

LEMMA FiniteOf ==
    ASSUME NEW T, T \subseteq Modes, IsFiniteSet(T)
    PROVE  /\ IsFiniteSet({m.freq : m \in T}) /\ {m.freq : m \in T} \subseteq Nat
           /\ IsFiniteSet({m.lines : m \in T}) /\ {m.lines : m \in T} \subseteq Nat
<1>1. {m.freq : m \in T} \subseteq Nat /\ {m.lines : m \in T} \subseteq Nat
  BY DEF Modes
<1>2. IsFiniteSet({m.freq : m \in T})
  <2> DEFINE f == [m \in T |-> m.freq]
  <2>1. f \in Surjection(T, {m.freq : m \in T})
    BY DEF Surjection
  <2> QED BY <2>1, FS_Surjection
<1>3. IsFiniteSet({m.lines : m \in T})
  <2> DEFINE f == [m \in T |-> m.lines]
  <2>1. f \in Surjection(T, {m.lines : m \in T})
    BY DEF Surjection
  <2> QED BY <2>1, FS_Surjection
<1> QED BY <1>1, <1>2, <1>3

LEMMA BestOf ==
    ASSUME NEW S, S \subseteq Nat, IsFiniteSet(S)
    PROVE  Display!Best(Display!Zero(S)) \in Nat /\ (S # {} => Display!Best(Display!Zero(S)) \in S)
<1>1. CASE S = {}
  <2>1. Display!Zero(S) = {0} /\ IsFiniteSet({0})
    BY <1>1, FS_Singleton DEF Display!Zero
  <2>2. Display!Best({0}) \in {0}
    BY <2>1, BestIs
  <2> QED BY <1>1, <2>1, <2>2
<1>2. CASE S # {}
  <2>0. S \subseteq Int
    OBVIOUS
  <2>1. Display!Zero(S) = S
    BY <1>2 DEF Display!Zero
  <2>2. Display!Best(S) \in S
    BY <1>2, <2>0, BestIs
  <2> QED BY <2>1, <2>2
<1> QED BY <1>1, <1>2

LEMMA VFreqIs ==
    ASSUME NEW m, NEW freq
    PROVE  /\ sink.kind = "lvds" => Display!DisplayVFreq(m, freq) = At(m, IF freq \in {24, 30, 60} THEN 60 ELSE 50)
           /\ sink.kind = "tx" /\ At(m, freq) \in sink.modes => Display!DisplayVFreq(m, freq) = At(m, freq)
           /\ sink.kind = "tx" /\ At(m, freq) \notin sink.modes =>
                Display!DisplayVFreq(m, freq) =
                  IF priority THEN At(m, Display!Best(Display!Zero(Rates(m)))) ELSE ByRate(freq)
           /\ sink.kind \notin {"lvds", "tx"} => Display!DisplayVFreq(m, freq) = m
<1>1. sink.kind = "lvds" => Display!DisplayVFreq(m, freq) = At(m, IF freq \in {24, 30, 60} THEN 60 ELSE 50)
  BY DEF Display!DisplayVFreq, At
<1>2. Display!BestMode(m, freq) = IF priority THEN At(m, Display!Best(Display!Zero(Rates(m)))) ELSE ByRate(freq)
  BY DEF Display!BestMode, At, ByRate, Rates
<1>3. sink.kind = "tx" => Display!DisplayVFreq(m, freq) =
        IF At(m, freq) \in sink.modes THEN At(m, freq) ELSE Display!BestMode(m, freq)
  BY DEF Display!DisplayVFreq, At
<1>4. sink.kind \notin {"lvds", "tx"} => Display!DisplayVFreq(m, freq) = m
  BY DEF Display!DisplayVFreq
<1> QED BY <1>1, <1>2, <1>3, <1>4

\* With resolution first the mode stays one of the sink's.
DisplayIInv ==
    /\ sink \in Sinks /\ mode \in Modes /\ need \in Nat
    /\ sink.kind = "tx" /\ priority => mode \in sink.modes
    /\ Display!ModeFits

LEMMA DisplayInitIInv == Display!Init => DisplayIInv
  BY SinksAssumption DEF Display!Init, Display!ModeFits, DisplayIInv

LEMMA RateFound ==
    ASSUME DisplayIInv, sink.kind = "tx", priority
    PROVE  At(mode, Display!Best(Display!Zero(Rates(mode)))) \in sink.modes
<1> DEFINE T == {o \in sink.modes : o.lines = mode.lines /\ o.scan = mode.scan}
           b == Display!Best(Display!Zero(Rates(mode)))
<1>1. sink.modes \subseteq Modes /\ IsFiniteSet(sink.modes) /\ mode \in sink.modes
  BY SinksAssumption DEF DisplayIInv
<1>2. T \subseteq Modes /\ IsFiniteSet(T) /\ mode \in T
  <2>1. T \in SUBSET sink.modes /\ mode \in T
    BY <1>1
  <2> HIDE DEF T
  <2> QED BY <1>1, <2>1, FS_Subset
<1>3. Rates(mode) = {n.freq : n \in T}
  BY DEF Rates
<1> HIDE DEF T
<1>4. Rates(mode) \subseteq Nat /\ IsFiniteSet(Rates(mode)) /\ Rates(mode) # {}
  BY <1>2, <1>3, FiniteOf
<1>5. b \in Rates(mode)
  BY <1>4, BestOf
<1>6. PICK n \in T : n.freq = b
  BY <1>3, <1>5
<1>7. n \in sink.modes /\ n \in Modes /\ n.lines = mode.lines /\ n.scan = mode.scan
  BY <1>1, <1>6 DEF T
<1>8. At(mode, b) = n
  <2> HIDE DEF b
  <2> QED BY <1>1, <1>6, <1>7 DEF At, Modes
<1> QED BY <1>7, <1>8

LEMMA ModeTyped ==
    ASSUME DisplayIInv, NEW freq \in Nat
    PROVE  Display!DisplayVFreq(mode, freq) \in Modes
<1>1. mode \in Modes /\ sink.modes \subseteq Modes /\ IsFiniteSet(sink.modes)
  BY SinksAssumption DEF DisplayIInv
<1>2. ByRate(freq) \in Modes
  <2> DEFINE T == {n \in sink.modes : Display!Mentions(n, freq)}
             S == {m.lines : m \in T}
  <2>1. T \in SUBSET sink.modes
    OBVIOUS
  <2>2. ByRate(freq) = [lines |-> Display!Best(Display!Zero(S)), scan |-> "p", freq |-> freq]
    BY DEF ByRate
  <2> HIDE DEF T
  <2>3. T \subseteq Modes /\ IsFiniteSet(T)
    BY <1>1, <2>1, FS_Subset
  <2>4. S \subseteq Nat /\ IsFiniteSet(S)
    BY <2>3, FiniteOf
  <2>5. Display!Best(Display!Zero(S)) \in Nat
    BY <2>4, BestOf
  <2> HIDE DEF S
  <2> QED BY <2>2, <2>5 DEF Modes
<1>3. At(mode, 50) \in Modes /\ At(mode, 60) \in Modes /\ At(mode, freq) \in Modes
  BY <1>1, ModeAt
<1>4. CASE sink.kind = "tx" /\ priority /\ At(mode, freq) \notin sink.modes
  BY <1>1, <1>4, VFreqIs, RateFound
<1>5. CASE sink.kind = "lvds"
  BY <1>3, <1>5, VFreqIs
<1>6. CASE sink.kind = "tx" /\ (At(mode, freq) \in sink.modes \/ ~priority)
  BY <1>2, <1>3, <1>6, VFreqIs
<1>7. CASE sink.kind \notin {"lvds", "tx"}
  BY <1>1, <1>7, VFreqIs
<1> QED BY <1>4, <1>5, <1>6, <1>7

\* What a step to the mode of a signal leaves.
LEMMA SetFits ==
    ASSUME DisplayIInv, NEW freq \in Nat, NEW what, Display!SetDisplayVFreq(freq, what),
           what # Nothing =>
             IF what[1] = "HDMI" THEN freq \in what[4] - 1 .. what[4] + 1
             ELSE (freq = 50) = (what[4] \in {24, 25, 50})
    PROVE  DisplayIInv'
<1> DEFINE now == Display!DisplayVFreq(mode, freq)
           b == Display!Best(Display!Zero(Rates(mode)))
<1>1. /\ mode' = now /\ was' = mode /\ need' = freq /\ given' = what
      /\ sink' = sink /\ priority' = priority
  BY DEF Display!SetDisplayVFreq
<1>2. mode \in Modes /\ sink \in Sinks /\ now \in Modes /\ sink.modes \subseteq Modes
  BY ModeTyped, SinksAssumption DEF DisplayIInv
<1>3. \A m, f : Display!DisplayVFreq(m, f)' = Display!DisplayVFreq(m, f)
  BY <1>1 DEF Display!DisplayVFreq, Display!BestMode
<1>4. (Display!Guessed)' => ByRate(freq) \in sink.modes
  BY <1>1 DEF Display!Guessed, ByRate
<1>5. Display!DisplayVFreq(mode, need)' = Display!DisplayVFreq(now, freq)
  BY <1>1, <1>3
<1>6. /\ At(mode, freq) \in Modes /\ At(mode, freq).lines = mode.lines /\ At(mode, freq).scan = mode.scan
      /\ At(mode, freq).freq = freq
      /\ \A f : At(At(mode, f), freq) = At(mode, freq)
  BY <1>2, ModeAt
<1> HIDE DEF now
<1>7. ASSUME sink.kind = "tx", priority \/ ByRate(freq) \in sink.modes
      PROVE  /\ now \in sink.modes
             /\ At(mode, freq) \in sink.modes => now = At(mode, freq)
             /\ priority => now.lines = mode.lines /\ now.scan = mode.scan
             /\ ~priority => now.freq = freq
             /\ Display!DisplayVFreq(now, freq) = now
  <2>1. CASE At(mode, freq) \in sink.modes
    <3>1. now = At(mode, freq)
      BY <1>7, <2>1, VFreqIs DEF now
    <3>2. At(now, freq) = now
      BY <1>6, <3>1
    <3>3. Display!DisplayVFreq(now, freq) = now
      BY <1>7, <2>1, <3>1, <3>2, VFreqIs
    <3> QED BY <1>6, <2>1, <3>1, <3>3
  <2>2. CASE At(mode, freq) \notin sink.modes /\ priority
    <3>1. now = At(mode, b)
      BY <1>7, <2>2, VFreqIs DEF now
    <3>2. now \in sink.modes
      BY <1>7, <2>2, <3>1, RateFound
    <3>3. At(now, freq) = At(mode, freq)
      BY <1>6, <3>1
    <3>4. now.lines = mode.lines /\ now.scan = mode.scan
      <4> HIDE DEF b
      <4> QED BY <1>2, <3>1 DEF At, Modes
    <3>5. Rates(now) = Rates(mode)
      BY <3>4 DEF Rates
    <3>6. Display!DisplayVFreq(now, freq) = At(now, b)
      BY <1>7, <2>2, <3>3, <3>5, VFreqIs
    <3>7. At(now, b) = now
      <4> HIDE DEF b
      <4> QED BY <1>2, <3>1 DEF At, Modes
    <3> QED BY <2>2, <3>2, <3>4, <3>6, <3>7
  <2>3. CASE At(mode, freq) \notin sink.modes /\ ~priority
    <3>1. now = ByRate(freq)
      BY <1>7, <2>3, VFreqIs DEF now
    <3>2. now \in sink.modes
      BY <1>7, <2>3, <3>1
    <3>3. now.freq = freq
      BY <3>1 DEF ByRate
    <3>4. At(now, freq) = now
      BY <1>2, <3>3, ModeAt
    <3>5. Display!DisplayVFreq(now, freq) = now
      BY <1>7, <3>2, <3>4, VFreqIs
    <3> QED BY <2>3, <3>2, <3>3, <3>5
  <2> QED BY <2>1, <2>2, <2>3
<1>8. ASSUME sink.kind = "lvds"
      PROVE  now.freq \in {50, 60} /\ now.lines = mode.lines /\ Display!DisplayVFreq(now, freq) = now
  <2> DEFINE f == IF freq \in {24, 30, 60} THEN 60 ELSE 50
  <2>1. now = At(mode, f) /\ f \in {50, 60}
    BY <1>8, VFreqIs DEF now
  <2>2. Display!DisplayVFreq(now, freq) = At(now, f)
    BY <1>8, VFreqIs
  <2> HIDE DEF f
  <2>3. now.freq = f /\ now.lines = mode.lines
    BY <1>2, <2>1 DEF At, Modes
  <2>4. At(now, f) = now
    BY <1>2, <2>1, <2>3, ModeAt
  <2> QED BY <2>1, <2>2, <2>3, <2>4
<1>9. sink.kind = "out" => now = mode
  BY VFreqIs DEF now
<1>10. sink.kind = "tx" /\ priority => now \in sink.modes
  BY <1>7
<1>11. (Display!ModeFits)'
  <2>1. need' # 0 /\ sink'.kind = "tx" /\ (priority' \/ (Display!Guessed)') =>
             /\ mode' \in sink'.modes
             /\ [was' EXCEPT !.freq = need'] \in sink'.modes => mode' = [was' EXCEPT !.freq = need']
             /\ priority' => mode'.lines = was'.lines /\ mode'.scan = was'.scan
             /\ ~priority' => mode'.freq = need'
             /\ Display!DisplayVFreq(mode, need)' = mode'
    BY <1>1, <1>4, <1>5, <1>7 DEF At
  <2>2. sink'.kind = "lvds" =>
           mode'.freq \in {50, 60} /\ mode'.lines = was'.lines /\ Display!DisplayVFreq(mode, need)' = mode'
    BY <1>1, <1>5, <1>8
  <2>3. sink'.kind = "out" => mode' = was'
    BY <1>1, <1>9
  <2>4. given' # Nothing =>
           IF given'[1] = "HDMI" THEN need' \in given'[4] - 1 .. given'[4] + 1
           ELSE (need' = 50) = (given'[4] \in {24, 25, 50})
    BY <1>1
  <2> QED BY <2>1, <2>2, <2>3, <2>4 DEF Display!ModeFits
<1> QED BY <1>1, <1>2, <1>10, <1>11 DEF DisplayIInv

LEMMA DisplayStepIInv == DisplayIInv /\ [Display!Next]_display => DisplayIInv'
<1> SUFFICES ASSUME DisplayIInv, [Display!Next]_display PROVE DisplayIInv'
  OBVIOUS
<1>1. ASSUME NEW s \in Sinks, Display!Connect(s) PROVE DisplayIInv'
  <2>1. sink' = s /\ mode' \in s.modes /\ need' = 0
    BY <1>1 DEF Display!Connect
  <2>2. (Display!ModeFits)'
    BY <2>1 DEF Display!ModeFits
  <2> QED BY <2>1, <2>2, SinksAssumption DEF DisplayIInv
<1>2. ASSUME NEW fps \in Fps, Display!HdmiStable(fps) PROVE DisplayIInv'
  <2> DEFINE freq == Display!HdmiRate(fps)
             what == <<"HDMI", "", "", fps>>
  <2>1. Display!SetDisplayVFreq(freq, what)
    BY <1>2 DEF Display!HdmiStable
  <2>2. fps \in Nat
    BY FpsAssumption
  <2>3. freq \in Nat /\ freq \in fps - 1 .. fps + 1
    BY <2>2 DEF Display!HdmiRate
  <2>4. what[1] = "HDMI" /\ what[4] = fps
    OBVIOUS
  <2> HIDE DEF freq, what
  <2> QED BY <2>1, <2>3, <2>4, SetFits
<1>3. ASSUME NEW fmt \in {f \in Formats : f[1] # "HDMI"}, Display!OtherStable(fmt) PROVE DisplayIInv'
  <2> DEFINE freq == IF fmt \in Display!FiftyHz THEN 50 ELSE 60
  <2>1. Display!SetDisplayVFreq(freq, fmt)
    BY <1>3 DEF Display!OtherStable
  <2>2. fmt[4] \in {24, 25, 50} <=> fmt \in Display!FiftyHz
    <3>1. CASE fmt \in {"CVBS"} \X {"PAL_I", "NTSC_50", "PAL_CN", "SECAM"} \X {"i"} \X {50}
      BY <3>1 DEF Display!FiftyHz
    <3>2. CASE fmt \in {"CVBS"} \X {"PAL_60", "PAL_M", "NTSC_M", "NTSC_443"} \X {"i"} \X {60}
      BY <3>2 DEF Display!FiftyHz
    <3>3. CASE fmt \in {"COMP"} \X {"576", "1080"} \X {"p", "i"} \X {50}
      BY <3>3 DEF Display!FiftyHz
    <3>4. CASE fmt \in {<<"COMP", "720", "p", 50>>, <<"COMP", "1080", "p", 24>>, <<"COMP", "1080", "p", 25>>}
      BY <3>4 DEF Display!FiftyHz
    <3>5. CASE fmt \in {"COMP"} \X {"480", "720", "1080"} \X {"p", "i"} \X {30, 47, 48, 59, 60}
      BY <3>5 DEF Display!FiftyHz
    <3> QED BY <3>1, <3>2, <3>3, <3>4, <3>5, FormatsAssumption
  <2>3. freq \in Nat /\ (freq = 50 <=> fmt[4] \in {24, 25, 50})
    BY <2>2
  <2> HIDE DEF freq
  <2> QED BY <2>1, <2>3, SetFits
<1>4. ASSUME NEW channel \in Display!Channels, Display!AtvStable(channel) PROVE DisplayIInv'
  <2> DEFINE fmt == Display!stdEnumToCvbsFmt(channel[1], channel[2])
             freq == IF <<"CVBS", fmt, "i", 50>> \in Display!FiftyHz THEN 50 ELSE 60
             what == <<"CVBS", fmt, "i", Display!Fields(channel[1])>>
  <2>1. Display!SetDisplayVFreq(freq, what)
    BY <1>4 DEF Display!AtvStable
  <2>2. Display!Fields(channel[1]) = freq /\ freq \in {50, 60}
    BY FiftyHzIs, ChannelAtRate
  <2>3. what[1] = "CVBS" /\ what[4] = Display!Fields(channel[1])
    OBVIOUS
  <2> HIDE DEF freq, what
  <2> QED BY <2>1, <2>2, <2>3, SetFits
<1>5. CASE Display!DtvVideo
  <2>1. Display!SetDisplayVFreq(50, Nothing)
    BY <1>5 DEF Display!DtvVideo
  <2> QED BY <2>1, SetFits
<1>6. CASE UNCHANGED display
  <2>1. (Display!ModeFits)' = Display!ModeFits
    BY <1>6 DEF display, Display!ModeFits, Display!Guessed, Display!DisplayVFreq, Display!BestMode
  <2> QED BY <1>6, <2>1 DEF display, DisplayIInv
<1> QED BY <1>1, <1>2, <1>3, <1>4, <1>5, <1>6 DEF Display!Next

-----------------------------------------------------------------------------
(* Pip. *)

Decodes == device.decodes # Second!NoDecoder
Stable == device.signal.status = "STABLE"
Quiet == ~pending /\ ~looking

\* While the port is open it is that of the source that was asked for, and the
\* decoder's, which runs if it was started; a signal that is not yet handled is
\* not decoded; one that is was told, if it is.
PipIInv ==
    /\ DOMAIN tvin2 = {"port", "fmt"} /\ DOMAIN device = {"present", "port", "signal", "decodes"}
    /\ ~device.present => device.port = Nothing
    /\ device.port = Nothing => ~Decodes /\ ~Stable /\ Quiet
    /\ device.port # Nothing => device.port = asked /\ tvin2.port = asked /\ (running <=> Decodes)
    /\ device.port # Nothing => device.signal.status \in Second!Statuses
    /\ Decodes => device.decodes.port = asked
    /\ device.present /\ refusals = {} => device.port = asked
    /\ looking => ~pending /\ signal = device.signal
    /\ device.signal = [status |-> device.signal.status, fmt |-> device.signal.fmt]
    /\ ~Quiet /\ Stable => ~Decodes
    /\ Quiet /\ Decodes => Stable /\ device.signal.fmt = device.decodes.fmt
                           /\ shown = [status |-> "STABLE", fmt |-> device.decodes.fmt, port |-> asked]
    /\ Quiet /\ Stable => Decodes \/ refusals # {}

LEMMA PipInitIInv == Second!Init => PipIInv
<1> SUFFICES ASSUME Second!Init PROVE PipIInv
  OBVIOUS
<1>1. PICK present \in BOOLEAN : device = [present |-> present, port |-> Nothing, signal |-> Second!NoSignal,
                                           decodes |-> Second!NoDecoder]
  BY DEF Second!Init
<1>2. /\ device.present = present /\ device.port = Nothing /\ device.decodes = Second!NoDecoder
      /\ DOMAIN device = {"present", "port", "signal", "decodes"}
      /\ device.signal = [status |-> "NULL", fmt |-> Nothing]
  BY <1>1 DEF Second!NoSignal
<1>3. tvin2 = Second!NoDecoder /\ ~pending /\ ~looking /\ asked = Nothing
  BY DEF Second!Init
<1>4. DOMAIN tvin2 = {"port", "fmt"}
  BY <1>3 DEF Second!NoDecoder
<1> QED BY <1>2, <1>3, <1>4 DEF PipIInv, Decodes, Stable, Quiet

\* What a call may answer.
LEMMA Answers ==
    ASSUME NEW call, NEW ok \in Second!VDIN2_DeviceIOCtl(call)
    PROVE  /\ ok => device.present
           /\ device.present /\ call \in {"stop", "info"} => ok
  BY PipAssumption DEF Second!VDIN2_DeviceIOCtl

\* What the port is after it was opened or closed.
LEMMA PortIs ==
    ASSUME PipIInv, NEW src, NEW ok \in BOOLEAN
    PROVE  LET d == Second!VDIN2_OpenPort(device, src, ok)
               c == Second!Closed(device) IN
           /\ DOMAIN d = DOMAIN device /\ d.present = device.present /\ d.decodes = Second!NoDecoder
           /\ ok => d.port = src /\ d.signal = [status |-> "NOSIG", fmt |-> Nothing]
           /\ ~ok => d = c
           /\ DOMAIN c = DOMAIN device /\ c.present = device.present /\ c.decodes = Second!NoDecoder
           /\ c.port = Nothing /\ c.signal = Second!NoSignal
  BY DEF PipIInv, Second!VDIN2_OpenPort, Second!Closed

\* A port that was just opened or closed.
LEMMA Switched ==
    ASSUME PipIInv, DOMAIN tvin2' = {"port", "fmt"}, DOMAIN device' = DOMAIN device,
           device'.present = device.present,
           device'.decodes = Second!NoDecoder, ~running', ~pending', ~looking',
           \/ device'.port = Nothing /\ device'.signal = Second!NoSignal /\ (refusals' # {} \/ asked' = Nothing)
           \/ /\ device'.port = asked' /\ device.present /\ tvin2'.port = asked'
              /\ device'.signal = [status |-> "NOSIG", fmt |-> Nothing]
    PROVE  PipIInv'
<1>1. device'.signal.status # "STABLE" /\ (device'.port # Nothing => device'.signal.status = "NOSIG")
  BY DEF Second!NoSignal
<1>2. device'.signal = [status |-> device'.signal.status, fmt |-> device'.signal.fmt]
  BY DEF Second!NoSignal
<1> QED BY <1>1, <1>2 DEF PipIInv, Decodes, Stable, Quiet, Second!Statuses, Second!NoDecoder

LEMMA PipStepIInv == PipIInv /\ [Second!Next]_pip => PipIInv'
<1> SUFFICES ASSUME PipIInv, [Second!Next]_pip PROVE PipIInv'
  OBVIOUS
<1>1. ASSUME NEW src \in PipSources, Second!StartTvInPIP(src) PROVE PipIInv'
  <2>1. PICK stop \in Second!VDIN2_DeviceIOCtl("stop"), open \in Second!VDIN2_DeviceIOCtl("open") :
           IF running /\ ~stop
           THEN /\ refusals' = {"stop"} /\ UNCHANGED <<running, tvin2, device, pending>>
           ELSE /\ running' = FALSE /\ tvin2' = [tvin2 EXCEPT !.port = src]
                /\ device' = Second!VDIN2_OpenPort(device, src, open)
                /\ refusals' = IF open THEN {} ELSE {"open"}
                /\ pending' = FALSE
    BY <1>1 DEF Second!StartTvInPIP
  <2>2. ~pending /\ ~looking /\ ~looking' /\ asked' = src
    BY <1>1 DEF Second!StartTvInPIP, Second!Called, Second!Handled
  <2>3. stop \in BOOLEAN /\ open \in BOOLEAN
    BY DEF Second!VDIN2_DeviceIOCtl
  <2>4. CASE running /\ ~stop
    <3>1. ~device.present
      BY <2>4, Answers
    <3>2. device.port = Nothing /\ ~Decodes /\ ~Stable
      BY <3>1 DEF PipIInv
    <3>3. UNCHANGED <<tvin2, device>> /\ ~pending' /\ ~looking'
      BY <2>1, <2>2, <2>4
    <3> QED BY <3>1, <3>2, <3>3 DEF PipIInv, Decodes, Stable, Quiet
  <2>5. CASE ~(running /\ ~stop)
    <3>1. /\ ~running' /\ tvin2' = [tvin2 EXCEPT !.port = src] /\ ~pending'
          /\ device' = Second!VDIN2_OpenPort(device, src, open)
          /\ refusals' = IF open THEN {} ELSE {"open"}
      BY <2>1, <2>5
    <3>2. DOMAIN tvin2' = {"port", "fmt"} /\ tvin2'.port = src
      BY <3>1 DEF PipIInv
    <3>3. open => device.present
      BY Answers
    <3>4. /\ DOMAIN device' = DOMAIN device /\ device'.present = device.present /\ device'.decodes = Second!NoDecoder
          /\ open => device'.port = src /\ device'.signal = [status |-> "NOSIG", fmt |-> Nothing]
          /\ ~open => device'.port = Nothing /\ device'.signal = Second!NoSignal
      BY <2>3, <3>1, PortIs
    <3>5. ~open => refusals' # {}
      BY <3>1
    <3> QED BY <2>2, <3>1, <3>2, <3>3, <3>4, <3>5, Switched
  <2> QED BY <2>4, <2>5
<1>2. CASE Second!StopTvInPIP
  <2>1. /\ ~pending' /\ ~looking' /\ asked' = Nothing /\ tvin2' = [tvin2 EXCEPT !.port = Nothing]
        /\ device' = Second!Closed(device)
    BY <1>2 DEF Second!StopTvInPIP, Second!Called, Second!Handled
  <2>2. DOMAIN tvin2' = {"port", "fmt"}
    BY <2>1 DEF PipIInv
  <2>3. /\ DOMAIN device' = DOMAIN device /\ device'.present = device.present /\ device'.decodes = Second!NoDecoder
        /\ device'.port = Nothing /\ device'.signal = [status |-> "NULL", fmt |-> Nothing]
    BY <2>1, PortIs DEF Second!NoSignal
  <2> QED BY <2>1, <2>2, <2>3 DEF PipIInv, Decodes, Stable, Quiet
<1>3. CASE Second!SignalChange
  <2>1. PICK status \in Second!Statuses, fmt \in Fmts :
           /\ status = "STABLE" => device.signal.status # "STABLE"
           /\ device' = [device EXCEPT !.signal = [status |-> status, fmt |-> IF status = "STABLE" THEN fmt ELSE Nothing]]
    BY <1>3 DEF Second!SignalChange
  <2>2. /\ device.port # Nothing /\ ~pending /\ ~looking /\ pending' /\ ~looking'
        /\ UNCHANGED <<asked, running, tvin2, refusals>>
    BY <1>3 DEF Second!SignalChange, Second!Handled
  <2>3. /\ DOMAIN device' = DOMAIN device /\ device'.present = device.present /\ device'.port = device.port
        /\ device'.decodes = device.decodes
        /\ device'.signal = [status |-> device'.signal.status, fmt |-> device'.signal.fmt]
        /\ device'.signal.status = status
    BY <2>1 DEF PipIInv
  <2>4. status = "STABLE" => ~Decodes
    BY <2>1, <2>2 DEF PipIInv, Stable, Quiet
  <2> QED BY <2>2, <2>3, <2>4 DEF PipIInv, Decodes, Stable, Quiet
<1>4. CASE Second!StartDetect
  BY <1>4 DEF Second!StartDetect, PipIInv, Decodes, Stable, Quiet
<1>5. CASE Second!VDIN2_GetSignalInfo
  <2>1. /\ pending /\ ~looking /\ ~pending' /\ looking'
        /\ UNCHANGED <<asked, running, tvin2, device, refusals, shown>>
    BY <1>5 DEF Second!VDIN2_GetSignalInfo
  <2>2. device.present
    BY <2>1 DEF PipIInv, Quiet
  <2>3. signal' = device.signal
    <3>1. PICK ok \in Second!VDIN2_DeviceIOCtl("info") :
             signal' = IF ok THEN device.signal ELSE [signal EXCEPT !.status = "NULL"]
      BY <1>5 DEF Second!VDIN2_GetSignalInfo
    <3>2. ok
      BY <2>2, Answers
    <3> QED BY <3>1, <3>2
  <2> QED BY <2>1, <2>3 DEF PipIInv, Decodes, Stable, Quiet
<1>6. CASE Second!onVdin2SignalChange
  <2>1. /\ looking /\ ~pending /\ ~looking' /\ ~pending' /\ UNCHANGED <<asked, polling>>
        /\ signal = device.signal
    BY <1>6 DEF Second!onVdin2SignalChange, PipIInv
  <2>2. device.port # Nothing /\ device.present /\ device.port = asked /\ tvin2.port = asked /\ (running <=> Decodes)
    BY <2>1 DEF PipIInv, Quiet
  <2>3. CASE signal.status = "STABLE" /\ Second!Tvin2_StartDecoder /\ Second!Tell
    <3>1. Stable /\ ~Decodes /\ ~running
      BY <2>1, <2>2, <2>3 DEF PipIInv, Stable, Quiet
    <3>2. tvin2' = [tvin2 EXCEPT !.fmt = signal.fmt]
      BY <2>3, <3>1 DEF Second!Tvin2_StartDecoder
    <3>3. DOMAIN tvin2' = {"port", "fmt"} /\ tvin2'.port = asked /\ tvin2'.fmt = signal.fmt
      BY <2>2, <3>2 DEF PipIInv
    <3>4. tvin2' # Second!NoDecoder
      BY <2>2, <3>3 DEF Second!NoDecoder
    <3>5. shown' = [status |-> "STABLE", fmt |-> device.signal.fmt, port |-> asked]
      BY <2>1, <2>2, <2>3 DEF Second!Tell
    <3>6. PICK ok \in BOOLEAN :
             /\ running' = ok
             /\ device' = IF ok THEN [device EXCEPT !.decodes = tvin2'] ELSE device
             /\ refusals' = IF ok THEN {} ELSE {"start"}
      <4>1. PICK ok \in Second!VDIN2_DeviceIOCtl("start") :
               LET goes == ok /\ device.port # Nothing
               IN  /\ running' = goes
                   /\ device' = IF goes THEN [device EXCEPT !.decodes = tvin2'] ELSE device
                   /\ refusals' = IF goes THEN {} ELSE {"start"}
        BY <2>3, <3>1 DEF Second!Tvin2_StartDecoder
      <4>2. ok \in BOOLEAN
        BY DEF Second!VDIN2_DeviceIOCtl
      <4> QED BY <2>2, <4>1, <4>2
    <3>7. CASE ok
      <4>1. running' /\ refusals' = {} /\ device' = [device EXCEPT !.decodes = tvin2']
        BY <3>6, <3>7
      <4>2. /\ DOMAIN device' = DOMAIN device /\ device'.present = device.present /\ device'.port = device.port
            /\ device'.signal = device.signal /\ device'.decodes = tvin2'
        BY <4>1 DEF PipIInv
      <4> QED BY <2>1, <2>2, <3>1, <3>3, <3>4, <3>5, <4>1, <4>2 DEF PipIInv, Decodes, Stable, Quiet
    <3>8. CASE ~ok
      <4>1. ~running' /\ refusals' # {} /\ device' = device
        BY <3>6, <3>8
      <4> QED BY <2>1, <2>2, <3>1, <3>3, <4>1 DEF PipIInv, Decodes, Stable, Quiet
    <3> QED BY <3>7, <3>8
  <2>4. CASE signal.status # "STABLE" /\ Second!Tvin2_StopDecoder
    <3>1. ~Stable
      BY <2>1, <2>4 DEF Stable
    <3>2. CASE ~running
      <4>1. UNCHANGED <<running, device, refusals, tvin2>> /\ ~Decodes
        BY <2>2, <2>4, <3>2 DEF Second!Tvin2_StopDecoder
      <4> QED BY <2>1, <2>2, <3>1, <4>1 DEF PipIInv, Decodes, Stable, Quiet
    <3>3. CASE running
      <4>1. PICK ok \in Second!VDIN2_DeviceIOCtl("stop") :
               /\ running' = ~ok
               /\ device' = IF ok THEN [device EXCEPT !.decodes = Second!NoDecoder] ELSE device
        BY <2>4, <3>3 DEF Second!Tvin2_StopDecoder
      <4>2. ok
        BY <2>2, Answers
      <4>3. ~running' /\ device' = [device EXCEPT !.decodes = Second!NoDecoder] /\ tvin2' = tvin2
        BY <2>4, <4>1, <4>2 DEF Second!Tvin2_StopDecoder
      <4>4. /\ DOMAIN device' = DOMAIN device /\ device'.present = device.present /\ device'.port = device.port
            /\ device'.signal = device.signal /\ device'.decodes = Second!NoDecoder
        BY <4>3 DEF PipIInv
      <4> QED BY <2>1, <2>2, <3>1, <4>3, <4>4 DEF PipIInv, Decodes, Stable, Quiet
    <3> QED BY <3>2, <3>3
  <2>5. signal.status # "NULL"
    BY <2>1, <2>2 DEF PipIInv, Second!Statuses
  <2> QED BY <1>6, <2>3, <2>4, <2>5 DEF Second!onVdin2SignalChange
<1>7. CASE UNCHANGED pip
  BY <1>7 DEF pip, PipIInv, Decodes, Stable, Quiet
<1> QED
  BY <1>1, <1>2, <1>3, <1>4, <1>5, <1>6, <1>7 DEF Second!Next

LEMMA PipIInvFits == PipIInv => Second!SecondPicture
  BY DEF PipIInv, Second!SecondPicture, Second!Handled, Decodes, Stable, Quiet

-----------------------------------------------------------------------------
\* What leaves the service fits what was asked for and what there is: frames have
\* a way to the screen, the mode is one for their rate, and the second picture is
\* the one that was chosen; for every set of paths, sinks, formats and sources,
\* however long it goes on.
THEOREM OutputComes == PartsSpec => []OutputFits
<1> DEFINE Inv ==
      /\ part = "path" => PathIInv
      /\ part = "display" => DisplayIInv
      /\ part = "pip" => PipIInv
<1>1. PartsInit => Inv
  BY PathInitIInv, DisplayInitIInv, PipInitIInv DEF PartsInit
<1>2. Inv /\ [PartsNext]_partsVars => Inv'
  <2> SUFFICES ASSUME Inv, [PartsNext]_partsVars PROVE Inv'
    OBVIOUS
  <2>1. part' = part
    BY DEF PartsNext, partsVars
  <2>2. part = "path" => [Path!Next]_path
    BY DEF PartsNext, partsVars
  <2>3. part = "display" => [Display!Next]_display
    BY DEF PartsNext, partsVars
  <2>4. part = "pip" => [Second!Next]_pip
    BY DEF PartsNext, partsVars
  <2>5. (part = "path" => PathIInv)'
    BY <2>1, <2>2, PathStepIInv
  <2>6. (part = "display" => DisplayIInv)'
    BY <2>1, <2>3, DisplayStepIInv
  <2>7. (part = "pip" => PipIInv)'
    BY <2>1, <2>4, PipStepIInv
  <2> QED BY <2>5, <2>6, <2>7
<1>3. Inv => OutputFits
  <2> SUFFICES ASSUME Inv PROVE OutputFits
    OBVIOUS
  <2>1. part = "path" => Path!FramesComeThrough
    BY PathIInvFits
  <2>2. part = "display" => Display!ModeFits
    BY DEF DisplayIInv
  <2>3. part = "pip" => Second!SecondPicture
    BY PipIInvFits
  <2> QED BY <2>1, <2>2, <2>3 DEF OutputFits
<1> QED BY <1>1, <1>2, <1>3, PTL DEF PartsSpec
=============================================================================
