------------------------------ MODULE Settings ------------------------------
(***************************************************************************)
(* The settings that outlive the set's power: what CTvSetting.cpp keeps in *)
(* the areas of the settings server (SSM), through which width it writes   *)
(* and reads each, the parental mask of the sources, and the two restores. *)
(*                                                                         *)
(* A number is its four bytes, the lowest first.  The server stores as     *)
(* many bytes as it is told to and gives as many back.  The lock of a      *)
(* source is set by two calls of the server with no lock around them, by   *)
(* any thread, a restore's too.                                            *)
(***************************************************************************)
EXTENDS Integers, Sequences

CONSTANTS Numbers,  \* what clients save
          Sources,  \* sources whose lock is set
          Fills,    \* what an area holds that was never written
          Threads,  \* binder threads
          MaxCalls  \* how often clients call

Zero == <<0, 0, 0, 0>>
Small(n) == <<n, 0, 0, 0>>
MinusOne == <<255, 255, 255, 255>>

-----------------------------------------------------------------------------
(* The areas, by the names of their save and read functions. *)

MiscAreas ==
    [BurnWriteCharacterChar |-> "SSM_RSV_W_CHARACTER_CHAR_START",
     FactoryBurnMode |-> "SSM_RW_FBMF_START",
     PowerOnOffChannel |-> "SSM_RW_POWER_CHANNEL_START",
     LastSelectSourceInput |-> "SSM_RW_LAST_SOURCE_INPUT_START",
     SystemLanguage |-> "SSM_RW_SYS_LANGUAGE_START",
     AgingMode |-> "SSM_RW_AGING_MODE_START",
     PanelType |-> "SSM_RW_PANEL_TYPE_START",
     PowerOnMusicSwitch |-> "SSM_RW_POWER_ON_MUSIC_SWITCH_START",
     PowerOnMusicVolume |-> "SSM_RW_POWER_ON_MUSIC_VOL_START",
     SystemSleepTimer |-> "SSM_RW_SYS_SLEEP_TIMER_START"]

FlagAreas ==
    [ParentalControlSwitch |-> "SSM_RW_PARENTAL_CTL_SWITCH_START",
     SearchNavigateFlag |-> "SSM_RW_SEARCH_NAVIGATE_FLAG_START",
     InputNumLimit |-> "SSM_RW_INPUT_NUMBER_LIMIT_START",
     LocalDimingOnOffFlg |-> "SSM_RW_LOCAL_DIMING_START",
     VDac2DValue |-> "SSM_RW_VDAC_2D_START",
     VDac3DValue |-> "SSM_RW_VDAC_3D_START"]

ModeAreas ==
    [NonStandardValue |-> "SSM_RW_NON_STANDARD_START",
     AdbSwitchValue |-> "SSM_RW_ADB_SWITCH_START",
     NoiseGateThresholdValue |-> "SSM_RW_NOISE_GATE_THRESHOLD_START",
     GraphyBacklight |-> "SSM_RW_UI_GRHPHY_BACKLIGHT_START",
     FastSuspendFlag |-> "SSM_RW_FASTSUSPEND_FLAG_START",
     CABufferSizeValue |-> "SSM_RW_CA_BUFFER_SIZE_START",
     StandbyMode |-> "SSM_RW_STANDBY_MODE_FLAG_START",
     HDMIEQMode |-> "SSM_RW_HDMIEQ_MODE_START"]

SwitchAreas ==
    [LogoOnOffFlag |-> "SSM_RW_LOGO_ON_OFF_FLAG_START",
     HDMIInternalMode |-> "SSM_RW_HDMIINTERNAL_MODE_START",
     Disable3D |-> "SSM_RW_DISABLE_3D_START",
     GlobalOgoEnable |-> "SSM_RW_GLOBAL_OGO_ENABLE_START"]

TvinAreas ==
    [DTVType |-> "SSM_RW_DTV_TYPE_START",
     SourceInput |-> "TVIN_DATA_POS_SOURCE_INPUT_START",
     CVBSStd |-> "TVIN_DATA_CVBS_STD_START",
     Mode3D |-> "TVIN_DATA_POS_3D_MODE_START",
     LRSwitch3D |-> "TVIN_DATA_POS_3D_LRSWITCH_START",
     Depth3D |-> "TVIN_DATA_POS_3D_DEPTH_START",
     TO2D3D |-> "TVIN_DATA_POS_3D_TO2D_START",
     SceneMode |-> "VPP_DATA_POS_SCENE_MODE_START"]

PictureAreas ==
    [FBCN360BackLightVal |-> "VPP_DATA_POS_FBC_BACKLIGHT_START",
     FBCN360ColorTempVal |-> "VPP_DATA_POS_FBC_COLORTEMP_START",
     FBCELECmodeVal |-> "VPP_DATA_POS_FBC_ELECMODE_START",
     DBCStart |-> "VPP_DATA_POS_DBC_START",
     DnlpStart |-> "VPP_DATA_POS_DNLP_START",
     PanoramaStart |-> "VPP_DATA_POS_PANORAMA_START",
     TestPattern |-> "VPP_DATA_POS_TEST_PATTERN_START",
     APL |-> "VPP_DATA_APL_START",
     APL2 |-> "VPP_DATA_APL2_START"]

LightAreas ==
    [BD |-> "VPP_DATA_BD_START",
     BP |-> "VPP_DATA_BP_START",
     DDRSSC |-> "VPP_DATA_POS_DDR_SSC_START",
     LVDSSSC |-> "VPP_DATA_POS_LVDS_SSC_START",
     DreamPanel |-> "VPP_DATA_POS_DREAM_PANEL_START",
     UserNatureLightSwitch |-> "VPP_DATA_USER_NATURE_SWITCH_START",
     DBCBacklightEnable |-> "VPP_DATA_DBC_BACKLIGHT_START",
     DBCBacklightStd |-> "VPP_DATA_DBC_STANDARD_START",
     DBCEnable |-> "VPP_DATA_DBC_ENABLE_START"]

SignalAreas ==
    [BackLightReverse |-> "VPP_DATA_POS_BACKLIGHT_REVERSE_START",
     DLGEnable |-> "VPP_DATA_POS_DLG_ENABLE_START",
     VRREnable |-> "VPP_DATA_POS_VRR_ENABLE_START",
     BlackoutEnable |-> "SSM_RW_BLACKOUT_ENABLE_START",
     ScreenColorForSignalChange |-> "CUSTOMER_DATA_POS_SCREEN_COLOR_START",
     FBCN310BackLightVal |-> "VPP_DATA_POS_FBC_N310_BACKLIGHT_START",
     FBCN310ColorTempVal |-> "VPP_DATA_POS_FBC_N310_COLORTEMP_START",
     FBCN310LightsensorVal |-> "VPP_DATA_POS_FBC_N310_LIGHTSENSOR_START"]

BoardAreas ==
    [FBCN310Dream_PanelVal |-> "VPP_DATA_POS_FBC_N310_DREAMPANEL_START",
     FBCN310MULT_PQVal |-> "VPP_DATA_POS_FBC_N310_MULTI_PQ_START",
     FBCN310MEMCVal |-> "VPP_DATA_POS_FBC_N310_MEMC_START",
     N311_VbyOne_Spread_Spectrum_Val |-> "VPP_DATA_POS_N311_VBYONE_SPREAD_SPECTRUM_START",
     N311_Bluetooth_Vol |-> "VPP_DATA_POS_N311_BLUETOOTH_VAL_START",
     PANEL_ID_Val |-> "SSM_RW_PANEL_ID_START"]

HdmiAreas ==
    [HDMIEdidVersion1 |-> "CUSTOMER_DATA_POS_HDMI1_EDID_START",
     HDMIEdidVersion2 |-> "CUSTOMER_DATA_POS_HDMI2_EDID_START",
     HDMIEdidVersion3 |-> "CUSTOMER_DATA_POS_HDMI3_EDID_START",
     HDMIEdidVersion4 |-> "CUSTOMER_DATA_POS_HDMI4_EDID_START",
     HDMIColorRangeMode |-> "CUSTOMER_DATA_POS_HDMI_COLOR_RANGE_START",
     HDMIHdcpSwitcher |-> "CUSTOMER_DATA_POS_HDMI_HDCP_SWITCHER_START",
     ChannelLockEnValue |-> "CUSTOMER_DATA_POS_CHANNEL_LOCK_EN_START",
     QMSEnable |-> "CUSTOMER_DATA_POS_HDMI_QMS_ENABLE_START"]

MarkAreas == [Mark1 |-> "SSM_MARK_01_START", Mark2 |-> "SSM_MARK_02_START", Mark3 |-> "SSM_MARK_03_START"]

Names == UNION {DOMAIN MiscAreas, DOMAIN FlagAreas, DOMAIN ModeAreas, DOMAIN SwitchAreas,
                DOMAIN TvinAreas, DOMAIN PictureAreas, DOMAIN LightAreas, DOMAIN SignalAreas,
                DOMAIN BoardAreas, DOMAIN HdmiAreas, DOMAIN MarkAreas}

Areas ==
    [s \in Names |->
       CASE s \in DOMAIN MiscAreas -> MiscAreas[s] [] s \in DOMAIN FlagAreas -> FlagAreas[s]
         [] s \in DOMAIN ModeAreas -> ModeAreas[s] [] s \in DOMAIN SwitchAreas -> SwitchAreas[s]
         [] s \in DOMAIN TvinAreas -> TvinAreas[s] [] s \in DOMAIN PictureAreas -> PictureAreas[s]
         [] s \in DOMAIN LightAreas -> LightAreas[s] [] s \in DOMAIN SignalAreas -> SignalAreas[s]
         [] s \in DOMAIN BoardAreas -> BoardAreas[s] [] s \in DOMAIN HdmiAreas -> HdmiAreas[s]
         [] s \in DOMAIN MarkAreas -> MarkAreas[s]]

ParentalArea == "SSM_RW_INPUT_SRC_PARENTAL_CTL_START"
Versions == {"HDMIEdidVersion1", "HDMIEdidVersion2", "HDMIEdidVersion3", "HDMIEdidVersion4"}

Width(s) ==
    CASE s \in {"AgingMode", "HDMIInternalMode"} -> 4
      [] s \in {"NonStandardValue", "CABufferSizeValue"} -> 2
      [] OTHER -> 1

\* Faulty variant: every setting is read as a word.
ReadWidth_Word(s) == 4

ReadWidth(s) == IF s = "SystemSleepTimer" THEN 4 ELSE Width(s)

\* What the read function makes of the bytes that come back.
Seen(s, b) ==
    CASE s \in {"FactoryBurnMode", "ParentalControlSwitch"} -> IF b = Zero THEN Zero ELSE Small(1)
      [] s = "SystemSleepTimer" -> IF b[4] > 127 THEN Zero ELSE b
      [] s = "GraphyBacklight" -> IF b[1] > 100 THEN MinusOne ELSE b
      [] s \in {"DLGEnable", "VRREnable", "BlackoutEnable"} -> IF b[1] > 127 THEN <<b[1], 255, 255, 255>> ELSE b
      [] s \in Versions -> IF b[1] > 2 THEN Zero ELSE b
      [] s = "HDMIHdcpSwitcher" -> IF b[1] > 1 THEN Zero ELSE b
      [] OTHER -> b

-----------------------------------------------------------------------------
VARIABLES ssm,      \* the areas that differ from what they held at first: their bytes
          fill,     \* each byte of those that do not
          mask,     \* the sources that are locked: the 32 bits of ParentalArea
          setting,  \* what each thread has read of the mask, and for what
          enabled,  \* mEnableLockModule
          todo,     \* what a restore has yet to save
          told,     \* the numbers that were saved last
          locks,    \* the locks that were set last
          crossed,  \* history: the sources whose lock was set while a thread was between
                    \* its two calls for another one, and that it then set back
          calls     \* how often clients have called
vars == <<ssm, fill, mask, setting, enabled, todo, told, locks, crossed, calls>>

\* The thread that restores.
Restorer == "restore"

Idle == [source |-> -1, flag |-> FALSE, read |-> {}]

Area(a) == IF a \in DOMAIN ssm THEN ssm[a] ELSE [n \in 1..4 |-> fill]

\* tvSSMReadNTypes: the server's answer, whatever it is; 0 is returned always.
Read(s) == Seen(s, [n \in 1..4 |-> IF n <= ReadWidth(s) THEN Area(Areas[s])[n] ELSE 0])

\* tvSSMWriteNTypes
Written(s, v) == [n \in 1..4 |-> IF n <= Width(s) THEN v[n] ELSE Area(Areas[s])[n]]

With(f, x, v) == [y \in DOMAIN f \cup {x} |-> IF y = x THEN v ELSE f[y]]

Put(s, v) ==
    /\ ssm' = With(ssm, Areas[s], Written(s, v))
    /\ told' = With(told, s, v)

Init ==
    /\ fill \in Fills /\ ssm = <<>>
    /\ mask = (IF fill = 0 THEN {} ELSE 0..31)
    /\ setting = [t \in Threads \cup {Restorer} |-> Idle]
    /\ enabled = (fill = 0)
    /\ todo = <<>> /\ told = <<>> /\ locks = <<>> /\ crossed = {} /\ calls = 0

Call == calls < MaxCalls /\ calls' = calls + 1

\* The save functions but those of marks, and the channel lock's.
Save(s, v) ==
    /\ Call
    /\ IF s = "GraphyBacklight" /\ ~(v = Small(v[1]) /\ v[1] <= 100)
       THEN UNCHANGED <<ssm, told>> ELSE Put(s, v)
    /\ UNCHANGED <<fill, mask, setting, enabled, todo, locks, crossed>>

\* SSMSaveInputSourceParentalControl, of a client or of a restore: what is read ...
Begun(i, f) == IF i \in 0..31 THEN [source |-> i, flag |-> f, read |-> mask] ELSE Idle

ReadMask(t, i, f) ==
    /\ setting[t] = Idle /\ Call
    /\ setting' = [setting EXCEPT ![t] = Begun(i, f)]
    /\ UNCHANGED <<ssm, fill, mask, enabled, todo, told, locks, crossed>>

\* Faulty variant: the flag is written without the other bits.
Masked_Only(m, i, f) == IF f THEN {i} ELSE {}

Masked(m, i, f) == IF f THEN m \cup {i} ELSE m \ {i}

\* ... is written with one bit set or cleared.
SetLock(t) ==
    LET source == setting[t].source
        read == setting[t].read
    IN  /\ setting[t] # Idle /\ setting' = [setting EXCEPT ![t] = Idle]
        /\ mask' = Masked(read, source, setting[t].flag)
        /\ locks' = With(locks, source, setting[t].flag)
        /\ crossed' = (crossed \cup {i \in 0..31 : (i \in mask) # (i \in read)}) \ {source}

WriteMask(t) ==
    /\ SetLock(t)
    /\ UNCHANGED <<ssm, fill, enabled, todo, told, calls>>

\* SSMReadInputSourceParentalControl
SourceLocked(i) == Read("ParentalControlSwitch") # Zero /\ i \in mask

\* request: ADTV.setBlockEn
SetBlockEn(enable) ==
    /\ Call /\ enabled # enable /\ enabled' = enable
    /\ Put("ChannelLockEnValue", Small(IF enable THEN 0 ELSE 1))
    /\ UNCHANGED <<fill, mask, setting, todo, locks, crossed>>

\* SSMRestoreDeviceMarkValues
Marks == <<<<"Mark1", Small(221)>>, <<"Mark2", Small(136)>>, <<"Mark3", Small(204)>>>>

\* MiscSSMRestoreDefault
MiscDefaults ==
    <<<<"FactoryBurnMode", Zero>>, <<"PowerOnOffChannel", Small(1)>>, <<"SystemLanguage", Zero>>,
      <<"AgingMode", Zero>>, <<"PanelType", Zero>>, <<"PowerOnMusicSwitch", Zero>>,
      <<"PowerOnMusicVolume", Small(20)>>, <<"SystemSleepTimer", MinusOne>>, <<"lock", 0>>,
      <<"ParentalControlSwitch", Zero>>, <<"BlackoutEnable", Small(1)>>, <<"DLGEnable", Zero>>,
      <<"VRREnable", Zero>>, <<"QMSEnable", Zero>>>>

\* Tv_SSMRestoreDefaultSetting, with the version of the configuration.
Defaults(version) ==
    Marks \o MiscDefaults \o
    <<<<"BurnWriteCharacterChar", Small(138)>>, <<"CVBSStd", Zero>>, <<"LastSelectSourceInput", Zero>>,
      <<"PanelType", Zero>>, <<"StandbyMode", Zero>>,
      <<"HDMIEdidVersion1", version>>, <<"HDMIEdidVersion2", version>>, <<"HDMIEdidVersion3", version>>,
      <<"HDMIEdidVersion4", version>>, <<"HDMIHdcpSwitcher", Zero>>, <<"HDMIColorRangeMode", Zero>>>>

\* MiscSSMFacRestoreDefault
FacDefaults ==
    <<<<"SystemLanguage", Zero>>, <<"PowerOnMusicSwitch", Small(1)>>, <<"PowerOnMusicVolume", Small(20)>>,
      <<"SystemSleepTimer", MinusOne>>, <<"lock", 0>>, <<"ParentalControlSwitch", Zero>>,
      <<"SearchNavigateFlag", Small(1)>>, <<"InputNumLimit", Small(2)>>, <<"LocalDimingOnOffFlg", Zero>>>>

Restore(list) ==
    /\ todo = <<>> /\ Call /\ todo' = list
    /\ UNCHANGED <<ssm, fill, mask, setting, enabled, told, locks, crossed>>

RestoreSave ==
    /\ todo # <<>> /\ todo[1][1] # "lock"
    /\ Put(todo[1][1], todo[1][2]) /\ todo' = Tail(todo)
    /\ UNCHANGED <<fill, mask, setting, enabled, locks, crossed, calls>>

RestoreReadLock ==
    /\ todo # <<>> /\ todo[1][1] = "lock" /\ setting[Restorer] = Idle
    /\ setting' = [setting EXCEPT ![Restorer] = Begun(0, FALSE)]
    /\ UNCHANGED <<ssm, fill, mask, enabled, todo, told, locks, crossed, calls>>

RestoreWriteLock ==
    /\ SetLock(Restorer) /\ todo' = Tail(todo)
    /\ UNCHANGED <<ssm, fill, enabled, told, calls>>

\* The power goes, and OpenTv reads the channel lock's switch.
Restart ==
    /\ setting' = [t \in Threads \cup {Restorer} |-> Idle] /\ todo' = <<>>
    /\ enabled' = (Read("ChannelLockEnValue") = Zero)
    /\ UNCHANGED <<ssm, fill, mask, told, locks, crossed, calls>>

Saved == Names \ ({"ChannelLockEnValue"} \cup DOMAIN MarkAreas)

Next ==
    \/ \E s \in Saved, v \in Numbers : Save(s, v)
    \/ \E t \in Threads :
         \/ WriteMask(t)
         \/ \E i \in Sources, f \in BOOLEAN : ReadMask(t, i, f)
    \/ \E enable \in BOOLEAN : SetBlockEn(enable)
    \/ \E list \in {Defaults(Zero), Defaults(Small(1)), FacDefaults} : Restore(list)
    \/ RestoreSave \/ RestoreReadLock \/ RestoreWriteLock
    \/ Restart

Spec == Init /\ [][Next]_vars

-----------------------------------------------------------------------------
\* A number that the read function can give back.
Fits(s, v) ==
    /\ \/ \A n \in 1..4 : n > Width(s) => v[n] = 0
       \/ s \in {"DLGEnable", "VRREnable", "BlackoutEnable"} /\ v[1] > 127 /\ v[2] = 255 /\ v[3] = 255 /\ v[4] = 255
    /\ Seen(s, v) = v

\* SSMDeviceMarkCheck, which is satisfied by one mark.
MarkCheck == \E m \in DOMAIN MarkAreas : \E n \in 1..3 : Marks[n][1] = m /\ Read(m) = Marks[n][2]

\* Whatever was saved in between, by clients or by a restore, a setting reads
\* back as it was saved last, if the number fits; the lock of a source is the
\* one set last, whatever other locks are set before and after, unless a thread
\* sets it back that was between its two calls at the time, and shown only when
\* the switch is on; and the channel lock module comes back from a restart as it
\* was left.  (Of the sleep timer only the first byte is saved, and four are
\* read: it needs an area of zeros.)
SettingsKept ==
    /\ \A s \in DOMAIN told :
         Fits(s, told[s]) /\ (s = "SystemSleepTimer" => fill = 0) => Read(s) = told[s]
    /\ \A i \in DOMAIN locks \ crossed : i \in mask <=> locks[i]
    /\ \A i \in DOMAIN locks \ crossed : SourceLocked(i) => locks[i]
    /\ enabled = (Read("ChannelLockEnValue") = Zero)
    /\ DOMAIN MarkAreas \subseteq DOMAIN told => MarkCheck
=============================================================================
