----------------------------- MODULE EventParcel -----------------------------
(***************************************************************************)
(* How an event becomes the two vectors of a TvHidlParcel, field by field  *)
(* (DroidTvServiceIntf.cpp, onTvEvent), beside the order in which the      *)
(* interface before it wrote the same event (TvService.cpp, onTvEvent).    *)
(*                                                                         *)
(* A client takes the fields from the vectors in that order, so each has   *)
(* to be in its place, whatever number of audio and subtitle streams the   *)
(* event of a scan has.                                                    *)
(***************************************************************************)
EXTENDS Integers, Sequences, SequencesExt

CONSTANTS MaxStreams, \* audio or subtitle streams of a program
          MaxData,    \* bytes of a CEC or serial message
          MaxLcn,     \* MAX_LCN
          Unset

\* The events whose fields are written one after the other, at 0, 1, ...
Simple ==
    [EPG |-> <<"type", "time", "programID", "channelID">>,
     SOURCE_SWITCH |-> <<"DestSourceInput", "DestSourcePortNum">>,
     AV_PLAYBACK |-> <<"mMsgType", "mProgramId">>,
     PLAY_INSTANCE |-> <<"mMsgType", "type", "id">>,
     SIGNAL_DETECT |-> <<"mTrans_fmt", "mFmt", "mStatus", "mReserved", "mIsPiP">>,
     SUBTITLE |-> <<"pic_width", "pic_height">>,
     ADC_CALIBRATION |-> <<"mState">>,
     VGA |-> <<"mState">>,
     SOURCE_CONNECT |-> <<"mSourceInput", "connectionState">>,
     UPGRADE_FBC |-> <<"mState", "param">>,
     HEADSET |-> <<"state", "para">>,
     SCANNING_FRAME_STABLE |-> <<"CurScanningFreq">>,
     FRONTEND |-> <<"mStatus", "mFrequency", "mParam1", "mParam2", "mParam3", "mParam4", "mParam5",
                    "mParam6", "mParam7", "mParam8">>,
     RECORDER |-> <<"mStatus", "mError">>,
     AUDIO_CB |-> <<"cmd", "param1", "param2">>,
     CHECK_SOURCE_VALID |-> <<"cmd", "source">>,
     QMS |-> <<"qms_en", "qms_fps", "qms_base_fps">>]

Counted == [HDMIRX_CEC |-> <<"mDataCount">>, SERIAL_COMMUNICATION |-> <<"mDevId", "mDataCount">>]

HeadInts ==
    <<"mType", "mPercent", "mTotalChannelCount", "mLockedStatus", "mChannelIndex", "mFrequency",
      "mprogramType", "mStrength", "mSnr", "mVideoStd", "mAudioStd", "mIsAutoStd", "mMode", "mSymbolRate",
      "mModulation", "mBandwidth", "mReserved", "mTsId", "mONetId", "mServiceId", "mVid", "mVfmt", "mAcnt">>
Streams == <<"mPcr", "mScnt">>
Sdt == <<"mFree_ca", "mScrambled", "mScanMode", "mSdtVer", "mSortMode", "net_id", "ts_id", "service_id">>
Vct == <<"mMajorChannelNumber", "mMinorChannelNumber", "mSourceId", "mAccessControlled", "mHidden", "mHideGuide">>
Pat == <<"mProgramsInPat", "mPatTsId">>

AudioArrays == <<"mAid", "mAfmt", "mAtype", "mAExt">>
SubArrays == <<"mStype", "mSid", "mSstype", "mSid1", "mSid2">>

-----------------------------------------------------------------------------
(* Writes: pairs of an index and a field, which is a name and a number. *)

At(first, names) == [n \in 1..Len(names) |-> <<first + n - 1, <<names[n], 0>>>>]
Loop(first, name, count) == [n \in 1..count |-> <<first + n - 1, <<name, n - 1>>>>]

\* The arrays of the audio and of the subtitle streams begin here.
AudioBase(a, k) == k * a + 23

SubBase(a, s, k) == k * s + 4 * a + 25

ScanSize(a, s) == MaxLcn * 3 + 5 * s + 4 * a + 41

ScanInts(a, s) ==
    At(0, HeadInts)
      \o FlattenSeq([k \in 1..4 |-> Loop(AudioBase(a, k - 1), AudioArrays[k], a)])
      \o At(AudioBase(a, 4), Streams)
      \o FlattenSeq([k \in 1..5 |-> Loop(SubBase(a, s, k - 1), SubArrays[k], s)])
      \o At(SubBase(a, s, 5), Sdt)
      \o FlattenSeq([n \in 1..MaxLcn |->
           << <<(n - 1) * 3 + SubBase(a, s, 5) + 8, <<"visible", n - 1>>>>,
              <<(n - 1) * 3 + SubBase(a, s, 5) + 9, <<"lcn", n - 1>>>>,
              <<(n - 1) * 3 + SubBase(a, s, 5) + 10, <<"valid", n - 1>>>> >>])
      \o At(MaxLcn * 3 + SubBase(a, s, 5) + 8, Vct \o Pat)

ScanStrings(a, s) ==
    At(0, <<"mProgramName", "mParas">>) \o Loop(2, "mAlang", a) \o Loop(a + 2, "mSlang", s) \o At(s + a + 2, <<"mVct">>)

\* Faulty variant: the bytes begin where those of a CEC message do.
CountedInts_AsCec(event, count) == At(0, Counted[event]) \o Loop(1, "mDataBuf", count)
CountedInts(event, count) == At(0, Counted[event]) \o Loop(Len(Counted[event]), "mDataBuf", count)

-----------------------------------------------------------------------------
(* The old order: fields, and for each whether it is a string. *)

Ints(names) == [n \in 1..Len(names) |-> <<"int", <<names[n], 0>>>>]
Strings(names) == [n \in 1..Len(names) |-> <<"string", <<names[n], 0>>>>]
Each(kind, name, count) == [n \in 1..count |-> <<kind, <<name, n - 1>>>>]

OldScan(a, s) ==
    Ints(SubSeq(HeadInts, 1, 6)) \o Strings(<<"mProgramName">>) \o Ints(<<HeadInts[7]>>) \o Strings(<<"mParas">>)
      \o Ints(SubSeq(HeadInts, 8, 23))
      \o Each("int", "mAid", a) \o Each("int", "mAfmt", a) \o Each("string", "mAlang", a)
      \o Each("int", "mAtype", a) \o Each("int", "mAExt", a)
      \o Ints(Streams)
      \o FlattenSeq([k \in 1..5 |-> Each("int", SubArrays[k], s)]) \o Each("string", "mSlang", s)
      \o Ints(Sdt)
      \o FlattenSeq([n \in 1..MaxLcn |->
           <<<<"int", <<"visible", n - 1>>>>, <<"int", <<"lcn", n - 1>>>>, <<"int", <<"valid", n - 1>>>>>>])
      \o Ints(Vct) \o Strings(<<"mVct">>) \o Ints(Pat)

\* The others: four were not told, and mIsPiP was not.
New == {"AUDIO_CB", "SOURCE_SWITCH", "CHECK_SOURCE_VALID", "QMS"}
OldSimple(event) ==
    CASE event = "SIGNAL_DETECT" -> Ints(<<"mTrans_fmt", "mFmt", "mStatus", "mReserved">>)
      [] event = "RECORDER" -> Strings(<<"mId">>) \o Ints(<<"mStatus", "mError">>)
      [] event \in New -> <<>>
      [] OTHER -> Ints(Simple[event])

OldCounted(event, count) == Ints(Counted[event]) \o Each("int", "mDataBuf", count)

-----------------------------------------------------------------------------
VARIABLES event,   \* what is told
          a,       \* its audio streams, or its bytes
          s,       \* its subtitle streams
          ints,    \* bodyInt
          strings, \* bodyString
          done     \* how many fields were written
vars == <<event, a, s, ints, strings, done>>

IntWrites ==
    CASE event = "SCANNER" -> ScanInts(a, s)
      [] event \in DOMAIN Counted -> CountedInts(event, a)
      [] OTHER -> At(0, Simple[event])

StringWrites ==
    CASE event = "SCANNER" -> ScanStrings(a, s)
      [] event = "RECORDER" -> At(0, <<"mId">>)
      [] OTHER -> <<>>

Old ==
    CASE event = "SCANNER" -> OldScan(a, s)
      [] event \in DOMAIN Counted -> OldCounted(event, a)
      [] OTHER -> OldSimple(event)

\* What the vectors are resized to.
IntSize ==
    CASE event = "SCANNER" -> ScanSize(a, s)
      [] event = "HDMIRX_CEC" -> a + 1
      [] event = "SERIAL_COMMUNICATION" -> a + 2
      [] OTHER -> Len(Simple[event])

StringSize == CASE event = "SCANNER" -> s + a + 3 [] event = "RECORDER" -> 1 [] OTHER -> 0

Init ==
    /\ \/ event = "SCANNER" /\ a \in 0..MaxStreams /\ s \in 0..MaxStreams
       \/ event \in DOMAIN Counted /\ a \in 0..MaxData /\ s = 0
       \/ event \in DOMAIN Simple /\ a = 0 /\ s = 0
    /\ ints = [n \in 0..IntSize - 1 |-> Unset]
    /\ strings = [n \in 0..StringSize - 1 |-> Unset]
    /\ done = 0

Put(vector, write) == [n \in DOMAIN vector \cup {write[1]} |-> IF n = write[1] THEN write[2] ELSE vector[n]]

WriteInt ==
    /\ done < Len(IntWrites) /\ done' = done + 1
    /\ ints' = Put(ints, IntWrites[done + 1])
    /\ UNCHANGED <<event, a, s, strings>>

WriteString ==
    /\ done >= Len(IntWrites) /\ done < Len(IntWrites) + Len(StringWrites) /\ done' = done + 1
    /\ strings' = Put(strings, StringWrites[done + 1 - Len(IntWrites)])
    /\ UNCHANGED <<event, a, s, ints>>

Next == WriteInt \/ WriteString

Spec == Init /\ [][Next]_vars

-----------------------------------------------------------------------------
Fields(vector) == [n \in 1..Len(vector) |-> vector[n][2]]
InOrder(vector) == [n \in 1..Cardinality(DOMAIN vector) |-> vector[n - 1]]

\* No field is written outside the vector or over another; and when all are
\* written the vectors hold, without a gap, the fields of the old interface in
\* its order, integers and strings each for themselves; an event may have grown
\* at its end.
FieldsInPlace ==
    /\ DOMAIN ints = 0..IntSize - 1 /\ DOMAIN strings = 0..StringSize - 1
    /\ \A n \in 1..Len(IntWrites) : n <= done => ints[IntWrites[n][1]] = IntWrites[n][2]
    /\ done = Len(IntWrites) + Len(StringWrites) =>
         /\ Unset \notin {ints[n] : n \in DOMAIN ints} \cup {strings[n] : n \in DOMAIN strings}
         /\ IsPrefix(Fields(SelectSeq(Old, LAMBDA f : f[1] = "int")), InOrder(ints))
         /\ event \notin New \cup {"SIGNAL_DETECT"} =>
              Fields(SelectSeq(Old, LAMBDA f : f[1] = "int")) = InOrder(ints)
         /\ Fields(SelectSeq(Old, LAMBDA f : f[1] = "string")) = InOrder(strings)
=============================================================================
