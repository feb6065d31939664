----------------------------- MODULE AnalogStd -----------------------------
(***************************************************************************)
(* How CFrontEnd (libtv/tv/CFrontEnd.cpp) passes an analog standard on:    *)
(* the clients' pair of enumerations becomes a word of V4L2 bits, which    *)
(* convertParas turns into a pair again for setPara to make the word that  *)
(* the tuner gets.  A word is the set of its bits.                         *)
(***************************************************************************)
EXTENDS FiniteSets

Videos == {"AUTO", "PAL", "NTSC", "SECAM"}
Audios == {"DK", "I", "BG", "M", "L", "LC", "AUTO"}

\* linux/videodev2.h, as far as the conversions tell its bits apart.
PAL_DK == {"PAL_D", "PAL_D1", "PAL_K"}
PAL_BG == {"PAL_B", "PAL_B1", "PAL_G"}
PAL_I == {"PAL_I"}
PAL_M == {"PAL_M"}
NTSC_M == {"NTSC_M"}
SECAM_DK == {"SECAM_D", "SECAM_K", "SECAM_K1"}
SECAM_L == {"SECAM_L"}
SECAM_LC == {"SECAM_LC"}
Colour(v) == CASE v = "PAL" -> {"PAL"} [] v = "NTSC" -> {"NTSC"}
               [] v = "SECAM" -> {"SECAM"} [] v = "AUTO" -> {}

\* The sound bits that go with a colour system; a pair that does not exist has
\* none.
SoundBits(v, a) ==
    CASE v = "SECAM" /\ a = "DK" -> SECAM_DK
      [] v = "SECAM" /\ a = "BG" -> {"SECAM_B", "SECAM_G"}
      [] v = "SECAM" /\ a = "L"  -> SECAM_L
      [] v = "SECAM" /\ a = "LC" -> SECAM_LC
      [] v \in {"PAL", "NTSC"} /\ a = "DK" -> PAL_DK
      [] v \in {"PAL", "NTSC"} /\ a = "BG" -> PAL_BG
      [] v \in {"PAL", "NTSC", "SECAM"} /\ a = "I" -> PAL_I
      [] v = "PAL" /\ a = "M" -> PAL_M
      [] v \in {"NTSC", "SECAM"} /\ a = "M" -> NTSC_M
      [] OTHER -> {}

enumToStdAndColor(v, a) == Colour(v) \cup SoundBits(v, a)

stdAndColorToVideoEnum(w) ==
    CASE "PAL" \in w -> "PAL"
      [] "PAL" \notin w /\ "NTSC" \in w -> "NTSC"
      [] w \cap {"PAL", "NTSC"} = {} /\ "SECAM" \in w -> "SECAM"
      [] OTHER -> IF w = {} THEN "AUTO" ELSE "PAL"

\* Faulty variant: the SECAM bits of BG are not looked for.
stdAndColorToAudioEnum_PalOnly(w) ==
    CASE PAL_DK \subseteq w \/ SECAM_DK \subseteq w -> "DK"
      [] PAL_I \subseteq w -> "I"
      [] PAL_BG \subseteq w -> "BG"
      [] PAL_M \subseteq w \/ NTSC_M \subseteq w -> "M"
      [] SECAM_L \subseteq w -> "L"
      [] SECAM_LC \subseteq w -> "LC"
      [] OTHER -> IF w = {} THEN "AUTO" ELSE "DK"

\* At most one of the conditions holds of a word that enumToStdAndColor made.
stdAndColorToAudioEnum(w) ==
    CASE PAL_DK \subseteq w \/ SECAM_DK \subseteq w -> "DK"
      [] PAL_I \subseteq w -> "I"
      [] PAL_BG \subseteq w \/ "SECAM_B" \in w \/ "SECAM_G" \in w -> "BG"
      [] PAL_M \subseteq w \/ NTSC_M \subseteq w -> "M"
      [] SECAM_L \subseteq w -> "L"
      [] SECAM_LC \subseteq w -> "LC"
      [] OTHER -> IF w = {} THEN "AUTO" ELSE "DK"

ViaWord(std) ==
    LET w == enumToStdAndColor(std.video, std.audio)
    IN  [video |-> stdAndColorToVideoEnum(w), audio |-> stdAndColorToAudioEnum(w)]
-----------------------------------------------------------------------------
\* The format that the decoder of the picture is set to, after what is known of
\* the picture and the standard of the channel.  The picture is looked up by all
\* of its bits but those of the colour system.

\* Faulty variant: the lines of a PAL channel are not looked at.
stdEnumToCvbsFmt_PalI(vfmt, std) ==
    CASE vfmt \cap {"PAL", "NTSC", "SECAM"} = {"NTSC"} -> "NTSC_M"
      [] vfmt \cap {"PAL", "NTSC", "SECAM"} = {"PAL"} -> "PAL_I"
      [] vfmt \cap {"PAL", "NTSC", "SECAM"} = {"SECAM"} -> "SECAM"
      [] OTHER -> "NULL"

stdEnumToCvbsFmt(vfmt, std) ==
    LET colour == vfmt \cap {"PAL", "NTSC", "SECAM"}
        lines == vfmt \ colour
        m == std \cap (PAL_M \cup NTSC_M) # {}
        other == std \cap (PAL_DK \cup PAL_BG \cup PAL_I) # {}
        ofM == CASE lines = {"PAL_60"} -> "PAL_60"
                 [] lines = {"PAL_Nc"} -> "PAL_CN"
                 [] lines \in {PAL_DK, PAL_BG, PAL_I, PAL_M, NTSC_M} -> "PAL_M"
                 [] OTHER -> "PAL_I"
    IN  CASE colour = {"NTSC"} -> IF lines = {"NTSC_443"} /\ ~m /\ other THEN "NTSC_443" ELSE "NTSC_M"
          [] colour = {"PAL"} -> IF m THEN ofM ELSE "PAL_I"
          [] colour = {"SECAM"} -> "SECAM"
          [] OTHER -> "NULL"
=============================================================================
