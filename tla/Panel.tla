-------------------------------- MODULE Panel --------------------------------
(***************************************************************************)
(* The files that CTvPanel makes for the timing controller out of the SPI  *)
(* flash of the panel (CTvPanel.cpp, in a build with SUPPORT_PANEL).       *)
(*                                                                         *)
(* Converting takes long, so it is done once: a check file holds the CRC   *)
(* of the panel whose data the other files were made from, and a start     *)
(* that finds the CRC of the attached panel there leaves the files alone.  *)
(* A start may be cut off anywhere, reads and writes may fail, and a panel *)
(* may be replaced while the power is off.                                 *)
(*                                                                         *)
(* The content of a file is the panel it was made from.  A CRC stands for  *)
(* its panel: different panels have different ones.  Remounting /vendor    *)
(* does nothing for these files, which are elsewhere, and is left out.     *)
(***************************************************************************)
EXTENDS Naturals, Sequences

CONSTANTS Panels,
          Flash,    \* what the flash of each panel holds
          Failing,  \* what may fail
          NoFile,     \* no file
          Torn      \* a file that was not written to its end

CrcKinds == {"43D10", "50INX", "50T01", "65D02_3", "65D02_H"}
Kinds == CrcKinds \cup {"55SDC", "other"}
Causes == {"key", "check", "read", "write", "remove"}

Contents == [kind : Kinds,
             header : {"data", "ones", "zeros"},  \* the first bytes of the demura data
             para : BOOLEAN, lut : BOOLEAN,       \* their checksums are right
             acc : BOOLEAN, flicker : BOOLEAN,
             gammaKind : {"none", "plain", "spec", "spec3"},
             gamma : BOOLEAN]                     \* it is neither blank nor wrong

ASSUME PanelAssumption ==
    /\ Flash \in [Panels -> Contents]
    /\ Failing \subseteq Causes
    /\ NoFile # Torn /\ NoFile \notin Panels /\ Torn \notin Panels

VARIABLES panel,  \* the panel attached
          files,  \* what each file was made from; gammaKey is the gamma file's CRC
          dvr,    \* the panel whose flicker value the PMIC has
          pc,     \* where the start is
          left,   \* files that PANEL_REMOVE_BIN_FILE still has to remove
          known,  \* panels that have been attached (history)
          clean,  \* nothing has failed in this start (history)
          trouble \* has anything failed since the panel was attached (history):
                  \* "check" if the comparison with the check file has
panelVars == <<panel, files, dvr, pc, left, known, clean, trouble>>

F == Flash[panel]
Files == {"lut", "set", "acc", "crc", "gamma", "gammaKey"}

PanelInit ==
    /\ panel \in Panels /\ known = {panel}
    /\ files = [f \in Files |-> NoFile] /\ dvr = NoFile
    /\ pc = "off" /\ left = <<>>
    /\ clean = TRUE /\ trouble = "none"

-----------------------------------------------------------------------------
(* What the conversions need of the flash before they write anything.       *)

Usable43D10(c) == c.header # "ones" /\ c.lut
Usable50INX(c) == c.header # "ones" /\ c.lut
Usable50T01(c) == c.lut
Usable65D02_3(c) == c.header = "data" /\ c.para /\ c.lut
\* The sum over these data is taken of memory that was never written
\* (PANEL_65D02_H_DEMURA_CRC), so it may come out right or wrong.
Usable65D02_H(c) == TRUE
Doubted(c) == c.kind = "65D02_H"
Usable55SDC(c) == c.lut /\ c.para

Usable(c) ==
    \/ c.kind = "43D10" /\ Usable43D10(c)
    \/ c.kind = "50INX" /\ Usable50INX(c)
    \/ c.kind = "50T01" /\ Usable50T01(c)
    \/ c.kind = "65D02_3" /\ Usable65D02_3(c)
    \/ c.kind = "65D02_H" /\ Usable65D02_H(c)
    \/ c.kind = "55SDC" /\ Usable55SDC(c)

-----------------------------------------------------------------------------
(* Files and failures. *)

Fine == UNCHANGED <<clean, trouble>>
Fails(cause) ==
    /\ cause \in Failing /\ clean' = FALSE
    /\ trouble' = IF "check" \in {cause, trouble} THEN "check" ELSE "some"

\* tvFlashWrite does not empty the file before it writes.
Written(fs) == Fine /\ files' = [f \in Files |-> IF f \in fs THEN panel ELSE files[f]]
Spoilt(fs) == [f \in Files |-> IF f \in fs THEN Torn ELSE files[f]]
NotWritten(f) == Fails("write") /\ files' \in {files, Spoilt({f})}

Gone(f) == {f} \cup (IF f = "gamma" THEN {"gammaKey"} ELSE {})
Removed(f) == Fine /\ files' = [g \in Files |-> IF g \in Gone(f) THEN NoFile ELSE files[g]]
NotRemoved(f) ==
    /\ UNCHANGED files
    /\ IF files[f] = NoFile THEN Fine ELSE Fails("remove")

\* Where a conversion ends.
After == IF F.kind = "55SDC" THEN "flicker" ELSE "gamma"

-----------------------------------------------------------------------------
(* The start: AM_PANEL_Init, PANEL_SIZE_CHOICE. *)

PowerOn ==
    /\ pc = "off" /\ clean' = TRUE
    /\ pc' = IF F.kind = "other" THEN "gamma" ELSE "check"
    /\ UNCHANGED <<panel, files, dvr, left, known, trouble>>

\* The unify key that says which panel it is cannot be read.
NoKey ==
    /\ pc = "off" /\ Fails("key") /\ pc' = "done"
    /\ UNCHANGED <<panel, files, dvr, left, known>>

\* The power goes, also in the middle of a start.
PowerOff ==
    /\ pc # "off" /\ pc' = "off" /\ left' = <<>>
    /\ UNCHANGED <<panel, files, dvr, known, clean, trouble>>

Replace(p) ==
    /\ pc = "off" /\ p \notin known
    /\ panel' = p /\ known' = known \cup {p}
    /\ clean' = TRUE /\ trouble' = "none"
    /\ UNCHANGED <<files, dvr, pc, left>>

\* PANEL_BIN_FILE_CEHCK for the five kinds that have files to be checked.
AllThere == files.lut # NoFile /\ files.set # NoFile /\ files.crc # NoFile
Convert == IF F.kind = "55SDC" THEN "acc" ELSE "lut"

CheckSame ==
    /\ pc = "check"
    /\ F.kind # "55SDC" => AllThere
    /\ files.crc = panel
    /\ pc' = After
    /\ UNCHANGED <<panel, files, dvr, left, known, clean, trouble>>

CheckMissing ==
    /\ pc = "check" /\ F.kind # "55SDC" /\ ~AllThere
    /\ pc' = Convert
    /\ UNCHANGED <<panel, files, dvr, left, known, clean, trouble>>

Outdated ==
    /\ pc' = "remove" /\ left' = <<"lut", "set", "gamma", "acc", "crc">>

\* Faulty variant: the old files are kept.
CheckDiffers_Keep ==
    /\ pc = "check"
    /\ F.kind # "55SDC" => AllThere
    /\ files.crc # panel
    /\ pc' = Convert
    /\ UNCHANGED <<panel, files, dvr, left, known, clean, trouble>>

CheckDiffers ==
    /\ pc = "check"
    /\ F.kind # "55SDC" => AllThere
    /\ files.crc # panel
    /\ Outdated
    /\ UNCHANGED <<panel, files, dvr, known, clean, trouble>>

\* A flash that cannot be read is as good as a missing file; a check file
\* that cannot be read is one that says zero.
CheckFails ==
    /\ pc = "check" /\ Fails("check")
    /\ F.kind # "55SDC" => AllThere
    /\ Outdated \/ (pc' = Convert /\ UNCHANGED left)
    /\ UNCHANGED <<panel, files, dvr, known>>

\* PANEL_REMOVE_BIN_FILE(0).
Remove ==
    /\ pc = "remove" /\ left # <<>>
    /\ Removed(Head(left)) \/ NotRemoved(Head(left))
    /\ left' = Tail(left)
    /\ pc' = IF left' = <<>> THEN Convert ELSE pc
    /\ UNCHANGED <<panel, dvr, known>>

-----------------------------------------------------------------------------
(* Conversions. *)

\* The data are read and checked in memory, and the first file is written.
LutUseless ==
    /\ pc = "lut" /\ pc' = After
    /\ Fails("read") \/ (Fine /\ (~Usable(F) \/ Doubted(F)))
    /\ UNCHANGED <<panel, files, dvr, left, known>>

\* Faulty variant: a failed write does not end the conversion.
WriteLut_GoOn ==
    /\ pc = "lut" /\ Usable(F)
    /\ Written({"lut"}) \/ NotWritten("lut")
    /\ pc' = "set"
    /\ UNCHANGED <<panel, dvr, left, known>>

WriteLut ==
    /\ pc = "lut" /\ Usable(F)
    /\ \/ Written({"lut"}) /\ pc' = "set"
       \/ NotWritten("lut") /\ pc' = After
    /\ UNCHANGED <<panel, dvr, left, known>>

\* PANEL_55SDC_data_Conversion leaves the check file to the end.
WriteSet ==
    /\ pc = "set"
    /\ \/ Written({"set"}) /\ pc' = IF F.kind = "55SDC" THEN After ELSE "crc"
       \/ NotWritten("set") /\ pc' = After
    /\ UNCHANGED <<panel, dvr, left, known>>

WriteCrc ==
    /\ pc = "crc" /\ pc' = After
    /\ Written({"crc"}) \/ NotWritten("crc")
    /\ UNCHANGED <<panel, dvr, left, known>>

\* PANEL_55SDC_Acc_Conversion, whose result nobody looks at.
ConvertAcc ==
    /\ pc = "acc" /\ pc' = "lut"
    /\ \/ Fails("read") /\ UNCHANGED files
       \/ ~F.acc /\ (Removed("acc") \/ NotRemoved("acc"))
       \/ F.acc /\ (Written({"acc"}) \/ NotWritten("acc"))
    /\ UNCHANGED <<panel, dvr, left, known>>

\* PANEL_AutoFlicker.
AutoFlicker ==
    /\ pc = "flicker" /\ pc' = "sdcCheck"
    /\ \/ Fails("read") /\ UNCHANGED dvr
       \/ Fine /\ dvr' = IF F.flicker THEN panel ELSE dvr
    /\ UNCHANGED <<panel, files, left, known>>

\* PANEL_CreatSdcCheckBin, after conversions that may all have failed.
CreatSdcCheckBin ==
    /\ pc = "sdcCheck" /\ pc' = "gamma"
    /\ \/ Fails("read") /\ UNCHANGED files
       \/ Written({"crc"}) \/ NotWritten("crc")
    /\ UNCHANGED <<panel, dvr, left, known>>

-----------------------------------------------------------------------------
(* The gamma file. *)

NoGamma ==
    /\ pc = "gamma" /\ F.gammaKind = "none" /\ pc' = "done"
    /\ UNCHANGED <<panel, files, dvr, left, known, clean, trouble>>

\* PANEL_REMOVE_BIN_FILE(1).
Forget == Removed("gamma") \/ NotRemoved("gamma")
Forgotten ==
    /\ Fails("read")
    /\ files' \in {files, [files EXCEPT !.gamma = NoFile, !.gammaKey = NoFile]}

\* Faulty variant: gamma data that are not there leave the file alone.
GammaUseless_Keep ==
    /\ pc = "gamma" /\ F.gammaKind # "none" /\ ~F.gamma /\ pc' = "done"
    /\ UNCHANGED <<panel, files, dvr, left, known, clean, trouble>>

GammaUseless ==
    /\ pc = "gamma" /\ F.gammaKind # "none" /\ ~F.gamma /\ pc' = "done"
    /\ Forget
    /\ UNCHANGED <<panel, dvr, left, known>>

\* The flash, or the file of default values that "spec" and "spec3" mix the
\* data with, cannot be read.
GammaUnread ==
    /\ pc = "gamma" /\ F.gammaKind # "none" /\ pc' = "done"
    /\ Forgotten
    /\ UNCHANGED <<panel, dvr, left, known>>

\* The CRC is the end of the file.
PartsOfGamma == {{}, {"gamma"}, {"gamma", "gammaKey"}}
WriteGamma ==
    \/ Written({"gamma", "gammaKey"})
    \/ Fails("write") /\ \E torn \in PartsOfGamma : files' = Spoilt(torn)

\* PANEL_SPI_PGAMMA.  The file there cannot be read, and goes.
PlainGamma(same) ==
    /\ F.gammaKind = "plain"
    /\ \/ same /\ Fine /\ UNCHANGED files
       \/ ~same /\ WriteGamma
       \/ files.gamma # NoFile /\ Forgotten

\* PANEL_SPI_PGAMMA_SPEC.  The file there cannot be read, and stays.
SpecGamma(same) ==
    /\ F.gammaKind = "spec"
    /\ \/ same /\ Fine /\ UNCHANGED files
       \/ ~same /\ WriteGamma
       \/ files.gamma # NoFile /\ Fails("read") /\ UNCHANGED files

\* PANEL_SPI_PGAMMA_SPEC_65D02_3.  The file there cannot be read, and is
\* written again.
Spec3Gamma(same) ==
    /\ F.gammaKind = "spec3"
    /\ \/ same /\ Fine /\ UNCHANGED files
       \/ ~same /\ WriteGamma
       \/ same /\ Fails("check") /\ \E torn \in PartsOfGamma : files' = Spoilt(torn)

Gamma ==
    /\ pc = "gamma" /\ F.gamma /\ pc' = "done"
    /\ LET same == files.gammaKey = panel
       IN  PlainGamma(same) \/ SpecGamma(same) \/ Spec3Gamma(same)
    /\ UNCHANGED <<panel, dvr, left, known>>

-----------------------------------------------------------------------------
PanelNext ==
    \/ PowerOn \/ NoKey \/ PowerOff
    \/ \E p \in Panels : Replace(p)
    \/ CheckSame \/ CheckMissing \/ CheckDiffers \/ CheckFails
    \/ Remove
    \/ LutUseless \/ WriteLut \/ WriteSet \/ WriteCrc
    \/ ConvertAcc \/ AutoFlicker \/ CreatSdcCheckBin
    \/ NoGamma \/ GammaUseless \/ GammaUnread \/ Gamma

PanelSpec == PanelInit /\ [][PanelNext]_panelVars

-----------------------------------------------------------------------------
(* Properties. *)

\* The next start would take the files for those of the attached panel.
Trusted == F.kind \in CrcKinds /\ AllThere /\ files.crc = panel

\* Files that the next start will not make again are those of the attached
\* panel, to their end, wherever a start was cut off, whatever failed in it and
\* whichever panels were attached before.  It takes that no panel comes back
\* (Replace), and that the comparison of this panel with the check file has
\* never failed: a file that was good may then be torn under its old CRC.
CheckedIsOurs == trouble # "check" =>
    /\ Trusted => files.lut = panel /\ files.set = panel
    /\ files.gammaKey = panel => files.gamma = panel

SureKinds == CrcKinds \ {"65D02_H"}

\* A start in which nothing fails puts right what earlier ones have left: good
\* data are there, and no other panel's are trusted in their place.  For 55SDC
\* nothing may have failed since the panel was attached, as its check file is
\* written whether or not the conversions succeed; nothing is said of the table
\* of a 65D02_H, whose data may be refused at any start.
CleanStart ==
    pc = "done" /\ clean /\ trouble # "check" =>
      /\ F.kind \in SureKinds /\ Usable(F) => \A f \in {"lut", "set", "crc"} : files[f] = panel
      /\ F.kind \in SureKinds /\ ~Usable(F) => ~AllThere
      /\ F.kind = "55SDC" /\ trouble = "none" =>
           /\ Usable(F) => files.lut = panel /\ files.set = panel
           /\ files.acc = IF F.acc THEN panel ELSE NoFile
      /\ F.gammaKind # "none" => files.gamma = IF F.gamma THEN panel ELSE NoFile
=============================================================================
