------------------------------- MODULE MCPanel -------------------------------
(* The starts of a set with CTvPanel, or the conversions of its tables, one  *)
(* or the other in a behaviour.                                              *)
(*                                                                           *)
(* Starts: three panels that are checked by a CRC, one of them without data, *)
(* one of the kind 55SDC, and one that needs no demura files.  Each way to   *)
(* make a gamma file occurs.                                                 *)
(* Tables: of two lines; sums of up to three bytes, of one bit or none or    *)
(* all: they are linear.                                                     *)
EXTENDS Panel, FiniteSets

CONSTANTS p1, p2, p3, p4, p5

Good(kind, gammaKind) ==
    [kind |-> kind, header |-> "data", para |-> TRUE, lut |-> TRUE, acc |-> TRUE,
     flicker |-> TRUE, gammaKind |-> gammaKind, gamma |-> TRUE]

MCPanels == {p1, p2, p3, p4, p5}
MCFlash == [p \in MCPanels |->
              CASE p = p1 -> Good("50T01", "plain")
                [] p = p2 -> [Good("65D02_3", "plain") EXCEPT !.header = "ones", !.gamma = FALSE]
                [] p = p3 -> Good("55SDC", "spec")
                [] p = p4 -> Good("65D02_H", "spec3")
                [] p = p5 -> Good("other", "none")]

VARIABLES part, job, at, count, loop, read, used, cell, sum, true, value
tables == <<job, at, count, loop, read, used, cell, sum, true, value>>

Demura == INSTANCE Demura WITH
    Lines <- 2, Fed <- 3, Edges <- {0, 1, 2, 3, 5, 64, 126, 127},
    Bytes <- {{n} : n \in 0..7} \cup {{}, 0..7}

MCInit ==
    /\ PanelInit /\ Demura!Init
    /\ part \in {"start", "tables"} /\ (part = "tables" => panel = p1)

MCNext ==
    /\ UNCHANGED part
    /\ \/ part = "start" /\ PanelNext /\ UNCHANGED tables
       \/ part = "tables" /\ Demura!Next /\ UNCHANGED panelVars

MCSpec == MCInit /\ [][MCNext]_<<panelVars, tables, part>>

\* The entries of every table are made of the bits stored for them.
EntriesInPlace == Demura!EntriesInPlace
\* Numbers keep sign and value, decoded points their bounds.
Converted == Demura!Converted
\* Check sums are remainders of polynomial division.
SumsAgree == Demura!SumsAgree
=============================================================================
