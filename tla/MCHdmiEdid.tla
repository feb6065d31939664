----------------------------- MODULE MCHdmiEdid -----------------------------
(* Model values for HdmiEdid.  Binder threads differ in nothing but their    *)
(* name.                                                                     *)
EXTENDS HdmiEdid, TLC

Alike == Permutations(Callers)
=============================================================================
