----------------------------- MODULE MCFrontEnd -----------------------------
(* Two digital channels of different modes, an analog one, the same with     *)
(* another format, and one of another standard.                              *)
EXTENDS FrontEnd

Default == [video |-> "AUTO", audio |-> "DK"]
Secam == [video |-> "SECAM", audio |-> "BG"]
Ntsc == [video |-> "NTSC", audio |-> "M"]

MCParas == {[mode |-> "OFDM",   freq |-> 474, std |-> Default, fmt |-> 0],
            [mode |-> "QAM",    freq |-> 306, std |-> Default, fmt |-> 0],
            [mode |-> "ANALOG", freq |-> 471, std |-> Secam,   fmt |-> 1],
            [mode |-> "ANALOG", freq |-> 471, std |-> Secam,   fmt |-> 2],
            [mode |-> "ANALOG", freq |-> 471, std |-> Ntsc,    fmt |-> 1]}
=============================================================================
