SPECIFICATION Spec
CONSTANTS
    Paras <- MCParas
    Digital = {"OFDM", "QAM"}
    None = None
INVARIANTS CacheBacked StandardKept
PROPERTIES ReplayKeepsSignal
