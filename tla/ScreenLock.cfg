SPECIFICATION Spec
CONSTANTS
    MaxMessages = 1
    MaxRefusals = 1
    Signals = {"NOSIG", "STABLE"}
    Configs <- Bare
    Requests = {"block", "unblock", "enable", "channel"}
    TunerSources = {"INVALID", "TV", "DTV"}
INVARIANTS ResourcesFollow LockedHidden
