SPECIFICATION Spec
CONSTANTS
    MaxMessages = 1
    MaxRefusals = 0
    Signals = {"NOSIG", "UNSTABLE", "NOTSUP", "STABLE"}
    Configs <- Snowy
    Requests = {"color"}
    TunerSources = {"INVALID", "TV", "DTV"}
INVARIANTS DecoderFollows PictureShown
