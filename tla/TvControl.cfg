SPECIFICATION Spec
CONSTANTS
    Programs = {p1, p2}
    None = None
    AtvScanSources = {"INVALID", "TV", "HDMI"}
INVARIANTS StopingTruthful PlaybackOwned StopLeavesIdle
PROPERTIES ScanOwnsTuner ImplementsWatch
