SPECIFICATION SignalSpec
CONSTANTS
    MaxChecks = 2
    MaxQueue = 3
INVARIANTS QuietTruth
PROPERTIES SignalReported
