SPECIFICATION Spec
CONSTANTS
    DtvIds = {"atsc"}
    AtvIds = {"atv"}
    RecorderIds = {"rec", "rec2", "timeshifting"}
    Fifos = {0, 1, 2}
    DefaultFifo = 0
    None = None
INVARIANTS RecordersTended TimeShiftIsReal NothingLeftBehind
PROPERTIES ClientsKeepRecordings
