\* Calls, plugs and steps are bounded: a behaviour may end.
SPECIFICATION MCSpec
CONSTANTS
    Scans <- Both
    Table <- Channels234
    DtvTable <- Channels234
    Nothing = Nothing
    Threads <- MCThreads
    Numbers <- MCNumbers
    Lockable <- MCLockable
    Fills = {0, 255}
    Addresses <- MCAddresses
    Codes <- MCCodes
    Keys <- MCKeys
    Configs <- MCConfigs
    Cables = {1, 3}
    Askable = {"HDMI1", "HDMI2", "AV1", "AV2"}
    Foreign <- MCForeign
    Sinks <- MCSinks
    Fps <- MCFps
    Formats <- MCFormats
    Programs <- MCPrograms
    Times = {0, 5}
    States = {"START", "PAUSE", "FF", "FB"}
    PipSources = {"HDMI1", "HDMI2"}
    Fmts = {"1080P60", "720P50"}
    Payloads <- MCPayloads
    Requests <- MCRequests
    Sections <- MCSections
    Regions <- MCRegions
    Failures <- MCFailures
    Bounds <- MCBounds
INVARIANTS OwnStream NumbersKept SettingsKept OutputFits ClientsTold ParcelsInPlace
PROPERTIES ToldAgain
CHECK_DEADLOCK FALSE
