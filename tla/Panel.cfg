SPECIFICATION MCSpec
CONSTANTS
    p1 = p1
    p2 = p2
    p3 = p3
    p4 = p4
    p5 = p5
    Panels <- MCPanels
    Flash <- MCFlash
    Failing = {"key", "check", "read", "write", "remove"}
    NoFile = NoFile
    Torn = Torn
INVARIANTS CheckedIsOurs CleanStart EntriesInPlace Converted SumsAgree
