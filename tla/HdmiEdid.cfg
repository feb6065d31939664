SPECIFICATION Spec
CONSTANTS
    Ports = {h1}
    Callers = {c1, c2}
    LoadModes = {TRUE, FALSE}
    Others = {"AV"}
    SupportDlg = TRUE
    MaxRaced = 1
    None = None
SYMMETRY Alike
INVARIANTS PlacesAgree
