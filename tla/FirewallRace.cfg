SPECIFICATION Spec
CONSTANTS
    Taps = {"tap1", "tap2"}
    Veths = {}
    Crews = {{"tap1", "tap2"}}
    Edits = FALSE
CHECK_DEADLOCK FALSE
INVARIANT FlatEnforced
