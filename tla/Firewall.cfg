SPECIFICATION Spec
CONSTANTS
    Taps = {tap1, tap2}
    Veths = {"veth1", "veth2"}
    Crews <- MCCrews
    Edits = TRUE
SYMMETRY TapSymmetry
CHECK_DEADLOCK FALSE
INVARIANTS
    EgressEnforced
    ClonesIsolated
    ContainedIsStopped
