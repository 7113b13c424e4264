SPECIFICATION Spec
CONSTANTS
    core = core
    MaxPid = 3
    Binaries = {core}
    ManualStart = FALSE
    PanelRestarts = TRUE
    OrphansSurvive = TRUE
INVARIANT StopIsFinal
