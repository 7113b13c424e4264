SPECIFICATION Spec
CONSTANTS
    w1 = w1
    w2 = w2
    Worker = {w1, w2}
    MaxUser = 1
    MaxListener = 1
    MaxUpdates = 2
    ApplyFails = TRUE
    PanelRestarts = TRUE
    Backups <- FirstDay
SYMMETRY Symmetry
INVARIANT TypeOK
INVARIANT NoLostWakeup
INVARIANT RegenInv
PROPERTY SwitchUndisturbed
