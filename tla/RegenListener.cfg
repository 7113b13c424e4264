SPECIFICATION Spec
CONSTANTS
    w1 = w1
    w2 = w2
    Worker = {w1, w2}
    MaxUser = 1
    MaxListener = 1
    MaxUpdates = 1
    ApplyFails = FALSE
    PanelRestarts = FALSE
    Backups <- NoBackups
INVARIANT ListenerReconciled
