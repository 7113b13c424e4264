SPECIFICATION FairSpec
CONSTANTS
    w1 = w1
    w2 = w2
    Worker = {w1, w2}
    MaxUser = 1
    MaxListener = 0
    MaxUpdates = 2
    ApplyFails = TRUE
    PanelRestarts = TRUE
    Backups <- NoBackups
PROPERTY EveryChangeTried
