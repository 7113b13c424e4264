SPECIFICATION FairSpec
CONSTANTS
    old = old
    new = new
    MaxPid = 2
    Binaries = {old, new}
    ManualStart = TRUE
    PanelRestarts = TRUE
    OrphansSurvive = TRUE
INVARIANT TypeOK
INVARIANT SingleChild
INVARIANT NoRevival
INVARIANT Supervised
INVARIANT IInv
PROPERTY ImplementsLifecycle
PROPERTY BinaryStable
PROPERTY RestartHappens
