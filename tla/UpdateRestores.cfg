SPECIFICATION Spec
CONSTANTS
    c1 = c1
    c2 = c2
    c3 = c3
    Core = {c1, c2, c3}
    None = None
    BundledPath = BundledPath
    StartFails = FALSE
    FilesGetLost = FALSE
SYMMETRY Symmetry
INVARIANT FailedSwitchRestores
