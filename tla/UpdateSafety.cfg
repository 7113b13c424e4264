SPECIFICATION Spec
CONSTANTS
    c1 = c1
    c2 = c2
    c3 = c3
    Core = {c1, c2, c3}
    None = None
    BundledPath = BundledPath
    StartFails = TRUE
    FilesGetLost = TRUE
SYMMETRY Symmetry
INVARIANT SelectionOnDisk
INVARIANT RunningOnDisk
INVARIANT ActiveProven
INVARIANT RunsBinaryPath
INVARIANT UpdateInv
PROPERTY RolledBackTruthful
