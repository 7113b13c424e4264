SPECIFICATION Spec
CONSTANTS
    a = a
    b = b
    bad = bad
    Contents = {a, b, bad}
    Invalid = {bad}
    ChildrenSurvive = FALSE
    MaxFaults = 1
    MaxEdits = 1
SYMMETRY Symmetry
INVARIANT ApplyInv
INVARIANT RunsTheFile
INVARIANT CacheTruthful
PROPERTY Activates
PROPERTY FailureRestores
PROPERTY ImplementsTransaction
