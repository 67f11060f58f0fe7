SPECIFICATION Spec
CONSTANTS
    w1 = w1
    w2 = w2
    t1 = t1
    t2 = t2
    Workers <- MCWorkers
    Tools <- MCTools
    Cancellable <- OneTool
    MaxAttempts = 2
    LateToken = FALSE
    Fallible <- EvidenceErrors
    MaxErrors = 1
SYMMETRY Symmetric
CHECK_DEADLOCK FALSE
INVARIANTS
    CompletedHasEvidence
    OneRunPerTool
PROPERTIES
    CompletedKept
    ToolCancelSticky
    HolderEvidenceSafe
