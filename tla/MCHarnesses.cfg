\* Four adapters, an abort at any await, usage readings 0..3.
CONSTANTS
    MaxTokens = 3
    MaxTools = 2
    None = None
SPECIFICATION FairSpec
INVARIANTS
    DoneIsBilledInFull
    LivePreviewIsKept
PROPERTIES
    KeepsHarnessContract
    CancelEnds
CHECK_DEADLOCK FALSE
