\* Safety of the sender under split and restore errors and cancellation.
\* A failed split never returns its splitWorks slot, so the sender can
\* block for good: those final states are real, hence no deadlock check.
CONSTANTS
    t1 = t1
    t2 = t2
    Tables <- MCTables
    Batches <- MCBatches
    ChannelSize = 1
    SplitConcurrency = 2
    SplitMayFail = TRUE
    RestoreMayFail = TRUE
    MayCancel = TRUE
SPECIFICATION Spec
INVARIANT TypeOK
INVARIANT TablesReportedAfterAllTheirRanges
INVARIANT NoPanic
CHECK_DEADLOCK FALSE
