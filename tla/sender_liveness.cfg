\* Without split errors and without cancellation the sender terminates:
\* Close returns and every completed table is reported exactly once.
CONSTANTS
    t1 = t1
    t2 = t2
    Tables <- MCTables
    Batches <- MCBatches
    ChannelSize = 1
    SplitConcurrency = 2
    SplitMayFail = FALSE
    RestoreMayFail = TRUE
    MayCancel = FALSE
SPECIFICATION FairSpec
PROPERTY SenderCompletes
