\* Cancellation with every split and restore succeeding, channels large
\* enough for every batch (as defaultChannelSize is): restoreWorker may
\* leave a batch unread in midCh, so a restore callback waits forever on
\* that batch's table WaitGroup and Close hangs.
CONSTANTS
    t1 = t1
    t2 = t2
    Tables <- MCTables
    Batches <- MCBatches
    ChannelSize = 3
    SplitConcurrency = 2
    SplitMayFail = FALSE
    RestoreMayFail = FALSE
    MayCancel = TRUE
SPECIFICATION FairSpec
PROPERTY CloseEventuallyReturns
CHECK_DEADLOCK FALSE
