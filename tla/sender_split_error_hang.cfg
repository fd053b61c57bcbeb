\* One failed split: the callback returns before splitWorks.Done(), so
\* splitWorker's deferred splitWorks.Wait() never returns and Close hangs.
CONSTANTS
    t1 = t1
    t2 = t2
    Tables <- MCTables
    Batches <- MCBatches
    ChannelSize = 1
    SplitConcurrency = 2
    SplitMayFail = TRUE
    RestoreMayFail = FALSE
    MayCancel = FALSE
SPECIFICATION FairSpec
PROPERTY SenderCompletes
CHECK_DEADLOCK FALSE
