CONSTANTS
    Metas <- MCSafetyMetas
    MayFail = TRUE
    CreatedIDs <- MCCreatedIDs
    IndexIDs <- MCIndexIDs
    MayCancel = TRUE
SPECIFICATION FairSpec
INVARIANT TypeOK
INVARIANT FailedFileReported
INVARIANT TableFilesLoaded
PROPERTY RestoreTableReturns
