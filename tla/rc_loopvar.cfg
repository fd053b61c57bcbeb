CONSTANTS
    Metas <- MCTwoFileMetas
    MayFail = FALSE
    CreatedIDs <- MCCreatedIDs
    IndexIDs <- MCIndexIDs
    MayCancel = FALSE
SPECIFICATION Spec
INVARIANT AllFilesRestored
