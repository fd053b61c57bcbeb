CONSTANTS
    Metas <- MCSafetyMetas
    MayFail = FALSE
    CreatedIDs <- MCCreatedIDs
    IndexIDs <- MCIndexIDs
    MayCancel = FALSE
SPECIFICATION Spec
INVARIANT RewriteIntoCreatedTable
