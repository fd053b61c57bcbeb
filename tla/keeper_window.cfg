\* The keeper keeps the service safe point registered while the backup
\* runs, through up to three consecutive failed updates, for each TTL.
CONSTANTS
    BackupTSs <- MCBackupTSs
    Ttls <- MCTtls
    MaxTime = 13
    MaxFails = 3
    TSMax = 15
    ReadMayFail = FALSE
SPECIFICATION Spec
PROPERTY BackupTSProtected
