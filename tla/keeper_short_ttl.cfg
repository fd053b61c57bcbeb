\* Violation run: with a TTL of one second the ticker period is the TTL, so
\* even with every update succeeding the service safe point expires at the
\* very second the next refresh is due, and GC passes backupTS.
CONSTANTS
    BackupTSs <- MCBackupTSs
    Ttls <- MCShortTtls
    MaxTime = 6
    MaxFails = 0
    TSMax = 15
    ReadMayFail = FALSE
SPECIFICATION Spec
PROPERTY BackupTSKeptOnceRegistered
