SPECIFICATION BackupSpec
CONSTANTS
    NoTar = NoTar
    Torn = Torn
    Notes = {n1}
    MaxId = 2
    MaxVersion = 1
    MaxBackups = 1
    Compress = {FALSE}
    VerifyIntegrity = TRUE
INVARIANTS RetentionKeepsRecent
CHECK_DEADLOCK FALSE
