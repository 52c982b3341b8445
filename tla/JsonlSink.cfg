SPECIFICATION Spec
CONSTANTS
    BackupCount = 3
    MaxLines = 2
    MaxRecords = 10
    MaxFaults = 3
INVARIANTS
    NeverMalformed
    AckedKept
PROPERTIES
    ReaderSeesLog
CHECK_DEADLOCK FALSE
