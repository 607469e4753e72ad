SPECIFICATION BackupSpec
CONSTANTS
    Nights = {n1, n2}
    Retention = 1
INVARIANT
    IntactIsRestored
CHECK_DEADLOCK FALSE
