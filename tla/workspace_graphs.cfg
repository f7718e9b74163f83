CONSTANTS
    MaxEntries = 6
    SNAPSHOT_INTERVAL = 2
SPECIFICATION SnapshotSpec
INVARIANTS
    FindsUnseen
    NeverFails
    CollectsHistory
PROPERTIES
    SortsMoreEachRound
CHECK_DEADLOCK FALSE
