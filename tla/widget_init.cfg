CONSTANTS
    Counts <- SomeCounts
    Garbage <- SomeGarbage
SPECIFICATION FairSpec
INVARIANTS
    EveryDeviceHasItsCell
    OutOfRangeOnlyWithoutIni
PROPERTY
    StartupAsksForAll
\* The constructor ends.
CHECK_DEADLOCK FALSE
