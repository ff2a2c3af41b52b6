CONSTANTS
    Counts <- SomeCounts
    Garbage <- SomeGarbage
SPECIFICATION Spec
INVARIANT CountBoundsList
CHECK_DEADLOCK FALSE
