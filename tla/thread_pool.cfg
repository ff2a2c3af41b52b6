SPECIFICATION FairSpec
CONSTANTS
    c1 = c1
    c2 = c2
    t1 = t1
    t2 = t2
    Clients = {c1, c2}
    Tasks = {t1, t2}
    Workers = {w1, w2, w3, w4}
    Setups <- MCSetups
INVARIANTS
    CountersAgree
    ThreadCap
    KeepsMinimum
    QueueIsAttended
PROPERTIES
    WaitIsABarrier
    PausePromise
    ImplementsTaskPool
    QueuedIsRun
    StopReturns
    WaitReturns
CHECK_DEADLOCK FALSE
