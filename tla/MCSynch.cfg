CONSTANTS
    main = main
    t1 = t1
    t2 = t2
    s1 = s1
    l1 = l1
    q1 = q1
    c1 = c1
    NULL = NULL
    Thread = {main, t1, t2}
    MaxPending = 1
    Semaphore = {s1}
    Lock = {l1, q1}
    Condition = {c1}
    queueLock <- OneQueueLock
    conditionLock <- OneCondition
    InitialValue = 0
    MaxValue = 2
SPECIFICATION Spec
INVARIANTS
    MutualExclusion
    NoWakeUpLost
    WaitIsAtomic
PROPERTIES
    KernelSpec
    FreeLockIsTaken
    SignalledThreadIsReadied
