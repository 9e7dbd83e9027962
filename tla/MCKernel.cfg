CONSTANTS
    main = main
    t1 = t1
    t2 = t2
    t3 = t3
    NULL = NULL
    Thread = {main, t1, t2}
    MaxPending = 1
SPECIFICATION FairKernelSpec
INVARIANTS
    SchedulerConsistent
PROPERTIES
    NeverOvertaken
    ReadyThreadRuns
