CONSTANTS
    main = main
    t1 = t1
    t2 = t2
    NULL = NULL
    Thread = {main, t1}
    disk = disk
    console = console
    Device = {disk, console}
    MaxPending = 2
    TimerInt = TimerInt
    UseTimer = TRUE
    UserTick = 1
    SystemTick = 2
    MaxDelay = 3
SPECIFICATION FairInterruptSpec
INVARIANTS
    NothingOverdue
    TickBookkeeping
PROPERTIES
    KernelSpec
    DeviceIsServed
