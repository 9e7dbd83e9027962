CONSTANTS
    t1 = t1
    t2 = t2
    t3 = t3
    t4 = t4
    s0 = s0
    s1 = s1
    s2 = s2
    s3 = s3
    s4 = s4
    b0 = b0
    b1 = b1
    b2 = b2
    b3 = b3
    ThreadAddr = {t1, t2, t3, t4}
    SpaceAddr = {s0, s1, s2, s3, s4}
    PcbAddr = {b0, b1, b2, b3}
    main = t1
    mainSpace = s0
    mainPcb = b0
    NULL = NULL
    NumPids = 3
    NumPages = 4
    MainSize = 1
    ExecSize = {2}
    Syscall = {"Fork", "Exit", "Yield"}
    Timer = FALSE
    MaxForks = 3
    MaxExecs = 0
SYMMETRY Addresses
SPECIFICATION ProcessSpec
INVARIANT SpacesDeletedAfterUse
