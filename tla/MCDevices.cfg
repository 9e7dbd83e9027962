CONSTANTS
    Thread = {t1, t2, t3}
    Sector = {s0, s1}
    Value = {v, w}
    Zero = Zero
    NoThread = NoThread
    Char = {x, y, q}
    Quit = q
    EOF = EOF
    MaxTyped = 3
    m1 = m1
    m2 = m2
    a = a
    b = b
    s = s
    s2 = s2
    r = r
    r2 = r2
    Machine = {m1, m2}
    Client = {a, b, s, s2, r, r2}
    Box = {0, 1, 2}
    Host <- Hosts
    Script <- Scripts
    Workload = {{a, b, s2}, {s, r, r2}}
    NoMail = NoMail
    NoClient = NoClient
SPECIFICATION Spec
CHECK_DEADLOCK FALSE
INVARIANTS
    RequestFindsDiskIdle
    EchoExact
    NoSignalAstray
    NeverSendsToClosedSocket
PROPERTIES
    DiskIsAtomic
    DevicesComplete
    MailIsQueued
    MailTestCompletes
