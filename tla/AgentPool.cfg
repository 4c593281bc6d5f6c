SPECIFICATION PoolSpec
CONSTANTS
    Key = {k1}
    Cwd = {home, other}
    Home = home
    NoCwd = NoCwd
    NoEntry = NoEntry
    NoRun = NoRun
    MaxRun = 2
    MaxSession = 2
    MaxRows = 1
    p1 = p1
    t1 = t1
    t2 = t2
    Process <- MCProcess
    Thread <- MCThread
    ProcOf <- MCProcOf
    Free = Free
SYMMETRY Symmetry
CHECK_DEADLOCK FALSE
INVARIANTS PoolTypeOK FreshRunIsFirst ReadIsStillCurrent
PROPERTIES SaveKeepsTheSession MethodsAreAtomic
