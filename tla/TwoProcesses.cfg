SPECIFICATION PoolSpec
CONSTANTS
    Key = {k1}
    Cwd = {home}
    Home = home
    NoCwd = NoCwd
    NoEntry = NoEntry
    NoRun = NoRun
    MaxRun = 1
    MaxSession = 2
    MaxRows = 1
    p1 = p1
    p2 = p2
    t1 = t1
    t2 = t2
    Process <- MCProcess
    Thread <- MCThread
    ProcOf <- MCProcOf
    Free = Free
CHECK_DEADLOCK FALSE
PROPERTY OnlySaveCreates
