SPECIFICATION DirectSpec
CONSTANTS
    agent = agent
    acquired = acquired
    mate = mate
    Key = {agent, acquired, mate}
    Cwd = {home}
    Home = home
    NoCwd = NoCwd
    NoEntry = NoEntry
    NoRun = NoRun
    MaxRun = 2
    MaxSession = 4
    MaxRows = 2
    Caller = {c1, c2}
    Reserved = {mate}
    Orchestrated = {agent}
    Derived <- MCDerived
    MaxDisturbing = 2
SYMMETRY MCSymmetry
CHECK_DEADLOCK FALSE
INVARIANTS DirectTypeOK OneKeyPerSession LaterRunsResume HeardKeysCanResume
