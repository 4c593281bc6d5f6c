SPECIFICATION TeammateSpec
CONSTANTS
    Key = {lead}
    Cwd = {home}
    Home = home
    NoCwd = NoCwd
    NoEntry = NoEntry
    NoRun = NoRun
    NoTask = NoTask
    MaxRun = 2
    MaxSession = 2
    MaxRows = 4
    lead = lead
    helper = helper
    Server = {s1}
    Crew <- Solo
    Limit <- ResetOnce
CHECK_DEADLOCK FALSE
INVARIANT CleanRunsCanBeResumed
