SPECIFICATION TeammateSpec
CONSTANTS
    Key = {lead}
    Cwd = {home}
    Home = home
    NoCwd = NoCwd
    NoEntry = NoEntry
    NoRun = NoRun
    NoTask = NoTask
    MaxRun = 3
    MaxSession = 3
    MaxRows = 4
    lead = lead
    helper = helper
    Server = {s1}
    Crew <- Solo
    Limit <- Mishaps
CHECK_DEADLOCK FALSE
INVARIANTS TeammateTypeOK NoSharedSession LiveRunReadsRunning RowTellsTheEnding
PROPERTIES NoResetUnderALiveRun ImplementsLifecycle
