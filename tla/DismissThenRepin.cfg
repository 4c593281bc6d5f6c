SPECIFICATION TeammateSpec
CONSTANTS
    Key = {lead}
    Cwd = {home}
    Home = home
    NoCwd = NoCwd
    NoEntry = NoEntry
    NoRun = NoRun
    NoTask = NoTask
    MaxRun = 4
    MaxSession = 3
    MaxRows = 8
    lead = lead
    helper = helper
    Server = {s1}
    Crew <- Solo
    Limit <- LateRepin
CHECK_DEADLOCK FALSE
INVARIANT DismissedStaysForgotten
