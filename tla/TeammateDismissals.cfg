SPECIFICATION FairTeammateSpec
CONSTANTS
    Key = {lead, helper}
    Cwd = {home}
    Home = home
    NoCwd = NoCwd
    NoEntry = NoEntry
    NoRun = NoRun
    NoTask = NoTask
    MaxRun = 2
    MaxSession = 5
    MaxRows = 4
    lead = lead
    helper = helper
    Server = {s1}
    Crew <- Team
    Limit <- Dismissals
CHECK_DEADLOCK FALSE
INVARIANT DismissedStaysForgotten
PROPERTIES NoResetUnderALiveRun DeleteIsComplete RunsSettle ImplementsFairLifecycle
