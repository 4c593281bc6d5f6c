SPECIFICATION CaptureSpec
CONSTANTS
    home = home
    work = work
    agent = agent
    other = other
    shell = shell
    t1 = t1
    t2 = t2
    id = id
    text = text
    text2 = text2
    Root = {home, work}
    Id = {id}
    Text = {text, text2}
    Absent = Absent
    Tool = {agent, other, shell}
    Dispatch = {agent, other}
    TaskId = {t1, t2}
    NoTool = NoTool
    NoTask = NoTask
    Calls <- MCCalls
    Messages <- MCMessages
    Lines <- MCLines
    MaxSession = 2
    MaxMessages = 5
    MaxLines = 4
CHECK_DEADLOCK FALSE
INVARIANTS CaptureTypeOK OneRowPerAgent MainRowComesFirst EntryFollowsTheFirstMain
           CodexRowIsEarned ReadersAgree OnePolicyForBoth
