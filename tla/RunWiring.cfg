SPECIFICATION WiringSpec
CONSTANTS
    s1 = s1
    s2 = s2
    s3 = s3
    m1 = m1
    m2 = m2
    read = read
    bash = bash
    extra = extra
    lead = lead
    helper = helper
    h1 = h1
    h2 = h2
    a = a
    b = b
    dash = dash
    Skill = {s1, s2, s3}
    Server = {m1, m2}
    Tool = {read, bash, extra}
    Builtin = {read, bash}
    Name = {lead, helper}
    Hook = {h1, h2}
    SkillBudget = 2
    RecallLimit = 4
    KeyMax = 5
    Separators = {dash}
    Key <- MCKey
    Suffix <- MCSuffix
    Caller = {c1, c2}
    Requests <- MCRequests
    Rankings <- MCRankings
    Specs <- MCSpecs
    Slates <- MCSlates
    Subs <- MCSubs
    Notify = {h1}
    NoFile = NoFile
    MaxSaves = 2
SYMMETRY MCSymmetry
CHECK_DEADLOCK FALSE
INVARIANTS WiringTypeOK AgentIsWhatWasAskedFor RunsLoadTheirOwnHooks EveryAgentReachesTheServers
           AcquiredAgentIsAnother
