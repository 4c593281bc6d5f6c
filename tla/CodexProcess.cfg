SPECIFICATION FairProcessSpec
CONSTANTS
    h1 = h1
    h2 = h2
    Leader = leader
    Helper <- MCHelper
    MaxCancels = 2
CHECK_DEADLOCK FALSE
INVARIANTS ProcessTypeOK LeaderIsStopped
PROPERTY CallReturns
