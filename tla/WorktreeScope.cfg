SPECIFICATION ScopeSpec
CONSTANTS
    Content = {c1, c2}
    Absent = Absent
    File <- MCFile
    Ignored <- MCIgnored
    Requests <- MCRequests
    MaxGit = 2
SYMMETRY MCSymmetry
CHECK_DEADLOCK FALSE
INVARIANTS ScopeTypeOK AcceptedStaysInScope FingerprintedIsUntouched
