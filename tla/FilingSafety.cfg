CONSTANTS
    g1 = g1
    g2 = g2
    f1 = f1
    f2 = f2
    y1 = y1
    y2 = y2
    Groups = {g1, g2}
    NoGroup = NoGroup
    Filers = {f1, f2}
    Syncs = {y1, y2}
    NoSync = NoSync
    MaxReports = 3
    MaxIssues = 2
    MaxPurges = 1
    Events = {"filer_dies", "sync_dies", "slow_listing", "merge", "comment_fails", "comment_unclear"}
SPECIFICATION Spec
SYMMETRY MCSymmetry
INVARIANTS
    IssuesAreAccounted
PROPERTIES
    AnnouncedOnce
CHECK_DEADLOCK FALSE
