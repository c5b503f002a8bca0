CONSTANTS
    g1 = g1
    f1 = f1
    f2 = f2
    y1 = y1
    y2 = y2
    Groups = {g1}
    NoGroup = NoGroup
    Filers = {f1, f2}
    Syncs = {y1, y2}
    NoSync = NoSync
    MaxReports = 3
    MaxIssues = 2
    MaxPurges = 0
    Events = {"filer_dies", "late", "comment_unclear"}
SPECIFICATION FairSpec
PROPERTIES
    FilingsConclude
CHECK_DEADLOCK FALSE
