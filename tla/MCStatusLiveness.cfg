\* Fair sessions, no crashes, time without end.
CONSTANTS
    None = None
    Owners = {}
    Threshold = 2
    HalfInterval = 1
    MaxHours = 1
    MaxLag = 0
    Schedulers = {s1, s2}
    Commands = {c1}
    Routes = {}
    MayCrash = FALSE
SPECIFICATION FairSpec
PROPERTIES RecordsKeepApart OutageNoticed RecoveryNoticed WindowCleared SessionsEnd
