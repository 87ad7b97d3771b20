\* A web request, which reads without the lock, beside a scheduler and a command.
CONSTANTS
    None = None
    Owners = {}
    Threshold = 1
    HalfInterval = 1
    MaxHours = 1
    MaxLag = 0
    Schedulers = {s1}
    Commands = {c1}
    Routes = {r1}
    MayCrash = FALSE
SPECIFICATION Spec
INVARIANTS LockedFresh
PROPERTIES RecordsKeepApart OutagesAreMailed
