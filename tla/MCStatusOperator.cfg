\* An admin request and a leasing command: whose window is it?
CONSTANTS
    None = None
    Owners = {ci}
    Threshold = 1
    HalfInterval = 1
    MaxHours = 0
    MaxLag = 1
    Schedulers = {}
    Commands = {c1}
    Routes = {r1}
    MayCrash = FALSE
SPECIFICATION Spec
PROPERTIES LeaseNeverEndsOperatorsWindow
