\* One scheduler and one command: is every recovery announced?
CONSTANTS
    None = None
    Owners = {ci}
    Threshold = 1
    HalfInterval = 1
    MaxHours = 0
    MaxLag = 1
    Schedulers = {s1}
    Commands = {c1}
    Routes = {}
    MayCrash = FALSE
SPECIFICATION Spec
INVARIANTS RestorationIsMailed
