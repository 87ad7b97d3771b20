\* A process, commands and owners of leases beside each other, with crashes.
CONSTANTS
    None = None
    Owners = {ci, cd}
    Threshold = 2
    HalfInterval = 1
    MaxHours = 1
    MaxLag = 0
    Schedulers = {s1}
    Commands = {c1, c2}
    Routes = {}
    MayCrash = TRUE
SPECIFICATION Spec
SYMMETRY Symmetry
INVARIANTS TypeOK OwnersTellWhose
PROPERTIES LeaseKept OutagesAreMailed LedgerSpec
