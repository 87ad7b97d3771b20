\* Pages of one record each, beside keys made, rotated, revoked and used.
CONSTANTS
    Users = {u1, u2}
    Admins = {u1}
    Idents = {i1, i2}
    Keys = {k1, k2}
    ServiceAliases = {k2}
    Models = {m1}
    Told = {k1}
    Namings = {TRUE, FALSE}
    PageSize = 1
    MaxRecords = 2
SPECIFICATION Spec
SYMMETRY Symmetry
INVARIANTS TypeOK NothingMissed OvercountBounded UsageSpansRotations StaleRowsDoNotMislead CountedOnce MaskWasActive
CHECK_DEADLOCK FALSE
