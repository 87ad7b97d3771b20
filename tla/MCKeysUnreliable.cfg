\* Calls lost, repeated by the user or carried out late, failed commits, crashes.
CONSTANTS
    None = None
    Coroutines = {c1, c2}
    Threads = {}
    Kinds = {"create", "rotate", "revoke"}
    Names = {n1, n2}
    Idents = {i1, i2}
    Aliases = {a1, a2, a3}
    Reliable = FALSE
    MayCrash = TRUE
SPECIFICATION Spec
SYMMETRY Symmetry
INVARIANTS TypeOK RevokedKeysAreDead NoHiddenKeys
PROPERTIES RegisterSpec
CHECK_DEADLOCK FALSE
