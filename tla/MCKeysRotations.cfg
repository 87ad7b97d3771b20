\* Creations, rotations and a rename beside each other; commits may fail, and a
\* call that fails has no effect.  Every request ends.
CONSTANTS
    None = None
    Coroutines = {c1, c2}
    Threads = {t1}
    Kinds = {"create", "rotate"}
    Names = {n1, n2}
    Idents = {i1, i2}
    Aliases = {a1, a2, a3}
    Reliable = TRUE
    MayCrash = FALSE
SPECIFICATION FairSpec
INVARIANTS RotationKeepsAKey NamesApart
PROPERTIES RequestsEnd
CHECK_DEADLOCK FALSE
