\* A rotation that meets a locked database.
CONSTANTS
    None = None
    Coroutines = {c1, c2}
    Threads = {}
    Kinds = {"create", "rotate"}
    Names = {n1}
    Idents = {i1}
    Aliases = {a1, a2, a3}
    Reliable = TRUE
    MayCrash = FALSE
SPECIFICATION Spec
PROPERTIES FailedReplacementsCleaned
CHECK_DEADLOCK FALSE
