\* Backups one at a time, or two to one destination at once; beside the
\* application, failing and crashing.
CONSTANTS
    None = None
    NoCopy = NoCopy
    Commands = {p1, p2}
    Inodes = {f1, f2, f3}
    MaxVersion = 3
SPECIFICATION Spec
INVARIANTS Placed
PROPERTIES SnapshotSpec BackupIsFresh
CHECK_DEADLOCK FALSE
