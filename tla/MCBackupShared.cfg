\* Two backups to one destination share its temporary file.
CONSTANTS
    None = None
    NoCopy = NoCopy
    Commands = {p1, p2}
    Inodes = {f1, f2, f3}
    MaxVersion = 1
SPECIFICATION Spec
INVARIANTS NeverPartial
SYMMETRY Symmetry
CHECK_DEADLOCK FALSE
