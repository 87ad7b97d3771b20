--------------------------- MODULE BackupSnapshots ---------------------------
(* What a backup promises (docs/configuration.md:105): the destination is a *)
(* consistent copy, replaced as a whole.  Whoever opens it finds a version  *)
(* the database has had, and never an older one than before.                *)
EXTENDS Naturals

CONSTANT None, NoCopy

VARIABLES
    db,         \* the database's committed version
    published   \* the version at the destination, None if there is no file,
                \* NoCopy if what is there is not a copy

Init == db = 0 /\ published = None

Commit == db' = db + 1 /\ UNCHANGED published

Publish ==
    /\ published' \in 0 .. db
    /\ published # None => published \in Nat /\ published <= published'
    /\ UNCHANGED db

Next == Commit \/ Publish

Spec == Init /\ [][Next]_<<db, published>>
=============================================================================
