------------------------------ MODULE MCStatus ------------------------------
(* StatusSessions on small sets of sessions and owners, for TLC.            *)
EXTENDS StatusSessions, TLC

\* Sessions of one sort, and owners, are interchangeable (safety runs only).
Symmetry == Permutations(Schedulers) \cup Permutations(Commands)
                \cup Permutations(Routes) \cup Permutations(Owners)
=============================================================================
