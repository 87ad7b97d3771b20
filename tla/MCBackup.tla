------------------------------ MODULE MCBackup ------------------------------
(* BackupCommand with a few processes, files and versions, for TLC.         *)
EXTENDS BackupCommand, TLC

\* Files are interchangeable.
Symmetry == Permutations(Inodes)
=============================================================================
