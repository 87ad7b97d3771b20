------------------------------- MODULE MCUsage -------------------------------
(* UsagePage on a few users, keys and records, for TLC.                     *)
EXTENDS UsagePage, TLC

\* Logical keys are interchangeable.
Symmetry == Permutations(Idents)
=============================================================================
