------------------------------- MODULE MCKeys -------------------------------
(* KeyRequests on a few requests, names and keys, for TLC.                  *)
EXTENDS KeyRequests, TLC

\* Requests of one sort, names, identities and aliases are interchangeable.
Symmetry == Permutations(Coroutines) \cup Permutations(Names)
                \cup Permutations(Idents) \cup Permutations(Aliases)
=============================================================================
