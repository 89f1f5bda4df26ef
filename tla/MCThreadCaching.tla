--------------------------- MODULE MCThreadCaching ---------------------------
(* Instances of ThreadCaching for TLC.                                     *)
EXTENDS ThreadCaching, TLC

\* Processes of one kind are interchangeable (used by safety runs only).
Symmetry == Permutations(Requests) \cup Permutations(Handlers)
=============================================================================
