---------------------------- MODULE MCMemberSync ----------------------------
(* Instances of MemberSync for TLC.                                        *)
EXTENDS MemberSync, TLC

\* Tasks are interchangeable when all of them are commands.
Symmetry == Permutations(Syncs)
=============================================================================
