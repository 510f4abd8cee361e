---------------------------- MODULE MCSpinLock -----------------------------
(* Three sub-locks; every group, or a few that overlap.                    *)
EXTENDS SpinLock, TLC

Symmetry == Permutations(Thread)
AllGroups == SUBSET Sublock
Singles == {{b} : b \in Sublock} \cup {{}}
=============================================================================
