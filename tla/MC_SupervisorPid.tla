-------------------------- MODULE MC_SupervisorPid --------------------------
\* Model-checking instances of SupervisorPid.
EXTENDS SupervisorPid, TLC

\* Processes and inodes are only compared for equality.
Symmetry == Permutations(Processes) \cup Permutations(Inodes)
=============================================================================
