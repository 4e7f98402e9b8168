--------------------------- MODULE MC_DurableJobs ---------------------------
\* Model-checking instances of DurableJobs.
EXTENDS DurableJobs, TLC

\* Every action treats jobs alike, workers alike and supervisors alike.
Symmetry == Permutations(Jobs) \cup Permutations(Workers)
SupSymmetry == Permutations(Supervisors) \cup Permutations(Workers)
=============================================================================
