----------------------------- MODULE MC_Watcher -----------------------------
EXTENDS Watcher, TLC

\* Model values for the cluster names.
CONSTANTS n1, n2

MCNames == {n1, n2}
MCSymmetry == Permutations(MCNames)

=============================================================================
