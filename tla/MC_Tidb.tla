------------------------------- MODULE MC_Tidb -------------------------------
EXTENDS Tidb, TLC

\* Model values for the tidb versions.
CONSTANTS v1, v2

MCVersions == {v1, v2}

=============================================================================
