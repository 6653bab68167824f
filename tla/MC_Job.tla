------------------------------ MODULE MC_Job --------------------------------
EXTENDS Job, TLC
=============================================================================
