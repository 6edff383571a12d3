-------------------------- MODULE MC_PendingChanges --------------------------
EXTENDS PendingChanges
=============================================================================
