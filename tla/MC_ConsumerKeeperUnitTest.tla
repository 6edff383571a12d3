--------------------- MODULE MC_ConsumerKeeperUnitTest ---------------------
EXTENDS ConsumerKeeperUnitTest

CONSTANTS a1, ch1, ch2
=============================================================================
