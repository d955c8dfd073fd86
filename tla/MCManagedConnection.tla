------------------------- MODULE MCManagedConnection -------------------------
EXTENDS ManagedConnection, TLC
=============================================================================
