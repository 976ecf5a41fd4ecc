------------------------------- MODULE MCWal -------------------------------
EXTENDS WalRefinement
=============================================================================
