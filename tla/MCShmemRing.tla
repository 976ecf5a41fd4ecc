----------------------------- MODULE MCShmemRing -----------------------------
EXTENDS ShmemRing
=============================================================================
