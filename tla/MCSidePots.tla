----------------------------- MODULE MCSidePots -----------------------------
EXTENDS SidePots
CONSTANTS p1, p2, p3, p4
=============================================================================
