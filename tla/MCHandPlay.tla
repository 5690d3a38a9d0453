----------------------------- MODULE MCHandPlay -----------------------------
EXTENDS HandPlay
CONSTANTS u1, u2, u3
Order3 == <<u1, u2, u3>>
=============================================================================
