----------------------------- MODULE MCGSThread -----------------------------
EXTENDS GSThread
=============================================================================
