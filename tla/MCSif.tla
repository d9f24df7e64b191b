------------------------------- MODULE MCSif --------------------------------
EXTENDS Sif
=============================================================================
