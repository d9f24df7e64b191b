------------------------------- MODULE MCCdvd -------------------------------
EXTENDS Cdvd
=============================================================================
