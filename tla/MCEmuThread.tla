---------------------------- MODULE MCEmuThread ----------------------------
EXTENDS EmuThread
============================================================================
