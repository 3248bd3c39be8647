----------------------------- MODULE MCEmulator -----------------------------
EXTENDS Emulator
=============================================================================
