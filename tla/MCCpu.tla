------------------------------- MODULE MCCpu -------------------------------
(* Bytes of three bits: a page of eight bytes, and 64 addresses.            *)
EXTENDS Cpu

MCHighBytes == {0, 1}
MCStacks    == {17}
MCTargets   == {62}
MCBanks     == {1}
MCHandlers  == {62}

Flags(xf, i, d) == [x |-> xf, i |-> i, d |-> d]
MCFlagSets  == {Flags(TRUE, TRUE, TRUE), Flags(FALSE, TRUE, TRUE)}
=============================================================================
