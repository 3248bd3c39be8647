------------------------------ MODULE MCPorts -------------------------------
(* Bytes of two bits: 16 bytes of VRAM, 8 and 4 bytes of OAM, four colours,  *)
(* two pages of WRAM.  The largest increment is half of the address space,   *)
(* so that a word of VRAM is its own successor.                              *)
EXTENDS Ports

MCSteps == [i \in 0..3 |-> CASE i = 0 -> 1 [] i = 1 -> 2 [] i = 2 -> 4 [] i = 3 -> 8]

MCModes == {<<FALSE, 1>>, <<TRUE, 0>>, <<TRUE, 3>>}
=============================================================================
