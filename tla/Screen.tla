------------------------------- MODULE Screen -------------------------------
(* The position of the PPU, which moves on by a dot with every Ppu::update   *)
(* (breeze_core/ppu/mod.rs).                                                 *)
EXTENDS Naturals

CONSTANTS Dots, Lines   \* 340 and 262

ASSUME ScreenAssumption == Dots \in Nat \ {0} /\ Lines \in Nat \ {0}

NextDot(x) == (x + 1) % Dots

NextLine(x, line) == IF x + 1 = Dots THEN (line + 1) % Lines ELSE line
=============================================================================
