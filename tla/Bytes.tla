------------------------------- MODULE Bytes --------------------------------
(* The bytes of the sound processor: u8 in spc700/lib.rs and timer.rs.       *)
EXTENDS Naturals

CONSTANT ByteSize   \* 256

ASSUME ByteAssumption == ByteSize \in Nat \ {0}

Byte == 0..(ByteSize - 1)
=============================================================================
