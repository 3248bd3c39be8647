------------------------------ MODULE MCInput ------------------------------
(* One joypad of two ports, two button words and a two-bit shift register, *)
(* enough to tell a fresh word, a half-shifted one and an exhausted one.   *)
EXTENDS Input

MCPorts == {0, 1}
MCAttached == {0}
=============================================================================
