------------------------------- MODULE MCDma -------------------------------
(* Words of three bits.  Channel 0 takes every mode, both directions and    *)
(* every step, a size that is no whole number of units, the largest size    *)
(* and zero, and an address from which the block wraps; channel 1 a setting *)
(* for each direction.                                                      *)
EXTENDS Dma

Setting(w, i, m, a, n) ==
  [write_to_a |-> w, inc |-> i, mode |-> m, b_addr |-> 4, a_addr |-> a, dma_size |-> n]

MCSettings ==
  [c \in 0..1 |->
     IF c = 0
       THEN {Setting(m % 2 = 0, i, m, 6, n) : i \in {-1, 1}, m \in 0..7, n \in {3, 7}}
            \cup {Setting(FALSE, 0, 1, 6, 5), Setting(TRUE, 1, 1, 6, 0)}
       ELSE {Setting(FALSE, 1, 1, 2, 0), Setting(TRUE, -1, 3, 0, 5)}]
=============================================================================
