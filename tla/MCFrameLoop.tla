---------------------------- MODULE MCFrameLoop ----------------------------
(* A frame of three lines of five dots, with every event on a dot of its    *)
(* own.  A dot takes 2 cycles and an instruction 3, so that instructions    *)
(* and dots drift; waiting takes 1, less than a dot; the long instruction   *)
(* (a DMA) takes more than a whole frame of 30 cycles.                      *)
EXTENDS FrameLoop

MCCpuCosts == {3, 35}
MCApuCosts == {1, 2}

Enable(n, vi, hi, a) == [nmi |-> n, v |-> vi, h |-> hi, auto |-> a]

MCNmitimens == {Enable(TRUE, FALSE, FALSE, TRUE),
                Enable(FALSE, TRUE, FALSE, FALSE), Enable(TRUE, FALSE, TRUE, FALSE)}
MCVTimes == {1}
MCHTimes == {2}
=============================================================================
