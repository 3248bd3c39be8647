------------------------------ MODULE MCTimers ------------------------------
(* One timer: timers do not see each other.  Bytes of three bits and a      *)
(* counter of two; an instruction may take more than a period of stage1,    *)
(* and the divider 0 stands for 8.                                          *)
EXTENDS Timers

MCBaseDiv == [i \in {0} |-> 3]
=============================================================================
