------------------------------- MODULE Timers -------------------------------
(***************************************************************************)
(* The three timers of the sound processor: spc700/timer.rs, and the       *)
(* registers through which its program reaches them (spc700/lib.rs).       *)
(*                                                                         *)
(* A timer divides the cycles of the SPC700 twice, by a fixed number and   *)
(* by one the program sets, and counts the result in a few bits, which     *)
(* reading clears.  The timers are not run cycle by cycle: after each      *)
(* instruction they are given all its cycles at once.                      *)
(*                                                                         *)
(* An action is an instruction with its cycles; which one is left out, but *)
(* for its access to a timer.                                              *)
(***************************************************************************)
EXTENDS Bytes

CONSTANTS
  TimerIds,   \* 0..2
  BaseDiv,    \* BaseDiv[i]: 128, 128 and 16
  Counts,     \* values of the counter: 16
  Cycles,     \* what an instruction may take
  Divs        \* the dividers the program sets

ASSUME TimerAssumption ==
  /\ BaseDiv \in [TimerIds -> Nat \ {0}]
  /\ Counts \in Nat \ {0} /\ ByteSize % Counts = 0
  /\ Cycles \subseteq Nat
  /\ \A i \in TimerIds, cy \in Cycles : BaseDiv[i] + cy <= ByteSize
  /\ Divs \subseteq 0..(ByteSize - 1)

VARIABLES
  timers,
  steady,   \* history: the timer was enabled and its divider has not changed since
  since,    \* history: cycles run while enabled, with those stage1 began with
  taken     \* history: the sum of the counts the program has read

timerVars == <<timers, steady, since, taken>>

TimerType == [div : Byte, val : 0..(Counts - 1), enabled : BOOLEAN,
              stage1 : Byte, stage2 : 0..(2 * ByteSize - 1)]

RealDiv(div) == IF div = 0 THEN ByteSize ELSE div

\* since and taken only matter modulo these.
Period(i, div) == BaseDiv[i] * RealDiv(div) * Counts

TimersInit ==
  /\ timers = [i \in TimerIds |-> [div |-> 0, val |-> Counts - 1, enabled |-> FALSE,
                                   stage1 |-> 0, stage2 |-> 0]]
  /\ since = [i \in TimerIds |-> 0] /\ taken = [i \in TimerIds |-> 0]
  /\ steady = [i \in TimerIds |-> FALSE]

-----------------------------------------------------------------------------
\* Timer::update.  Additions wrap in a byte, which the counter divides.
Update(t, base, cy) ==
  LET stage1 == (t.stage1 + cy) % ByteSize
      stage2 == t.stage2 + stage1 \div base
      div    == RealDiv(t.div)
  IN  IF ~t.enabled THEN [t EXCEPT !.stage1 = stage1 % base]
      ELSE [t EXCEPT !.stage1 = stage1 % base, !.stage2 = stage2 % div,
                     !.val = (@ + stage2 \div div) % Counts]

\* Mutant: enabling clears the counter, not the divider.
SetEnableKeepsStage(t, enable) ==
  IF enable /\ ~t.enabled THEN [t EXCEPT !.enabled = TRUE, !.val = 0]
  ELSE [t EXCEPT !.enabled = enable]

SetEnable(t, enable) ==
  IF enable /\ ~t.enabled THEN [t EXCEPT !.enabled = TRUE, !.val = 0, !.stage2 = 0]
  ELSE [t EXCEPT !.enabled = enable]

\* The end of dispatch: what the instruction has made of the timers is
\* updated with all its cycles.  The history starts from what from and reads
\* say, and is only kept of steady timers.
Run(ts, from, reads, cy) ==
  /\ timers' = [i \in TimerIds |-> Update(ts[i], BaseDiv[i], cy)]
  /\ since'  = [i \in TimerIds |->
                  IF ~steady'[i] THEN 0
                  ELSE IF ts[i].enabled THEN (from[i] + cy) % Period(i, ts[i].div) ELSE from[i]]
  /\ taken'  = [i \in TimerIds |-> IF steady'[i] THEN reads[i] % Counts ELSE 0]

Compute(cy) ==
  /\ steady' = steady
  /\ Run(timers, since, taken, cy)

\* A store to $f1; set is the timers whose bit is set.
StoreControl(set, cy) ==
  LET new == {i \in set : ~timers[i].enabled}
  IN  /\ steady' = [i \in TimerIds |-> i \in new \/ steady[i]]
      /\ Run([i \in TimerIds |-> SetEnable(timers[i], i \in set)],
             [i \in TimerIds |-> IF i \in new THEN timers[i].stage1 ELSE since[i]],
             [i \in TimerIds |-> IF i \in new THEN 0 ELSE taken[i]], cy)

\* A store to $fa, $fb or $fc.
StoreDiv(i, div, cy) ==
  /\ steady' = [steady EXCEPT ![i] = @ /\ div = timers[i].div]
  /\ Run([timers EXCEPT ![i].div = div], since, taken, cy)

\* A load from $fd, $fe or $ff: the counter is read and cleared.
LoadCounter(i, cy) ==
  /\ steady' = steady
  /\ Run([timers EXCEPT ![i].val = 0], since, [taken EXCEPT ![i] = @ + timers[i].val], cy)

TimersNext == \E cy \in Cycles :
          \/ Compute(cy)
          \/ \E set \in SUBSET TimerIds : StoreControl(set, cy)
          \/ \E i \in TimerIds, div \in Divs : StoreDiv(i, div, cy)
          \/ \E i \in TimerIds : LoadCounter(i, cy)

TimersSpec == TimersInit /\ [][TimersNext]_timerVars

-----------------------------------------------------------------------------
\* A timer is exact: whatever the instructions took and whenever the program
\* read it, what was read and what is in the counter add up to the time run,
\* and nothing of a period begun is lost between instructions, nor wrapped.
CountsTime ==
  \A i \in TimerIds :
    LET t == timers[i]
        ticks == since[i] \div BaseDiv[i]
    IN  /\ t \in TimerType /\ t.stage1 < BaseDiv[i]
        /\ steady[i] =>
          /\ (taken[i] + t.val) % Counts = (ticks \div RealDiv(t.div)) % Counts
          /\ t.stage2 = ticks % RealDiv(t.div)
          /\ t.enabled => t.stage1 = since[i] % BaseDiv[i]
=============================================================================
