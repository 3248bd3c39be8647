----------------------------- MODULE FrameLoop -----------------------------
(***************************************************************************)
(* The main loop of the console: Snes::render_frame with Ppu::update.      *)
(*                                                                         *)
(* The emulator runs one CPU instruction, and the cycles it took become a  *)
(* debt to the APU and to the PPU.  The APU pays in whole instructions,    *)
(* the PPU dot by dot; on certain dots of the frame the PPU's position     *)
(* starts something: HDMA, the rendering of the frame, the input's         *)
(* new_frame and auto read, the NMI, the H- and V-IRQ.  An interrupt ends  *)
(* the PPU's turn at once, whatever it still owes.                         *)
(*                                                                         *)
(* The emulated program is any sequence of instructions; those that touch  *)
(* what the loop reads (NMITIMEN, HTIME, VTIME, HDMAEN, $4210, $4211, WAI, *)
(* the interrupt-disable flag) have actions of their own.                  *)
(***************************************************************************)
EXTENDS Integers

CONSTANTS
  LastDot, LastLine,    \* 339 and 261
  LastVisible,          \* 224
  HdmaInitDot,          \* 6
  AutoReadDot,          \* 50
  RefreshDot,           \* 180
  RenderDot,            \* 256
  HdmaDot,              \* 278
  DotCycles,            \* master cycles of a dot: 4
  ApuDivider,           \* master cycles of an APU cycle: 21
  MinCycles,            \* what an instruction takes at least: 3
  RefreshCycles,        \* DRAM refresh: 40
  HdmaCycles,           \* what HDMA charges when a channel is enabled
  InterruptCycles,      \* bus cycles of an interrupt sequence
  RegisterCost,         \* master cycles of an instruction that accesses a register
  CpuCosts,             \* master cycles of the others, general DMA included
  ApuCosts,             \* APU cycles of an SPC700 instruction
  Nmitimens,            \* the values the program stores to NMITIMEN
  VTimes, HTimes,       \* the values it stores to VTIME and HTIME
  ResetTime,            \* both at power-on: 511, no position of the frame
  DebtMax               \* bound of the model: no instruction of CpuCosts beyond it

NewFrameLine == LastVisible + 1

NmitimenType == [nmi : BOOLEAN, v : BOOLEAN, h : BOOLEAN, auto : BOOLEAN]

ASSUME GeometryAssumption ==
  /\ LastDot \in Nat /\ LastLine \in Nat /\ LastVisible \in Nat
  /\ NewFrameLine <= LastLine
  /\ {HdmaInitDot, AutoReadDot, RefreshDot, RenderDot, HdmaDot} \subseteq 1..LastDot
  /\ RefreshDot \notin {HdmaInitDot, AutoReadDot, RenderDot, HdmaDot}
  /\ RenderDot < HdmaDot

ASSUME CostAssumption ==
  /\ {DotCycles, ApuDivider, MinCycles, RegisterCost} \subseteq Nat \ {0}
  /\ {RefreshCycles, HdmaCycles, InterruptCycles, DebtMax} \subseteq Nat
  /\ CpuCosts \subseteq Nat
  /\ ApuCosts \subseteq Nat \ {0}
  /\ Nmitimens \subseteq NmitimenType
  /\ VTimes \subseteq Nat /\ HTimes \subseteq Nat /\ ResetTime \in Nat

VARIABLES
  pc,              \* where the loop is
  v, h,            \* scanline and x of the PPU
  apu_debt, ppu_debt,
  cy,              \* master cycles charged to the next instruction
  nmi, irq,        \* the flags read from $4210 and $4211
  nmitimen, vtime, htime, hdmaen,
  wai, irq_disable,
  handler,         \* the interrupt whose handler the CPU has just entered
  frame_rendered,
  events           \* history: what happened since the PPU was at (0,0)

position == <<v, h>>
registers == <<nmitimen, vtime, htime, hdmaen>>
vars == <<pc, v, h, apu_debt, ppu_debt, cy, nmi, irq, nmitimen, vtime, htime,
          hdmaen, wai, irq_disable, handler, frame_rendered, events>>

NoEvents == [init |-> 0, hdma |-> 0, render |-> 0, frame |-> 0, auto |-> 0, nmi |-> 0]

TypeOK ==
  /\ pc \in {"idle", "cpu", "others", "failed"}
  /\ v \in 0..LastLine /\ h \in 0..LastDot
  /\ apu_debt \in Int /\ ppu_debt \in Int
  /\ cy \in Nat
  /\ {nmi, irq, hdmaen, wai, irq_disable, frame_rendered} \subseteq BOOLEAN
  /\ nmitimen \in NmitimenType
  /\ vtime \in Nat /\ htime \in Nat
  /\ handler \in {"none", "nmi", "irq"}
  /\ events \in [{"init", "hdma", "render", "frame", "auto", "nmi"} -> Nat]

-----------------------------------------------------------------------------
Init ==
  /\ pc = "idle"
  /\ v = 0 /\ h = 0
  /\ apu_debt = 0 /\ ppu_debt = 0 /\ cy = 0
  /\ nmi = FALSE /\ irq = FALSE
  /\ nmitimen = [nmi |-> FALSE, v |-> FALSE, h |-> FALSE, auto |-> FALSE]
  /\ vtime = ResetTime /\ htime = ResetTime
  /\ hdmaen = FALSE
  /\ wai = FALSE /\ irq_disable = TRUE
  /\ handler = "none"
  /\ frame_rendered = FALSE
  /\ events = NoEvents

\* The emulator asks for the next frame.
Call ==
  /\ pc = "idle"
  /\ pc' = "cpu"
  /\ frame_rendered' = FALSE
  /\ UNCHANGED <<position, apu_debt, ppu_debt, cy, nmi, irq, registers, wai,
                 irq_disable, handler, events>>

-----------------------------------------------------------------------------
(* One CPU instruction.                                                    *)

Max2(a, b) == IF a >= b THEN a ELSE b

\* The loop after cpu.dispatch(): what it took, with the cycles charged by
\* the bus, is owed to the others.
Owe(cost) ==
  LET spent == Max2(MinCycles, cost + cy)
  IN  /\ apu_debt' = apu_debt + spent
      /\ ppu_debt' = ppu_debt + spent
      /\ cy' = 0

Instruction(cost) ==
  /\ pc = "cpu" /\ ~wai
  /\ pc' = "others"
  /\ handler' = "none"
  /\ Owe(cost)
  /\ UNCHANGED <<position, frame_rendered, events>>

Compute(cost) ==
  /\ cost = RegisterCost \/ ppu_debt + cost + cy <= DebtMax
  /\ Instruction(cost)
  /\ UNCHANGED <<nmi, irq, registers, wai, irq_disable>>

StoreNmitimen(value) ==
  /\ Instruction(RegisterCost)
  /\ nmitimen' = value
  /\ UNCHANGED <<nmi, irq, vtime, htime, hdmaen, wai, irq_disable>>

\* A store to either half; VTimes and HTimes hold what a half can leave.
StoreVtime(line) ==
  /\ Instruction(RegisterCost)
  /\ vtime' = line
  /\ UNCHANGED <<nmi, irq, nmitimen, htime, hdmaen, wai, irq_disable>>

StoreHtime(dot) ==
  /\ Instruction(RegisterCost)
  /\ htime' = dot
  /\ UNCHANGED <<nmi, irq, nmitimen, vtime, hdmaen, wai, irq_disable>>

StoreHdmaen(enable) ==
  /\ Instruction(RegisterCost)
  /\ hdmaen' = enable
  /\ UNCHANGED <<nmi, irq, nmitimen, vtime, htime, wai, irq_disable>>

LoadRdnmi ==
  /\ Instruction(RegisterCost)
  /\ nmi' = FALSE
  /\ UNCHANGED <<irq, registers, wai, irq_disable>>

LoadTimeup ==
  /\ Instruction(RegisterCost)
  /\ irq' = FALSE
  /\ UNCHANGED <<nmi, registers, wai, irq_disable>>

Wai ==
  /\ Instruction(RegisterCost)
  /\ wai' = TRUE
  /\ UNCHANGED <<nmi, irq, registers, irq_disable>>

\* CLI, SEI, PLP, REP, SEP, RTI.
SetIrqDisable(value) ==
  /\ Instruction(RegisterCost)
  /\ irq_disable' = value
  /\ UNCHANGED <<nmi, irq, registers, wai>>

\* dispatch returns 0 without doing anything while an interrupt is awaited.
Waiting ==
  /\ pc = "cpu" /\ wai
  /\ pc' = "others"
  /\ Owe(0)
  /\ UNCHANGED <<position, nmi, irq, registers, wai, irq_disable, handler,
                 frame_rendered, events>>

-----------------------------------------------------------------------------
(* The APU's turn: one SPC700 instruction at a time.                       *)

ApuBehind == pc = "others" /\ apu_debt > ApuDivider

ApuInstruction(cycles) ==
  /\ ApuBehind
  /\ apu_debt' = apu_debt - cycles * ApuDivider
  /\ UNCHANGED <<pc, position, ppu_debt, cy, nmi, irq, registers, wai,
                 irq_disable, handler, frame_rendered, events>>

-----------------------------------------------------------------------------
(* The PPU's turn: one dot at a time, then what that dot starts.           *)

At(line, dot) == v' = line /\ h' = dot

\* Ppu::update moves the position and takes DotCycles.
Advance ==
  /\ IF h = LastDot
       THEN h' = 0 /\ v' = IF v = LastLine THEN 0 ELSE v + 1
       ELSE h' = h + 1 /\ v' = v
  /\ ppu_debt' = ppu_debt - DotCycles

\* What the `match (v, h)` starts, but for the NMI: the first case that
\* applies.  charge is what it adds to mem.cy.
FrameStart == At(0, 0)
HdmaInit   == At(0, HdmaInitDot)
HdmaLine   == v' <= LastVisible /\ h' = HdmaDot
Render     == At(LastVisible, RenderDot)
NewFrame   == At(NewFrameLine, 0)
AutoRead   == At(NewFrameLine, AutoReadDot)
Refresh    == h' = RefreshDot

HdmaCharge == IF hdmaen THEN HdmaCycles ELSE 0

Charge ==
  IF HdmaInit \/ HdmaLine THEN HdmaCharge
  ELSE IF Refresh THEN RefreshCycles ELSE 0

Bump(e, c) == IF c THEN e + 1 ELSE e

\* The calls the dot makes, counted.
Count ==
  events' =
    IF FrameStart THEN NoEvents
    ELSE [events EXCEPT
            !["init"]   = Bump(@, HdmaInit),
            !["hdma"]   = Bump(@, HdmaLine),
            !["render"] = Bump(@, Render),
            !["frame"]  = Bump(@, NewFrame),
            !["auto"]   = Bump(@, AutoRead /\ nmitimen.auto),
            !["nmi"]    = Bump(@, NewFrame /\ nmitimen.nmi)]

\* Mutant: reading $4210 is the only thing that clears the flag.
NmiFlagUntilRead == nmi' = (NewFrame \/ nmi)

NmiFlag == nmi' = (NewFrame \/ (nmi /\ ~FrameStart))

\* The IRQ checks that follow the match.
VIrq == v' = vtime /\ nmitimen.v
HIrq == h' = htime /\ nmitimen.h

\* Cpu::interrupt as far as the loop can tell.
Interrupt(which) ==
  /\ wai' = FALSE
  /\ handler' = which
  /\ cy' = cy + Charge + InterruptCycles

\* Cpu::trigger_irq: the handler is entered when the disable flag is set.
TriggerIrq ==
  IF irq_disable THEN Interrupt("irq")
  ELSE cy' = cy + Charge /\ UNCHANGED <<wai, handler>>

PpuTurn == pc = "others" /\ ~ApuBehind /\ ppu_debt > 0

\* What follows the turns: the call returns when a frame was rendered; if
\* not, the loop goes round.
EndRound(rendered) == pc' = IF rendered THEN "idle" ELSE "cpu"

\* Mutant: the turn also ends when an IRQ of an earlier dot is still pending.
QuietDotPending ==
  /\ PpuTurn
  /\ Advance
  /\ ~(NewFrame /\ nmitimen.nmi) /\ ~VIrq /\ ~HIrq
  /\ IF irq THEN EndRound(frame_rendered \/ Render) ELSE pc' = pc
  /\ cy' = cy + Charge
  /\ NmiFlag /\ Count
  /\ frame_rendered' = (frame_rendered \/ Render)
  /\ UNCHANGED <<apu_debt, irq, registers, wai, irq_disable, handler>>

\* A dot on which no interrupt is raised.
QuietDot ==
  /\ PpuTurn
  /\ Advance
  /\ ~(NewFrame /\ nmitimen.nmi) /\ ~VIrq /\ ~HIrq
  /\ cy' = cy + Charge
  /\ NmiFlag /\ Count
  /\ frame_rendered' = (frame_rendered \/ Render)
  /\ UNCHANGED <<pc, apu_debt, irq, registers, wai, irq_disable, handler>>

\* Mutant: the loop goes on after an NMI.
NmiDotGoesOn ==
  /\ PpuTurn
  /\ Advance
  /\ NewFrame /\ nmitimen.nmi
  /\ Interrupt("nmi")
  /\ NmiFlag /\ Count
  /\ UNCHANGED <<pc, apu_debt, irq, registers, irq_disable, frame_rendered>>

\* Mutant: trigger_nmi does not end the wait.
NmiDotKeepsWaiting ==
  /\ PpuTurn
  /\ Advance
  /\ NewFrame /\ nmitimen.nmi
  /\ EndRound(frame_rendered) /\ handler' = "nmi" /\ cy' = cy + InterruptCycles
  /\ NmiFlag /\ Count
  /\ UNCHANGED <<wai, apu_debt, irq, registers, irq_disable, frame_rendered>>

\* First V-Blank dot with NMIs enabled: the IRQ checks are not reached.
NmiDot ==
  /\ PpuTurn
  /\ Advance
  /\ NewFrame /\ nmitimen.nmi
  /\ EndRound(frame_rendered)
  /\ Interrupt("nmi")
  /\ NmiFlag /\ Count
  /\ UNCHANGED <<apu_debt, irq, registers, irq_disable, frame_rendered>>

\* Mutant: the IRQ is checked before the match, and ends the turn.
IrqDotFirst ==
  /\ PpuTurn
  /\ Advance
  /\ ~(NewFrame /\ nmitimen.nmi) /\ (VIrq \/ HIrq)
  /\ EndRound(frame_rendered)
  /\ irq' = TRUE
  /\ TriggerIrq
  /\ UNCHANGED <<nmi, events, apu_debt, registers, irq_disable, frame_rendered>>

\* A dot on which an IRQ is raised, after what the dot starts.
IrqDot ==
  /\ PpuTurn
  /\ Advance
  /\ ~(NewFrame /\ nmitimen.nmi) /\ (VIrq \/ HIrq)
  /\ EndRound(frame_rendered \/ Render)
  /\ irq' = TRUE
  /\ TriggerIrq
  /\ NmiFlag /\ Count
  /\ frame_rendered' = (frame_rendered \/ Render)
  /\ UNCHANGED <<apu_debt, registers, irq_disable>>

\* The renderer fails: render_frame returns the error at once, from inside
\* the match, and main ends the program.
RenderFails ==
  /\ PpuTurn
  /\ Advance
  /\ Render
  /\ pc' = "failed"
  /\ UNCHANGED <<apu_debt, cy, nmi, irq, registers, wai, irq_disable, handler,
                 frame_rendered, events>>

PpuDone ==
  /\ pc = "others" /\ ~ApuBehind /\ ppu_debt <= 0
  /\ EndRound(frame_rendered)
  /\ UNCHANGED <<position, apu_debt, ppu_debt, cy, nmi, irq, registers, wai,
                 irq_disable, handler, frame_rendered, events>>

-----------------------------------------------------------------------------
CpuStep ==
  \/ \E cost \in CpuCosts : Compute(cost)
  \/ \E value \in Nmitimens : StoreNmitimen(value)
  \/ \E line \in VTimes : StoreVtime(line)
  \/ \E dot \in HTimes : StoreHtime(dot)
  \/ \E enable \in BOOLEAN : StoreHdmaen(enable)
  \/ LoadRdnmi \/ LoadTimeup \/ Wai
  \/ \E value \in BOOLEAN : SetIrqDisable(value)
  \/ Waiting

Round == \/ CpuStep
         \/ \E cycles \in ApuCosts : ApuInstruction(cycles)
         \/ QuietDot \/ NmiDot \/ IrqDot \/ RenderFails \/ PpuDone

Next == Call \/ Round

Spec == Init /\ [][Next]_vars

\* The loop runs as long as a call is active; only main decides whether
\* there is another call.
Fairness == WF_vars(Round)

\* main keeps asking for frames (Emulator::run).
RunFairness == Fairness /\ WF_vars(Call)

FairSpec == Spec /\ Fairness
RunSpec  == Spec /\ RunFairness

-----------------------------------------------------------------------------
(* What the loop promises.                                                 *)

\* Lexicographic order of positions in the frame.
Reached(line, dot) == v > line \/ (v = line /\ h >= dot)

Flag(b) == IF b THEN 1 ELSE 0

\* Each event of the frame has happened exactly as often as the position says.
EventCounts ==
  /\ events["init"]   = Flag(Reached(0, HdmaInitDot))
  /\ events["render"] = Flag(Reached(LastVisible, RenderDot))
  /\ events["frame"]  = Flag(Reached(NewFrameLine, 0))
  /\ events["hdma"]   = IF v > LastVisible THEN NewFrameLine
                        ELSE v + Flag(h >= HdmaDot)
  /\ events["auto"]  <= Flag(Reached(NewFrameLine, AutoReadDot))
  /\ events["nmi"]   <= events["frame"]

\* Whatever interrupts the PPU's turns, no dot's work is lost, repeated or
\* done early.
EventsMatchPosition == pc # "failed" => EventCounts

\* The NMI flag a program polls in $4210 is only ever set in V-Blank.
NmiFlagInVBlank == nmi => v >= NewFrameLine

\* The first instruction of an NMI handler runs while the PPU is on the first
\* dot of V-Blank, whatever the PPU owed when it got there.
NmiHandlerAtVBlank ==
  handler = "nmi" => v = NewFrameLine /\ h = 0

\* The dot the PPU is on is one that raises an interrupt: it ended the turn.
CutShort ==
  \/ v = NewFrameLine /\ h = 0 /\ nmi /\ nmitimen.nmi
  \/ irq /\ ((v = vtime /\ nmitimen.v) \/ (h = htime /\ nmitimen.h))

\* When the CPU gets its turn, the APU is at most one of its cycles behind, and
\* ahead by less than the instruction that put it there; the PPU is ahead by
\* less than a dot, and behind only if it stands on the very dot whose
\* interrupt cut this turn short.  An IRQ flag still set from an earlier dot
\* is no excuse.
InStep ==
  pc = "cpu" =>
    /\ apu_debt <= ApuDivider
    /\ apu_debt >= 0 \/ \E cycles \in ApuCosts : apu_debt > ApuDivider - cycles * ApuDivider
    /\ ppu_debt > -DotCycles
    /\ ppu_debt > 0 => CutShort

\* A call returns: with a frame or with the renderer's error.
FrameCompletes == (pc = "cpu") ~> (pc \in {"idle", "failed"})

\* A program that waits for the NMI gets it.
NmiEndsWait ==
  (wai /\ nmitimen.nmi) ~> (~wai \/ pc = "failed")

\* The doc comment of Cpu::trigger_irq (wdc65816/lib.rs:529): the IRQ handler
\* is invoked if interrupts are enabled.
IrqTakenIfEnabled ==
  [][IrqDot /\ ~irq_disable => handler' = "irq"]_vars
=============================================================================
