-------------------------- MODULE FrameLoopProofs --------------------------
(***************************************************************************)
(* The invariants of the frame loop hold for every geometry of the frame,  *)
(* every cost of the instructions and every program.                       *)
(***************************************************************************)
EXTENDS FrameLoop, TLAPS

\* A dot moves the PPU to a position of the frame.
LEMMA AdvanceType ==
  ASSUME TypeOK, Advance
  PROVE  /\ v' \in 0..LastLine /\ h' \in 0..LastDot
         /\ ppu_debt' \in Int /\ ppu_debt' = ppu_debt - DotCycles
  BY GeometryAssumption, CostAssumption DEF TypeOK, Advance

LEMMA ChargeType ==
  Charge \in Nat
  BY CostAssumption DEF Charge, HdmaCharge

LEMMA CountType ==
  ASSUME TypeOK, Count
  PROVE  events' \in [{"init", "hdma", "render", "frame", "auto", "nmi"} -> Nat]
  <1>1. CASE FrameStart
    BY <1>1 DEF Count, NoEvents
  <1>2. CASE ~FrameStart
    <2>1. \A c : \A n \in Nat : Bump(n, c) \in Nat
      BY DEF Bump
    <2> QED
      BY <1>2, <2>1 DEF Count, TypeOK
  <1> QED
    BY <1>1, <1>2

\* What an instruction leaves behind is well-typed.
LEMMA OweType ==
  ASSUME TypeOK, NEW cost \in Nat, Owe(cost)
  PROVE  /\ apu_debt' \in Int /\ ppu_debt' \in Int /\ cy' \in Nat
         /\ ppu_debt' >= ppu_debt /\ apu_debt' >= apu_debt
  BY CostAssumption DEF TypeOK, Owe, Max2

\* TypeOK is preserved by every instruction.
LEMMA CpuStepType ==
  ASSUME TypeOK, CpuStep
  PROVE  TypeOK'
  <1>1. ASSUME NEW cost \in CpuCosts, Compute(cost)  PROVE TypeOK'
    <2>1. cost \in Nat
      BY CostAssumption
    <2> QED
      BY <1>1, <2>1, OweType DEF Compute, Instruction, TypeOK, position, registers
  <1> RegisterCost \in Nat
    BY CostAssumption
  <1>2. ASSUME NEW value \in Nmitimens, StoreNmitimen(value)  PROVE TypeOK'
    BY <1>2, OweType, CostAssumption DEF StoreNmitimen, Instruction, TypeOK, position
  <1>3. ASSUME NEW line \in VTimes, StoreVtime(line)  PROVE TypeOK'
    BY <1>3, OweType, CostAssumption DEF StoreVtime, Instruction, TypeOK, position
  <1>4. ASSUME NEW dot \in HTimes, StoreHtime(dot)  PROVE TypeOK'
    BY <1>4, OweType, CostAssumption DEF StoreHtime, Instruction, TypeOK, position
  <1>5. ASSUME NEW enable \in BOOLEAN, StoreHdmaen(enable)  PROVE TypeOK'
    BY <1>5, OweType DEF StoreHdmaen, Instruction, TypeOK, position
  <1>6. CASE LoadRdnmi
    BY <1>6, OweType DEF LoadRdnmi, Instruction, TypeOK, position, registers
  <1>7. CASE LoadTimeup
    BY <1>7, OweType DEF LoadTimeup, Instruction, TypeOK, position, registers
  <1>8. CASE Wai
    BY <1>8, OweType DEF Wai, Instruction, TypeOK, position, registers
  <1>9. ASSUME NEW value \in BOOLEAN, SetIrqDisable(value)  PROVE TypeOK'
    BY <1>9, OweType DEF SetIrqDisable, Instruction, TypeOK, position, registers
  <1>10. CASE Waiting
    BY <1>10, OweType DEF Waiting, TypeOK, position, registers
  <1> QED
    BY <1>1, <1>2, <1>3, <1>4, <1>5, <1>6, <1>7, <1>8, <1>9, <1>10 DEF CpuStep

\* TypeOK is preserved by every other step.
LEMMA OthersType ==
  ASSUME TypeOK,
         \/ Call \/ QuietDot \/ NmiDot \/ IrqDot \/ RenderFails \/ PpuDone
         \/ \E cycles \in ApuCosts : ApuInstruction(cycles)
  PROVE  TypeOK'
  <1> InterruptCycles \in Nat
    BY CostAssumption
  <1>1. CASE Call
    BY <1>1 DEF Call, TypeOK, position, registers
  <1>2. ASSUME NEW cycles \in ApuCosts, ApuInstruction(cycles)  PROVE TypeOK'
    <2>1. apu_debt' \in Int
      BY <1>2, CostAssumption DEF ApuInstruction, TypeOK
    <2> QED
      BY <1>2, <2>1 DEF ApuInstruction, TypeOK, position, registers
  <1>3. CASE QuietDot
    <2>1. nmi' \in BOOLEAN /\ frame_rendered' \in BOOLEAN
      BY <1>3 DEF QuietDot, NmiFlag, NewFrame, FrameStart, At, Render, TypeOK
    <2>2. cy' \in Nat
      BY <1>3, ChargeType DEF QuietDot, TypeOK
    <2> QED
      BY <1>3, <2>1, <2>2, AdvanceType, CountType DEF QuietDot, TypeOK, registers
  <1>4. CASE NmiDot
    <2>1. nmi' \in BOOLEAN /\ pc' \in {"idle", "cpu"}
      BY <1>4 DEF NmiDot, NmiFlag, NewFrame, FrameStart, At, EndRound, TypeOK
    <2>2. cy' \in Nat
      BY <1>4, ChargeType DEF NmiDot, Interrupt, TypeOK
    <2> QED
      BY <1>4, <2>1, <2>2, AdvanceType, CountType
         DEF NmiDot, Interrupt, TypeOK, registers
  <1>5. CASE IrqDot
    <2>1. nmi' \in BOOLEAN /\ frame_rendered' \in BOOLEAN /\ pc' \in {"idle", "cpu"}
      BY <1>5 DEF IrqDot, NmiFlag, NewFrame, FrameStart, At, Render, EndRound, TypeOK
    <2>2. cy' \in Nat /\ wai' \in BOOLEAN /\ handler' \in {"none", "nmi", "irq"}
      <3>1. CASE irq_disable
        <4>1. wai' = FALSE /\ handler' = "irq" /\ cy' = cy + Charge + InterruptCycles
          BY <1>5, <3>1, Zenon DEF IrqDot, TriggerIrq, Interrupt
        <4>2. wai' \in BOOLEAN /\ handler' \in {"none", "nmi", "irq"}
          BY <4>1, Zenon
        <4>3. cy \in Nat /\ Charge \in Nat
          BY ChargeType DEF TypeOK
        <4> QED
          BY <4>1, <4>2, <4>3
      <3>2. CASE ~irq_disable
        BY <1>5, <3>2, ChargeType DEF IrqDot, TriggerIrq, TypeOK
      <3> QED
        BY <3>1, <3>2
    <2> QED
      BY <1>5, <2>1, <2>2, AdvanceType, CountType DEF IrqDot, TypeOK, registers
  <1>6. CASE RenderFails
    BY <1>6, AdvanceType DEF RenderFails, TypeOK, registers
  <1>7. CASE PpuDone
    BY <1>7 DEF PpuDone, EndRound, TypeOK, position, registers
  <1> QED
    BY <1>1, <1>2, <1>3, <1>4, <1>5, <1>6, <1>7

\* The initial state is well-typed.
LEMMA InitType ==
  Init => TypeOK
  <1> SUFFICES ASSUME Init  PROVE TypeOK
    OBVIOUS
  <1>1. nmitimen \in NmitimenType
    BY DEF Init, NmitimenType
  <1>2. events \in [{"init", "hdma", "render", "frame", "auto", "nmi"} -> Nat]
    BY DEF Init, NoEvents
  <1>3. v \in 0..LastLine /\ h \in 0..LastDot
    BY GeometryAssumption DEF Init
  <1>4. {nmi, irq, hdmaen, wai, irq_disable, frame_rendered} \subseteq BOOLEAN
    BY DEF Init
  <1>5. apu_debt \in Int /\ ppu_debt \in Int /\ cy \in Nat /\ vtime \in Nat /\ htime \in Nat
    BY CostAssumption DEF Init
  <1>6. pc \in {"idle", "cpu", "others", "failed"} /\ handler \in {"none", "nmi", "irq"}
    BY DEF Init
  <1> QED
    BY <1>1, <1>2, <1>3, <1>4, <1>5, <1>6 DEF TypeOK

\* The state of the frame loop is well-typed (Snes::render_frame).
THEOREM FrameLoopTypeCorrect ==
  Spec => []TypeOK
  <1>1. Init => TypeOK
    BY InitType
  <1>2. TypeOK /\ [Next]_vars => TypeOK'
    <2> SUFFICES ASSUME TypeOK, [Next]_vars  PROVE TypeOK'
      OBVIOUS
    <2>1. CASE Next
      BY <2>1, CpuStepType, OthersType DEF Next, Round
    <2>2. CASE UNCHANGED vars
      BY <2>2 DEF vars, position, registers, TypeOK
    <2> QED
      BY <2>1, <2>2
  <1> QED
    BY <1>1, <1>2, PTL DEF Spec
-----------------------------------------------------------------------------
(* The inductive invariant.                                                *)

\* An entered handler runs its first instruction before the others' turn.
HandlerFresh == handler # "none" => pc \in {"idle", "cpu"} /\ ~wai

\* The APU is never ahead by as much as one of its instructions.
ApuAhead ==
  apu_debt >= 0 \/ \E cycles \in ApuCosts : apu_debt > ApuDivider - cycles * ApuDivider

DebtsBounded ==
  /\ ApuAhead
  /\ ppu_debt > -DotCycles
  /\ pc \in {"idle", "cpu"} =>
       /\ apu_debt <= ApuDivider
       /\ ppu_debt > 0 => CutShort

IInv == /\ TypeOK /\ HandlerFresh /\ NmiHandlerAtVBlank
        /\ NmiFlagInVBlank /\ EventsMatchPosition /\ DebtsBounded

\* What Count does, event by event.
LEMMA CountEach ==
  ASSUME TypeOK, Count, ~FrameStart
  PROVE  /\ events'["init"]   = Bump(events["init"], HdmaInit)
         /\ events'["hdma"]   = Bump(events["hdma"], HdmaLine)
         /\ events'["render"] = Bump(events["render"], Render)
         /\ events'["frame"]  = Bump(events["frame"], NewFrame)
         /\ events'["auto"]   = Bump(events["auto"], AutoRead /\ nmitimen.auto)
         /\ events'["nmi"]    = Bump(events["nmi"], NewFrame /\ nmitimen.nmi)
  BY DEF TypeOK, Count

\* The counts go on matching the position when the PPU moves.
LEMMA DotCounts ==
  ASSUME TypeOK, EventCounts, Advance, Count
  PROVE  EventCounts'
  <1> USE GeometryAssumption DEF NewFrameLine
  <1>0. /\ v \in 0..LastLine /\ h \in 0..LastDot
        /\ \A e \in {"init", "hdma", "render", "frame", "auto", "nmi"} : events[e] \in Nat
    BY DEF TypeOK
  <1>1. CASE FrameStart
    BY <1>1 DEF EventCounts, Count, NoEvents, FrameStart, At, Reached, Flag
  <1>2. CASE ~FrameStart
    <2>1. v' = v \/ (v' = v + 1 /\ h = LastDot /\ h' = 0)
      BY <1>0, <1>2 DEF Advance, FrameStart, At
    <2>2. v' = v => h' = h + 1
      BY <1>0, <1>2 DEF Advance, FrameStart, At
    <2>3. events'["init"] = Flag(Reached(0, HdmaInitDot)')
      <3>1. events'["init"] = IF v' = 0 /\ h' = HdmaInitDot THEN events["init"] + 1 ELSE events["init"]
        BY <1>2, CountEach DEF Bump, HdmaInit, At
      <3> QED
        BY <3>1, <2>1, <2>2, <1>0 DEF EventCounts, Reached, Flag
    <2>4. events'["render"] = Flag(Reached(LastVisible, RenderDot)')
      <3>1. events'["render"] =
              IF v' = LastVisible /\ h' = RenderDot THEN events["render"] + 1 ELSE events["render"]
        BY <1>2, CountEach DEF Bump, Render, At
      <3> QED
        BY <3>1, <2>1, <2>2, <1>0 DEF EventCounts, Reached, Flag
    <2>5. events'["frame"] = Flag(Reached(NewFrameLine, 0)')
      <3>1. events'["frame"] =
              IF v' = NewFrameLine /\ h' = 0 THEN events["frame"] + 1 ELSE events["frame"]
        BY <1>2, CountEach DEF Bump, NewFrame, At
      <3> QED
        BY <3>1, <2>1, <2>2, <1>0 DEF EventCounts, Reached, Flag
    <2>6. events'["hdma"] = IF v' > LastVisible THEN NewFrameLine ELSE v' + Flag(h' >= HdmaDot)
      <3>1. events'["hdma"] =
              IF v' <= LastVisible /\ h' = HdmaDot THEN events["hdma"] + 1 ELSE events["hdma"]
        BY <1>2, CountEach DEF Bump, HdmaLine
      <3> QED
        BY <3>1, <2>1, <2>2, <1>0 DEF EventCounts, Flag
    <2>7. events'["auto"] <= Flag(Reached(NewFrameLine, AutoReadDot)')
      <3>1. \/ events'["auto"] = events["auto"]
            \/ v' = NewFrameLine /\ h' = AutoReadDot /\ events'["auto"] = events["auto"] + 1
        BY <1>2, CountEach DEF Bump, AutoRead, At
      <3> QED
        BY <3>1, <2>1, <2>2, <1>0 DEF EventCounts, Reached, Flag
    <2>8. events'["nmi"] <= events'["frame"]
      <3>1. \/ /\ events'["nmi"] = events["nmi"]
               /\ events'["frame"] \in {events["frame"], events["frame"] + 1}
            \/ events'["nmi"] = events["nmi"] + 1 /\ events'["frame"] = events["frame"] + 1
        BY <1>2, CountEach DEF Bump
      <3>2. events["nmi"] \in Nat /\ events["frame"] \in Nat /\ events["nmi"] <= events["frame"]
        BY <1>0 DEF EventCounts
      <3> QED
        BY <3>1, <3>2
    <2> QED
      BY <2>3, <2>4, <2>5, <2>6, <2>7, <2>8 DEF EventCounts
  <1> QED
    BY <1>1, <1>2

\* The NMI flag stays a V-Blank flag when the PPU moves.
LEMMA DotNmiFlag ==
  ASSUME TypeOK, NmiFlagInVBlank, Advance, NmiFlag
  PROVE  NmiFlagInVBlank'
  <1>1. nmi' => NewFrame \/ (nmi /\ ~FrameStart)
    BY DEF NmiFlag
  <1>2. CASE NewFrame
    BY <1>2, GeometryAssumption DEF NewFrame, At, NmiFlagInVBlank, NewFrameLine
  <1>3. ASSUME v >= NewFrameLine, ~FrameStart  PROVE v' >= NewFrameLine
    BY <1>3, GeometryAssumption DEF TypeOK, Advance, FrameStart, At, NewFrameLine
  <1> QED
    BY <1>1, <1>2, <1>3 DEF NmiFlagInVBlank

\* What an instruction does to the parts of the invariant.
LEMMA CpuStepFrame ==
  ASSUME TypeOK, CpuStep
  PROVE  /\ pc' = "others" /\ pc = "cpu"
         /\ v' = v /\ h' = h /\ events' = events
         /\ nmi' => nmi
         /\ ppu_debt' >= ppu_debt /\ apu_debt' >= apu_debt
         /\ handler' = "none" \/ (wai /\ handler' = handler)
  <1> RegisterCost \in Nat /\ 0 \in Nat
    BY CostAssumption
  <1> DEFINE Goal ==
         /\ pc' = "others" /\ pc = "cpu"
         /\ v' = v /\ h' = h /\ events' = events
         /\ ppu_debt' >= ppu_debt /\ apu_debt' >= apu_debt
         /\ handler' = "none" \/ (wai /\ handler' = handler)
  <1>1. ASSUME NEW cost \in Nat, Instruction(cost)  PROVE Goal
    BY <1>1, OweType DEF Instruction, position
  <1>2. CASE Waiting
    BY <1>2, OweType DEF Waiting, position
  <1>3. \/ Waiting
        \/ \E cost \in Nat : Instruction(cost)
    BY CostAssumption DEF CpuStep, Compute, StoreNmitimen, StoreVtime, StoreHtime,
         StoreHdmaen, LoadRdnmi, LoadTimeup, Wai, SetIrqDisable
  <1>4. nmi' => nmi
    BY DEF CpuStep, Compute, StoreNmitimen, StoreVtime, StoreHtime,
         StoreHdmaen, LoadRdnmi, LoadTimeup, Wai, SetIrqDisable, Waiting
  <1> QED
    BY <1>1, <1>2, <1>3, <1>4

\* Owing the APU more does not put it further ahead.
LEMMA AheadGrows ==
  ASSUME TypeOK, ApuAhead, apu_debt' \in Int, apu_debt' >= apu_debt
  PROVE  ApuAhead'
  <1>1. CASE apu_debt >= 0
    BY <1>1 DEF ApuAhead, TypeOK
  <1>2. ASSUME NEW cycles \in ApuCosts, apu_debt > ApuDivider - cycles * ApuDivider
        PROVE  ApuAhead'
    <2>1. ApuDivider - cycles * ApuDivider \in Int
      BY CostAssumption
    <2>2. apu_debt' > ApuDivider - cycles * ApuDivider
      BY <1>2, <2>1 DEF TypeOK
    <2> QED
      BY <2>2 DEF ApuAhead
  <1> QED
    BY <1>1, <1>2 DEF ApuAhead

\* The invariant is preserved by the CPU's turn.
LEMMA CpuStepInv ==
  ASSUME IInv, CpuStep
  PROVE  IInv'
  <1>1. TypeOK'
    BY CpuStepType DEF IInv
  <1>2. HandlerFresh' /\ NmiHandlerAtVBlank'
    BY CpuStepFrame DEF IInv, HandlerFresh, NmiHandlerAtVBlank
  <1>3. NmiFlagInVBlank'
    BY CpuStepFrame DEF IInv, NmiFlagInVBlank
  <1>4. EventsMatchPosition'
    BY CpuStepFrame DEF IInv, EventsMatchPosition, EventCounts, Reached
  <1>5. DebtsBounded'
    <2>1. ApuAhead'
      BY CpuStepFrame, AheadGrows, <1>1 DEF IInv, DebtsBounded, TypeOK
    <2> QED
      BY <2>1, CpuStepFrame, <1>1, CostAssumption DEF IInv, DebtsBounded, TypeOK
  <1> QED
    BY <1>1, <1>2, <1>3, <1>4, <1>5 DEF IInv

\* The invariant is preserved by every dot of the PPU.
LEMMA DotInv ==
  ASSUME IInv, QuietDot \/ NmiDot \/ IrqDot
  PROVE  IInv'
  <1>1. TypeOK'
    BY OthersType DEF IInv
  <1>2. /\ PpuTurn /\ Advance /\ NmiFlag /\ Count
        /\ apu_debt' = apu_debt
    BY DEF QuietDot, NmiDot, IrqDot
  <1>3. handler = "none"
    BY <1>2 DEF PpuTurn, IInv, HandlerFresh
  <1>4. NmiFlagInVBlank'
    BY <1>2, DotNmiFlag DEF IInv
  <1>5. EventsMatchPosition'
    BY <1>2, DotCounts DEF IInv, EventsMatchPosition, PpuTurn
  <1>6. ppu_debt' > -DotCycles /\ apu_debt' <= ApuDivider /\ ApuAhead'
    BY <1>2, AdvanceType, CostAssumption DEF PpuTurn, ApuBehind, ApuAhead, IInv, DebtsBounded, TypeOK
  <1>7. CASE QuietDot
    <2>1. pc' = "others" /\ handler' = "none"
      BY <1>7, <1>3, <1>2 DEF QuietDot, PpuTurn
    <2> QED
      BY <2>1, <1>1, <1>4, <1>5, <1>6
         DEF IInv, HandlerFresh, NmiHandlerAtVBlank, DebtsBounded
  <1>8. CASE NmiDot
    <2>1. pc' \in {"idle", "cpu"} /\ ~wai' /\ handler' = "nmi"
      BY <1>8 DEF NmiDot, EndRound, Interrupt
    <2>2. v' = NewFrameLine /\ h' = 0 /\ nmi' /\ nmitimen'.nmi
      BY <1>8 DEF NmiDot, NewFrame, At, NmiFlag, registers
    <2>3. CutShort'
      BY <2>2 DEF CutShort
    <2> QED
      BY <2>1, <2>2, <2>3, <1>1, <1>4, <1>5, <1>6
         DEF IInv, HandlerFresh, NmiHandlerAtVBlank, DebtsBounded
  <1>9. CASE IrqDot
    <2>1. pc' \in {"idle", "cpu"} /\ irq'
      BY <1>9 DEF IrqDot, EndRound
    <2>2. handler' = "none" \/ (handler' = "irq" /\ ~wai')
      BY <1>9, <1>3, Zenon DEF IrqDot, TriggerIrq, Interrupt
    <2>3. CutShort'
      BY <1>9, <2>1 DEF IrqDot, VIrq, HIrq, registers, CutShort
    <2> QED
      BY <2>1, <2>2, <2>3, <1>1, <1>4, <1>5, <1>6
         DEF IInv, HandlerFresh, NmiHandlerAtVBlank, DebtsBounded
  <1> QED
    BY <1>7, <1>8, <1>9

\* The invariant is preserved by the remaining steps.
LEMMA RestInv ==
  ASSUME IInv,
         \/ Call \/ RenderFails \/ PpuDone
         \/ \E cycles \in ApuCosts : ApuInstruction(cycles)
  PROVE  IInv'
  <1>1. TypeOK'
    BY OthersType DEF IInv
  <1>2. CASE Call
    BY <1>1, <1>2 DEF Call, IInv, HandlerFresh, NmiHandlerAtVBlank, NmiFlagInVBlank,
         EventsMatchPosition, EventCounts, Reached, DebtsBounded, ApuAhead, CutShort,
         position, registers
  <1>3. ASSUME NEW cycles \in ApuCosts, ApuInstruction(cycles)  PROVE IInv'
    <2>1. ApuDivider \in Int /\ cycles * ApuDivider \in Int
      BY CostAssumption
    <2>2. apu_debt' > ApuDivider - cycles * ApuDivider
      BY <1>3, <2>1 DEF ApuInstruction, ApuBehind, IInv, TypeOK
    <2>3. ApuAhead'
      BY <2>2 DEF ApuAhead
    <2> QED
      BY <1>1, <1>3, <2>3 DEF ApuInstruction, ApuBehind, IInv, HandlerFresh, NmiHandlerAtVBlank,
         NmiFlagInVBlank, EventsMatchPosition, EventCounts, Reached, DebtsBounded, position
  <1>4. CASE RenderFails
    <2>1. handler' = "none" /\ pc' = "failed"
      BY <1>4 DEF RenderFails, PpuTurn, IInv, HandlerFresh
    <2>2. NmiFlagInVBlank'
      <3>1. v = LastVisible /\ nmi' = nmi
        BY <1>4, GeometryAssumption DEF RenderFails, Render, At, Advance, IInv, TypeOK
      <3> QED
        BY <3>1, GeometryAssumption DEF IInv, NmiFlagInVBlank, NewFrameLine
    <2>3. ppu_debt' > -DotCycles /\ ApuAhead'
      BY <1>4, CostAssumption DEF RenderFails, PpuTurn, Advance, IInv, DebtsBounded, ApuAhead, TypeOK
    <2> QED
      BY <1>1, <2>1, <2>2, <2>3
         DEF IInv, HandlerFresh, NmiHandlerAtVBlank, EventsMatchPosition, DebtsBounded
  <1>5. CASE PpuDone
    <2>1. pc' \in {"idle", "cpu"} /\ pc = "others"
      BY <1>5 DEF PpuDone, EndRound
    <2>2. apu_debt <= ApuDivider /\ ~(ppu_debt > 0)
      BY <1>5, CostAssumption DEF PpuDone, ApuBehind, IInv, TypeOK
    <2>3. ApuAhead'
      BY <1>5 DEF PpuDone, IInv, DebtsBounded, ApuAhead
    <2> QED
      BY <1>1, <1>5, <2>1, <2>2, <2>3 DEF PpuDone, IInv, HandlerFresh, NmiHandlerAtVBlank,
         NmiFlagInVBlank, EventsMatchPosition, EventCounts, Reached, DebtsBounded, position
  <1> QED
    BY <1>2, <1>3, <1>4, <1>5

\* IInv is an inductive invariant of the frame loop.
THEOREM FrameLoopInvariance ==
  Spec => []IInv
  <1>1. Init => IInv
    <2> SUFFICES ASSUME Init  PROVE IInv
      OBVIOUS
    <2>1. TypeOK
      BY InitType
    <2>2. HandlerFresh /\ NmiHandlerAtVBlank /\ NmiFlagInVBlank
      BY DEF Init, HandlerFresh, NmiHandlerAtVBlank, NmiFlagInVBlank
    <2>3. EventsMatchPosition
      BY GeometryAssumption
         DEF Init, EventsMatchPosition, EventCounts, NoEvents, Reached, Flag, NewFrameLine
    <2>4. DebtsBounded
      BY CostAssumption DEF Init, DebtsBounded, ApuAhead
    <2> QED
      BY <2>1, <2>2, <2>3, <2>4 DEF IInv
  <1>2. IInv /\ [Next]_vars => IInv'
    <2> SUFFICES ASSUME IInv, [Next]_vars  PROVE IInv'
      OBVIOUS
    <2>1. CASE Next
      BY <2>1, CpuStepInv, DotInv, RestInv DEF Next, Round
    <2>2. CASE UNCHANGED vars
      BY <2>2 DEF vars, position, registers, IInv, TypeOK, HandlerFresh, NmiHandlerAtVBlank,
           NmiFlagInVBlank, EventsMatchPosition, EventCounts, Reached, DebtsBounded,
           ApuAhead, CutShort
    <2> QED
      BY <2>1, <2>2
  <1> QED
    BY <1>1, <1>2, PTL DEF Spec

\* No dot's work is lost, repeated or done early, whatever cuts the PPU's turn
\* short (snes.rs:407-471).
THEOREM EventsHappenOnce ==
  Spec => []EventsMatchPosition
  <1>1. IInv => EventsMatchPosition
    BY DEF IInv
  <1> QED
    BY <1>1, FrameLoopInvariance, PTL

\* $4210 shows an NMI in V-Blank only (snes.rs:408, 430).
THEOREM NmiFlagOnlyInVBlank ==
  Spec => []NmiFlagInVBlank
  <1>1. IInv => NmiFlagInVBlank
    BY DEF IInv
  <1> QED
    BY <1>1, FrameLoopInvariance, PTL

\* An NMI handler starts on the first dot of V-Blank, whatever the PPU still
\* owes (snes.rs:431-436).
THEOREM NmiIsImmediate ==
  Spec => []NmiHandlerAtVBlank
  <1>1. IInv => NmiHandlerAtVBlank
    BY DEF IInv
  <1> QED
    BY <1>1, FrameLoopInvariance, PTL

\* The CPU runs while the PPU owes cycles only on the dot of an interrupt, and
\* neither is the APU ahead by an instruction nor the PPU by a dot (snes.rs:396-473).
THEOREM ComponentsInStep ==
  Spec => []InStep
  <1>1. IInv => InStep
    BY DEF IInv, DebtsBounded, ApuAhead, InStep
  <1> QED
    BY <1>1, FrameLoopInvariance, PTL
=============================================================================
