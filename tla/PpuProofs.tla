------------------------------ MODULE PpuProofs ------------------------------
(* What the PPU promises: of the ports to its memories and of those of WRAM  *)
(* (Ports.tla), proved for any width of a byte, sizes of the memories and    *)
(* settings of a program; and of the cached lines of the backgrounds, the    *)
(* line of sprites and the layer a dot shows (Render.tla, Sprites.tla), for  *)
(* any screen, any number of sprites and any settings.                       *)
EXTENDS Ports, Render, FiniteSetTheorems, TLAPS

-----------------------------------------------------------------------------
(* Lemmas about numbers.                                                   *)

LEMMA Division ==
  ASSUME NEW n \in Nat, NEW d \in Nat \ {0}
  PROVE  n % d \in 0..(d - 1) /\ n \div d \in Nat /\ n = d * (n \div d) + (n % d)
OBVIOUS

LEMMA Product == ASSUME NEW a \in Nat, NEW b \in Nat PROVE a * b \in Nat
OBVIOUS

LEMMA ProductLeq ==
  ASSUME NEW a \in Nat, NEW b \in Nat, NEW d \in Nat, a <= b
  PROVE  a * d <= b * d
OBVIOUS

\* A number of two digits, of which the second is less than d.
LEMMA Join ==
  ASSUME NEW k \in Nat \ {0}, NEW d \in Nat \ {0}, NEW a \in 0..(k - 1), NEW b \in 0..(d - 1)
  PROVE  a * d + b \in 0..(k * d - 1)
<1>1. a + 1 <= k /\ a \in Nat /\ a + 1 \in Nat /\ k \in Nat /\ b \in Nat /\ b < d
  OBVIOUS
<1>2. (a + 1) * d <= k * d
  BY <1>1, ProductLeq
<1>3. (a + 1) * d = a * d + d
  OBVIOUS
<1>4. a * d \in Nat /\ k * d \in Nat
  BY <1>1, Product
<1>5. QED BY <1>1, <1>2, <1>3, <1>4

\* Its first digit.
LEMMA Split ==
  ASSUME NEW k \in Nat \ {0}, NEW d \in Nat \ {0}, NEW n \in 0..(k * d - 1)
  PROVE  n \div d \in 0..(k - 1) /\ n % d \in 0..(d - 1)
<1> DEFINE q == n \div d
<1>0. k * d \in Nat /\ n \in Nat
  BY Product
<1>1. n % d \in 0..(d - 1) /\ q \in Nat /\ n = d * q + (n % d)
  BY <1>0, Division
<1> HIDE DEF q
<1>2. CASE q >= k
  <2>1. k * d <= q * d
    BY <1>1, <1>2, ProductLeq
  <2>2. q * d = d * q
    BY <1>1
  <2>3. q * d \in Nat
    BY <1>1, Product
  <2>4. QED BY <1>0, <1>1, <2>1, <2>2, <2>3
<1>3. CASE ~(q >= k)
  BY <1>1, <1>3 DEF q
<1>4. QED BY <1>2, <1>3

LEMMA Sizes1 ==
  /\ Radix \in Nat \ {0} /\ Radix > 1 /\ Radix * Radix \in Nat \ {0}
  /\ WramPages \in 1..Radix /\ WramPages * Radix \in Nat \ {0}
  /\ WramSize = WramPages * (Radix * Radix) /\ WramSize = (WramPages * Radix) * Radix
  /\ WramSize \in Nat \ {0}
<1>1. Radix \in Nat \ {0} /\ Radix > 1 /\ WramPages \in 1..Radix
  BY PortsAssumption
<1>2. \A a, b \in Nat \ {0} : a * b \in Nat \ {0}
  OBVIOUS
<1>3. Radix * Radix \in Nat \ {0} /\ WramPages * Radix \in Nat \ {0}
  BY <1>1, <1>2
<1>4. (WramPages * Radix) * Radix = WramPages * (Radix * Radix)
  BY <1>1
<1>5. (WramPages * Radix) * Radix \in Nat \ {0}
  BY <1>1, <1>2, <1>3
<1>6. QED BY <1>1, <1>3, <1>4, <1>5 DEF WramSize

LEMMA WordHalves ==
  /\ \A w \in Word : Lo(w) \in Byte /\ Hi(w) \in Byte
  /\ \A h, l \in Byte : h * Radix + l \in Word
<1>1. ASSUME NEW w \in Word PROVE Lo(w) \in Byte /\ Hi(w) \in Byte
  BY Sizes1, Split DEF Word, Lo, Hi, Byte
<1>2. ASSUME NEW h \in Byte, NEW l \in Byte PROVE h * Radix + l \in Word
  BY Sizes1, Join DEF Word, Byte
<1>3. QED BY <1>1, <1>2

LEMMA WordsWrap == \A n \in Nat : n % (Radix * Radix) \in Word
BY Sizes1, Division DEF Word

LEMMA StoredIsByte == Values \subseteq Byte
BY PortsAssumption DEF Byte

-----------------------------------------------------------------------------
(* Types: the stream, and then one lemma for each group of registers.      *)

LEMMA NoBytes == <<>> \in Seq(Byte) /\ Len(<<>>) = 0
OBVIOUS

LEMMA RestartKeeps ==
  ASSUME StreamOK, NEW a \in Nat, Restart(a) PROVE StreamOK'
<1>1. stream.sets + 1 \in 0..MaxSets
  <2>1. stream.sets \in 0..MaxSets
    BY DEF StreamOK
  <2>2. stream.sets < MaxSets
    BY Zenon DEF Restart
  <2>3. MaxSets \in Nat
    BY PortsAssumption
  <2>4. QED BY <2>1, <2>2, <2>3
<1>2. stream' = [stream EXCEPT !.kind = "none", !.start = a, !.data = <<>>, !.sets = stream.sets + 1]
  BY DEF Restart
<1>3. stream'.data = <<>> /\ stream'.moves = stream.moves /\ stream.moves \in 0..MaxMoves
  BY <1>2 DEF StreamOK
<1>4. Len(stream'.data) <= stream'.moves
  BY <1>3, NoBytes, PortsAssumption
<1>5. QED BY <1>1, <1>2, <1>4, NoBytes DEF StreamOK

LEMMA ExtendKeeps ==
  ASSUME StreamOK, NEW kind \in {"load", "store", "low", "high"}, NEW inTurn, NEW b \in Byte,
         Extend(kind, inTurn, b)
  PROVE  StreamOK'
<1>1. stream.moves + 1 \in 0..MaxMoves
  <2>1. stream.moves \in 0..MaxMoves
    BY DEF StreamOK
  <2>2. stream.moves < MaxMoves
    BY Zenon DEF Extend
  <2>3. MaxMoves \in Nat
    BY PortsAssumption
  <2>4. QED BY <2>1, <2>2, <2>3
<1>2. CASE stream.kind \in {"none", kind} /\ inTurn
  <2>1. stream' = [stream EXCEPT !.kind = kind, !.data = Append(stream.data, b),
                                 !.moves = stream.moves + 1]
    BY <1>2 DEF Extend
  <2>2. Append(stream.data, b) \in Seq(Byte) /\ Len(Append(stream.data, b)) <= stream.moves + 1
    BY PortsAssumption DEF StreamOK
  <2>3. QED BY <1>1, <2>1, <2>2 DEF StreamOK
<1>3. CASE ~(stream.kind \in {"none", kind} /\ inTurn)
  <2>1. stream' = [stream EXCEPT !.kind = "mixed", !.data = <<>>, !.moves = stream.moves + 1]
    BY <1>3 DEF Extend
  <2>2. stream'.data = <<>> /\ stream'.moves = stream.moves + 1
    BY <2>1 DEF StreamOK
  <2>3. Len(stream'.data) <= stream'.moves
    BY <1>1, <2>2, NoBytes, PortsAssumption
  <2>4. QED BY <1>1, <2>1, <2>3, NoBytes DEF StreamOK
<1>4. QED BY <1>2, <1>3

LEMMA VramWord == ASSUME VramOK, NEW addr \in Word PROVE VramAt(addr) \in Halves
<1>1. \A half \in 0..1 : VramIndex(addr, half) \in Word
  <2>1. \A half \in 0..1 : addr * 2 + half \in Nat
    BY Sizes1 DEF Word
  <2>2. QED BY <2>1, WordsWrap DEF VramIndex
<1>2. QED BY <1>1 DEF VramOK, VramAt, Halves

LEMMA VramKeeps ==
  ASSUME TypeOK, VramAccess PROVE VramOK' /\ StreamOK'
<1> USE DEF TypeOK
<1>1. /\ vp.addr \in Word /\ vp.addr \in Nat /\ vp.step \in 0..3 /\ Steps[vp.step] \in Nat
      /\ vp.prefetch.lo \in Byte /\ vp.prefetch.hi \in Byte
  BY Sizes1, PortsAssumption DEF VramOK, Halves, Word
<1>2. ASSUME NEW mode \in Modes, StoreVmain(mode[1], mode[2]) PROVE VramOK' /\ StreamOK'
  <2>1. mode[1] \in BOOLEAN /\ mode[2] \in 0..3
    BY PortsAssumption
  <2>2. QED BY <1>1, <1>2, <2>1, RestartKeeps DEF StoreVmain, VramOK
<1>3. ASSUME NEW port \in {"low", "high"}, LoadVram(port) PROVE VramOK' /\ StreamOK'
  <2>1. VramAt(vp.addr) \in Halves
    BY <1>1, VramWord
  <2>2. (vp.addr + VramLoadInc(vp)) % (Radix * Radix) \in Word
    <3>1. vp.addr + VramLoadInc(vp) \in Nat
      BY <1>1 DEF VramLoadInc
    <3>2. QED BY <3>1, WordsWrap
  <2>3. VramOK'
    BY <1>3, <2>1, <2>2 DEF LoadVram, VramOK
  <2>4. StreamOK'
    BY <1>1, <1>3, ExtendKeeps DEF LoadVram
  <2>5. QED BY <2>3, <2>4
<1>4. ASSUME NEW port \in {"low", "high"}, NEW b \in Values, StoreVmadd(port, b)
      PROVE  VramOK' /\ StreamOK'
  <2>1. b * Radix + Lo(vp.addr) \in Word /\ Hi(vp.addr) * Radix + b \in Word
    BY <1>1, StoredIsByte, WordHalves
  <2>2. PICK addr \in Word : vp' = [vp EXCEPT !.addr = addr] /\ Restart(addr) /\ vram' = vram
    BY <1>4, <2>1 DEF StoreVmadd
  <2>3. addr \in Nat
    BY Sizes1 DEF Word
  <2>4. QED BY <2>2, <2>3, RestartKeeps DEF VramOK
<1>5. ASSUME NEW port \in {"low", "high"}, NEW b \in Values, StoreVram(port, b)
      PROVE  VramOK' /\ StreamOK'
  <2>1. (vp.addr + VramInc(vp, port)) % (Radix * Radix) \in Word
    <3>1. vp.addr + VramInc(vp, port) \in Nat
      BY <1>1 DEF VramInc
    <3>2. QED BY <3>1, WordsWrap
  <2>2. b \in Byte
    BY StoredIsByte
  <2>3. VramOK'
    BY <1>5, <2>1, <2>2 DEF StoreVram, VramOK
  <2>4. StreamOK'
    BY <1>5, <2>2, ExtendKeeps DEF StoreVram
  <2>5. QED BY <2>3, <2>4
<1>6. QED BY <1>2, <1>3, <1>4, <1>5 DEF VramAccess

LEMMA OamSizes ==
  /\ LowTable \in Nat \ {0} /\ HighTable \in Nat \ {0} /\ OamBits = 2 * LowTable
  /\ LowTable = Radix * 2
BY PortsAssumption DEF OamBits

LEMMA OamKeeps ==
  ASSUME TypeOK, OamAccess PROVE OamOK' /\ StreamOK'
<1> USE DEF TypeOK
<1>1. op.addr \in 0..(OamBits - 1) /\ op.addl \in Byte /\ op.addh \in Byte /\ op.lsb \in Byte
  BY DEF OamOK
<1>2. op.addr \in Nat /\ (op.addr + 1) % OamBits \in 0..(OamBits - 1)
  <2>1. OamBits \in Nat \ {0}
    BY OamSizes
  <2>2. op.addr + 1 \in Nat /\ op.addr \in Nat
    BY <1>1, <2>1
  <2>3. QED BY <2>1, <2>2, Division
<1>3. OamIndex(op.addr) \in 0..(LowTable + HighTable - 1)
  <2>1. op.addr % HighTable \in 0..(HighTable - 1)
    BY <1>2, OamSizes, Division
  <2>2. QED BY <1>2, <2>1, OamSizes DEF OamIndex
<1>4. \A l, h \in Byte : OamReload(l, h) \in 0..(OamBits - 1) /\ OamReload(l, h) \in Nat
  <2> TAKE l, h \in Byte
  <2>1. h % 2 \in 0..1
    BY Sizes1 DEF Byte
  <2>2. (h % 2) * Radix + l \in 0..(2 * Radix - 1)
    BY <2>1, Sizes1, Join DEF Byte
  <2>3. QED BY <2>2, OamSizes, Sizes1 DEF OamReload
<1>5. CASE LoadOam
  <2>1. oam[OamIndex(op.addr)] \in Byte
    BY <1>3 DEF OamOK
  <2>2. QED BY <1>2, <1>5, <2>1, ExtendKeeps DEF LoadOam, OamOK
<1>6. ASSUME NEW b \in Byte, StoreOam(b) PROVE OamOK' /\ StreamOK'
  <2>1. KeepLsb(b) \in Byte
    BY <1>1 DEF KeepLsb
  <2>2. op' = [op EXCEPT !.lsb = KeepLsb(b), !.addr = (op.addr + 1) % OamBits]
    BY <1>6 DEF StoreOam
  <2>3. oam' \in [0..(LowTable + HighTable - 1) -> Byte]
    BY <1>3, <1>6, <2>1 DEF StoreOam, OamOK
  <2>4. StreamOK'
    BY <1>6, ExtendKeeps DEF StoreOam
  <2>5. QED BY <1>2, <2>1, <2>2, <2>3, <2>4 DEF OamOK
<1>7. ASSUME NEW l \in Byte, NEW h \in Byte, StoreOamadd(l, h) PROVE OamOK' /\ StreamOK'
  BY <1>4, <1>7, RestartKeeps DEF StoreOamadd, OamOK
<1>8. QED BY <1>1, <1>5, <1>6, <1>7, StoredIsByte DEF OamAccess

LEMMA CgramKeeps ==
  ASSUME TypeOK, CgramAccess PROVE CgramOK' /\ StreamOK'
<1> USE DEF TypeOK
<1>1. ASSUME NEW b \in Byte, StoreCgadd(b) PROVE CgramOK' /\ StreamOK'
  <2>1. b \in Nat
    BY Sizes1 DEF Byte
  <2>2. QED BY <1>1, <2>1, RestartKeeps DEF StoreCgadd, CgramOK
<1>2. ASSUME NEW b \in Byte, StoreCgram(b) PROVE CgramOK' /\ StreamOK'
  <2>1. (cp.add + 1) % Radix \in Byte
    <3>1. cp.add + 1 \in Nat
      BY Sizes1 DEF CgramOK, Byte
    <3>2. QED BY <3>1, Sizes1, Division DEF Byte
  <2>2. cp' \in [add : Byte, low : Byte \cup {NONE}]
    BY <1>2, <2>1 DEF StoreCgram, CgramOK
  <2>3. cgram' \in [0..(2 * Radix - 1) -> Byte]
    BY <1>2 DEF StoreCgram, CgramOK
  <2>4. StreamOK'
    BY <1>2, ExtendKeeps DEF StoreCgram
  <2>5. QED BY <2>2, <2>3, <2>4 DEF CgramOK
<1>3. QED BY <1>1, <1>2, StoredIsByte DEF CgramAccess

LEMMA WramKeeps ==
  ASSUME TypeOK, WramAccess PROVE WramOK' /\ StreamOK'
<1> USE DEF TypeOK
<1>1. wmadd \in 0..(WramSize - 1) /\ wmadd \in Nat /\ wram[wmadd] \in Byte
  BY Sizes1 DEF WramOK
<1>2. NextWmadd \in 0..(WramSize - 1)
  BY <1>1, Sizes1, Division DEF NextWmadd
<1>3. CASE LoadWram
  BY <1>1, <1>2, <1>3, ExtendKeeps DEF LoadWram, WramOK
<1>4. ASSUME NEW b \in Byte, StoreWram(b) PROVE WramOK' /\ StreamOK'
  BY <1>1, <1>2, <1>4, ExtendKeeps DEF StoreWram, WramOK
<1>5. ASSUME NEW b \in Byte, NEW reg \in {"l", "m", "h"}, StoreWmadd(reg, b)
      PROVE  WramOK' /\ StreamOK'
  <2> DEFINE square == Radix * Radix
  <2>1. (wmadd \div Radix) * Radix + b \in 0..(WramSize - 1)
    <3>1. wmadd \div Radix \in 0..(WramPages * Radix - 1)
      BY <1>1, Sizes1, Split
    <3>2. QED BY <3>1, Sizes1, Join DEF Byte
  <2>2. (wmadd \div square) * square + (b * Radix + Lo(wmadd)) \in 0..(WramSize - 1)
    <3>1. wmadd \div square \in 0..(WramPages - 1)
      <4>1. square \in Nat \ {0} /\ wmadd \in 0..(WramPages * square - 1) /\ WramPages \in Nat \ {0}
        BY <1>1, Sizes1
      <4> HIDE DEF square
      <4>2. QED BY <4>1, Split
    <3>2. Lo(wmadd) \in Byte
      BY <1>1, Sizes1, Division DEF Lo, Byte
    <3>3. b * Radix + Lo(wmadd) \in 0..(square - 1)
      BY <3>2, WordHalves DEF Word
    <3>4. QED BY <3>1, <3>3, Sizes1, Join
  <2>3. (b % WramPages) * square + (wmadd % square) \in 0..(WramSize - 1)
    <3>1. b % WramPages \in 0..(WramPages - 1)
      BY Sizes1, Division DEF Byte
    <3>2. wmadd % square \in 0..(square - 1)
      BY <1>1, Sizes1, Division
    <3>3. QED BY <3>1, <3>2, Sizes1, Join
  <2>4. wmadd' \in 0..(WramSize - 1)
    <3>1. CASE reg = "l"
      BY <1>5, <2>1, <3>1 DEF StoreWmadd
    <3>2. CASE reg = "m"
      <4>1. wmadd' = (wmadd \div square) * Radix * Radix + b * Radix + Lo(wmadd)
        BY <1>5, <3>2 DEF StoreWmadd
      <4>2. wmadd \div square \in Nat /\ b \in Nat /\ Lo(wmadd) \in Nat
        <5>1. square \in Nat \ {0} /\ b \in Nat
          BY Sizes1 DEF Byte
        <5>2. Lo(wmadd) \in 0..(Radix - 1)
          BY <1>1, Sizes1, Division DEF Lo
        <5> HIDE DEF square
        <5>3. wmadd \div square \in Nat
          BY <1>1, <5>1, Division
        <5>4. QED BY <5>1, <5>2, <5>3, Sizes1
      <4>3. \A q, r, b1, l1 \in Nat : q * r * r + b1 * r + l1 = q * (r * r) + (b1 * r + l1)
        OBVIOUS
      <4>4. QED BY <2>2, <4>1, <4>2, <4>3, Sizes1
    <3>3. CASE reg = "h"
      <4>1. wmadd' = (b % WramPages) * Radix * Radix + (wmadd % square)
        BY <1>5, <3>3 DEF StoreWmadd
      <4>2. b % WramPages \in Nat /\ wmadd % square \in Nat
        <5>1. square \in Nat \ {0} /\ b \in Nat
          BY Sizes1 DEF Byte
        <5>2. b % WramPages \in 0..(WramPages - 1)
          BY <5>1, Sizes1, Division
        <5> HIDE DEF square
        <5>3. wmadd % square \in 0..(square - 1)
          BY <1>1, <5>1, Division
        <5>4. QED BY <5>1, <5>2, <5>3, Sizes1
      <4>3. \A q, r, l1 \in Nat : q * r * r + l1 = q * (r * r) + l1
        OBVIOUS
      <4>4. QED BY <2>3, <4>1, <4>2, <4>3, Sizes1
    <3>4. QED BY <3>1, <3>2, <3>3
  <2>5. Restart(wmadd') /\ wram' = wram /\ wmadd' \in Nat
    BY <1>5, <2>4, Sizes1 DEF StoreWmadd
  <2>6. QED BY <2>4, <2>5, RestartKeeps DEF WramOK
<1>6. QED BY <1>3, <1>4, <1>5, StoredIsByte DEF WramAccess

-----------------------------------------------------------------------------
(* Registers written twice.                                                *)

RegOf(s) == IF s \in BgRegs THEN ofs[s] ELSE m7[s]
OldOf(s) == IF s \in BgRegs THEN bg_old ELSE m7_old

\* The byte a register was given last is its high byte, and the byte its
\* group was given last.
HalfInv ==
  \A s \in AllRegs : whole[s].half # NONE => whole[s].half = OldOf(s) /\ RegOf(s).hi = whole[s].half

LEMMA NoneIsNoByte == NONE \notin Byte
BY DEF NONE, Byte

LEMMA HorizontalType ==
  ASSUME TwiceOK, NEW b \in Byte PROVE Horizontal(ofs["h"], b) \in Halves
<1> DEFINE q == bg_old \div Fine
           k == Radix \div Fine
           h == ofs["h"].hi
<1>1. Fine \in Nat \ {0} /\ bg_old \in Nat /\ h \in Nat /\ bg_old < Radix /\ Radix \in Nat
  BY PortsAssumption DEF TwiceOK, Halves, Byte, BgRegs
<1>2. Radix = k * Fine /\ k \in Nat \ {0}
  <2>1. k \in Nat /\ Radix = Fine * k + (Radix % Fine) /\ Radix % Fine = 0
    BY <1>1, Division, PortsAssumption
  <2> HIDE DEF k
  <2>2. Radix = k * Fine
    BY <1>1, <2>1
  <2>3. k # 0
    <3>1. k = 0 => k * Fine = 0
      BY <1>1
    <3>2. QED BY <2>2, <3>1, Sizes1
  <2>4. QED BY <2>1, <2>2, <2>3
<1>3. bg_old - (bg_old % Fine) = q * Fine
  <2>1. q \in Nat /\ bg_old % Fine \in Nat /\ bg_old = Fine * q + (bg_old % Fine)
    BY <1>1, Division
  <2> HIDE DEF q
  <2>2. Fine * q = q * Fine /\ q * Fine \in Nat
    BY <1>1, <2>1
  <2>3. QED BY <2>1, <2>2
<1>4. q \in 0..(k - 1)
  <2> HIDE DEF k
  <2>1. bg_old \in 0..(k * Fine - 1)
    BY <1>1, <1>2
  <2>2. QED BY <1>1, <1>2, <2>1, Split
<1>5. h % Fine \in 0..(Fine - 1)
  BY <1>1, Division
<1>6. q * Fine + (h % Fine) \in 0..(Radix - 1)
  <2> HIDE DEF q, k
  <2>1. q * Fine + (h % Fine) \in 0..(k * Fine - 1)
    BY <1>1, <1>2, <1>4, <1>5, Join
  <2>2. QED BY <1>2, <2>1
<1>7. Horizontal(ofs["h"], b) = [hi |-> b, lo |-> q * Fine + (h % Fine)]
  BY <1>3 DEF Horizontal
<1>8. QED BY <1>6, <1>7 DEF Halves, Byte

\* A byte stored as the byte before it was leaves that as the low byte.
LEMMA HorizontalSame ==
  ASSUME TwiceOK, NEW b \in Byte, ofs["h"].hi = bg_old
  PROVE  Horizontal(ofs["h"], b) = [hi |-> b, lo |-> bg_old]
<1>1. Fine \in Nat \ {0} /\ bg_old \in Nat
  BY PortsAssumption DEF TwiceOK, Byte
<1>2. bg_old % Fine \in Nat
  BY <1>1, Division
<1>3. (bg_old - (bg_old % Fine)) + (bg_old % Fine) = bg_old
  BY <1>1, <1>2
<1>4. QED BY <1>3 DEF Horizontal

\* What a store to a scroll register leaves in it.
LEMMA OfsStored ==
  ASSUME TwiceOK, HalfInv, NEW r \in BgRegs, NEW b \in Byte,
         ofs' = [ofs EXCEPT ![r] = IF r = "h" THEN Horizontal(@, b) ELSE Vertical(b)]
  PROVE  /\ ofs' \in [BgRegs -> Halves]
         /\ ofs'[r].hi = b
         /\ \A s \in BgRegs \ {r} : ofs'[s] = ofs[s]
         /\ whole[r].half # NONE => ofs'[r] = [lo |-> whole[r].half, hi |-> b]
<1>1. CASE r = "h"
  <2>1. ofs' = [ofs EXCEPT !["h"] = Horizontal(ofs["h"], b)]
    BY <1>1
  <2>2. Horizontal(ofs["h"], b) \in Halves /\ Horizontal(ofs["h"], b).hi = b
    BY HorizontalType DEF Horizontal
  <2>3. whole["h"].half # NONE => whole["h"].half = bg_old /\ ofs["h"].hi = bg_old
    BY <1>1 DEF HalfInv, AllRegs, BgRegs, OldOf, RegOf
  <2>4. whole["h"].half # NONE => Horizontal(ofs["h"], b) = [lo |-> whole["h"].half, hi |-> b]
    BY <2>3, HorizontalSame
  <2>5. QED BY <1>1, <2>1, <2>2, <2>4 DEF TwiceOK
<1>2. CASE r # "h"
  <2>1. ofs' = [ofs EXCEPT ![r] = Vertical(b)]
    BY <1>2
  <2>2. Vertical(b) \in Halves /\ Vertical(b).hi = b
    BY DEF TwiceOK, Vertical, Halves
  <2>3. whole[r].half # NONE => Vertical(b) = [lo |-> whole[r].half, hi |-> b]
    BY DEF HalfInv, AllRegs, OldOf, Vertical
  <2>4. QED BY <2>1, <2>2, <2>3 DEF TwiceOK
<1>3. QED BY <1>1, <1>2

LEMMA M7Stored ==
  ASSUME TwiceOK, HalfInv, NEW r \in M7Regs, NEW b \in Byte,
         m7' = [m7 EXCEPT ![r] = [hi |-> b, lo |-> m7_old]]
  PROVE  /\ m7' \in [M7Regs -> Halves]
         /\ m7'[r].hi = b
         /\ \A s \in M7Regs \ {r} : m7'[s] = m7[s]
         /\ whole[r].half # NONE => m7'[r] = [lo |-> whole[r].half, hi |-> b]
<1>1. [hi |-> b, lo |-> m7_old] \in Halves
  BY DEF TwiceOK, Halves
<1>2. whole[r].half # NONE => whole[r].half = m7_old
  BY DEF HalfInv, AllRegs, OldOf, BgRegs, M7Regs
<1>3. QED BY <1>1, <1>2 DEF TwiceOK

LEMMA WholeAfterType ==
  ASSUME TwiceOK, NEW stored, NEW b \in Byte PROVE WholeAfter(stored, b) \in [AllRegs -> WholeType]
<1> SUFFICES ASSUME NEW s \in AllRegs PROVE WholeAfter(stored, b)[s] \in WholeType
  BY DEF WholeAfter
<1>1. whole[s] \in WholeType /\ whole[s].half \in Byte \cup {NONE}
  BY DEF TwiceOK, WholeType
<1>2. [half |-> b, ok |-> whole[s].half # NONE, word |-> [lo |-> whole[s].half, hi |-> b]] \in WholeType
  BY <1>1 DEF WholeType
<1>3. [whole[s] EXCEPT !.half = NONE] \in WholeType
  BY <1>1 DEF WholeType
<1>4. QED BY <1>1, <1>2, <1>3 DEF WholeAfter

\* A store of b that leaves a register of each group in stored with b on top
\* keeps what is promised of all of them.
LEMMA StoredWhole ==
  ASSUME TwiceOK, HalfInv, WrittenTwiceWhole, NEW stored \in SUBSET AllRegs, NEW b \in Byte,
         whole' = WholeAfter(stored, b),
         \A s \in AllRegs \ stored : RegOf(s)' = RegOf(s),
         \A s \in stored : /\ RegOf(s)'.hi = b /\ OldOf(s)' = b
                           /\ whole[s].half # NONE => RegOf(s)' = [lo |-> whole[s].half, hi |-> b],
         \A s \in AllRegs : (\A r \in stored : (r \in BgRegs) # (s \in BgRegs)) => OldOf(s)' = OldOf(s)
  PROVE  HalfInv' /\ WrittenTwiceWhole'
<1>1. ASSUME NEW s \in AllRegs
      PROVE  /\ whole'[s].half # NONE => whole'[s].half = OldOf(s)' /\ RegOf(s)'.hi = whole'[s].half
             /\ whole'[s].ok => whole'[s].word = RegOf(s)'
  <2>1. whole[s] \in WholeType
    BY DEF TwiceOK
  <2>2. CASE s \in stored
    <3> DEFINE ok == whole[s].half # NONE
    <3>1. whole'[s] = [half |-> b, ok |-> ok, word |-> [lo |-> whole[s].half, hi |-> b]]
      BY <2>2 DEF WholeAfter
    <3>2. ok => [lo |-> whole[s].half, hi |-> b] = RegOf(s)'
      BY <2>2
    <3> HIDE DEF ok
    <3>3. whole'[s].half = b /\ whole'[s].ok = ok /\ whole'[s].word = [lo |-> whole[s].half, hi |-> b]
      BY <3>1
    <3>4. QED BY <2>2, <3>2, <3>3
  <2>3. CASE s \notin stored /\ \E r \in stored : (r \in BgRegs) = (s \in BgRegs)
    <3>1. whole'[s] = [whole[s] EXCEPT !.half = NONE]
      BY <2>3 DEF WholeAfter
    <3>2. whole'[s].half = NONE /\ whole'[s].ok = whole[s].ok /\ whole'[s].word = whole[s].word
      BY <2>1, <3>1 DEF WholeType
    <3>3. QED BY <2>3, <3>2 DEF WrittenTwiceWhole, RegOf
  <2>4. CASE s \notin stored /\ ~\E r \in stored : (r \in BgRegs) = (s \in BgRegs)
    <3>1. whole'[s] = whole[s]
      BY <2>4 DEF WholeAfter
    <3>2. OldOf(s)' = OldOf(s) /\ RegOf(s)' = RegOf(s)
      BY <2>4
    <3>3. QED BY <3>1, <3>2 DEF HalfInv, WrittenTwiceWhole, RegOf
  <2>5. QED BY <2>2, <2>3, <2>4
<1>2. QED BY <1>1 DEF HalfInv, WrittenTwiceWhole, RegOf

LEMMA TwiceKeeps ==
  ASSUME TypeOK, HalfInv, WrittenTwiceWhole, TwiceAccess
  PROVE  TwiceOK' /\ HalfInv' /\ WrittenTwiceWhole'
<1> USE DEF TypeOK
<1>1. ASSUME NEW r \in BgRegs, NEW b \in Byte, StoreBgofs(r, b)
      PROVE  TwiceOK' /\ HalfInv' /\ WrittenTwiceWhole'
  <2>1. /\ ofs' = [ofs EXCEPT ![r] = IF r = "h" THEN Horizontal(@, b) ELSE Vertical(b)]
        /\ bg_old' = b /\ whole' = WholeAfter({r}, b) /\ m7' = m7 /\ m7_old' = m7_old
    BY <1>1 DEF StoreBgofs
  <2>2. /\ ofs' \in [BgRegs -> Halves] /\ ofs'[r].hi = b
        /\ \A s \in BgRegs \ {r} : ofs'[s] = ofs[s]
        /\ whole[r].half # NONE => ofs'[r] = [lo |-> whole[r].half, hi |-> b]
    BY <2>1, OfsStored
  <2>3. TwiceOK'
    BY <2>1, <2>2, WholeAfterType DEF TwiceOK
  <2>4. {r} \in SUBSET AllRegs /\ \A s \in AllRegs : s \in BgRegs \/ s \in M7Regs
    BY DEF AllRegs
  <2>5. \A s \in AllRegs \ {r} : RegOf(s)' = RegOf(s)
    BY <2>1, <2>2, <2>4 DEF RegOf
  <2>6. QED BY <2>1, <2>2, <2>3, <2>4, <2>5, StoredWhole DEF RegOf, OldOf
<1>2. ASSUME NEW r \in M7Regs, NEW b \in Byte, StoreM7(r, b)
      PROVE  TwiceOK' /\ HalfInv' /\ WrittenTwiceWhole'
  <2>1. /\ m7' = [m7 EXCEPT ![r] = [hi |-> b, lo |-> m7_old]]
        /\ m7_old' = b /\ whole' = WholeAfter({r}, b) /\ ofs' = ofs /\ bg_old' = bg_old
    BY <1>2 DEF StoreM7
  <2>2. /\ m7' \in [M7Regs -> Halves] /\ m7'[r].hi = b
        /\ \A s \in M7Regs \ {r} : m7'[s] = m7[s]
        /\ whole[r].half # NONE => m7'[r] = [lo |-> whole[r].half, hi |-> b]
    BY <2>1, M7Stored
  <2>3. TwiceOK'
    BY <2>1, <2>2, WholeAfterType DEF TwiceOK
  <2>4. {r} \in SUBSET AllRegs /\ r \notin BgRegs /\ \A s \in AllRegs : s \in BgRegs \/ s \in M7Regs
    BY DEF AllRegs, BgRegs, M7Regs
  <2>5. \A s \in AllRegs \ {r} : RegOf(s)' = RegOf(s)
    BY <2>1, <2>2, <2>4 DEF RegOf
  <2>6. QED BY <2>1, <2>2, <2>3, <2>4, <2>5, StoredWhole DEF RegOf, OldOf
<1>3. ASSUME NEW r \in BgRegs, NEW b \in Byte, StoreBg1ofs(r, b)
      PROVE  TwiceOK' /\ HalfInv' /\ WrittenTwiceWhole'
  <2> DEFINE m == IF r = "h" THEN "m7hofs" ELSE "m7vofs"
  <2>1. /\ ofs' = [ofs EXCEPT ![r] = IF r = "h" THEN Horizontal(@, b) ELSE Vertical(b)]
        /\ m7' = [m7 EXCEPT ![m] = [hi |-> b, lo |-> m7_old]]
        /\ bg_old' = b /\ m7_old' = b /\ whole' = WholeAfter({r, m}, b)
    BY <1>3 DEF StoreBg1ofs
  <2>m. m \in M7Regs /\ m \notin BgRegs
    BY DEF M7Regs, BgRegs
  <2> HIDE DEF m
  <2>2. /\ ofs' \in [BgRegs -> Halves] /\ ofs'[r].hi = b
        /\ \A s \in BgRegs \ {r} : ofs'[s] = ofs[s]
        /\ whole[r].half # NONE => ofs'[r] = [lo |-> whole[r].half, hi |-> b]
    BY <2>1, OfsStored
  <2>3. /\ m7' \in [M7Regs -> Halves] /\ m7'[m].hi = b
        /\ \A s \in M7Regs \ {m} : m7'[s] = m7[s]
        /\ whole[m].half # NONE => m7'[m] = [lo |-> whole[m].half, hi |-> b]
    BY <2>1, <2>m, M7Stored
  <2>4. TwiceOK'
    BY <2>1, <2>2, <2>3, WholeAfterType DEF TwiceOK
  <2>5. {r, m} \in SUBSET AllRegs /\ \A s \in AllRegs : s \in BgRegs \/ s \in M7Regs
    BY <2>m DEF AllRegs
  <2>6. \A s \in AllRegs \ {r, m} : RegOf(s)' = RegOf(s)
    BY <2>2, <2>3, <2>5 DEF RegOf
  <2>7. \A s \in {r, m} : /\ RegOf(s)'.hi = b /\ OldOf(s)' = b
                          /\ whole[s].half # NONE => RegOf(s)' = [lo |-> whole[s].half, hi |-> b]
    BY <2>1, <2>2, <2>3, <2>m DEF RegOf, OldOf
  <2>8. \A s \in AllRegs : \E q \in {r, m} : (q \in BgRegs) = (s \in BgRegs)
    BY <2>m
  <2>9. QED BY <2>1, <2>4, <2>5, <2>6, <2>7, <2>8, StoredWhole
<1>4. "m7a" \in M7Regs
  BY DEF M7Regs
<1>5. QED BY <1>1, <1>2, <1>3, <1>4, StoredIsByte DEF TwiceAccess

-----------------------------------------------------------------------------
(* Position counters.                                                      *)

Latched(c) == IF c = "h" THEN cnt.ophct ELSE cnt.opvct
Flag(c) == IF c = "h" THEN cnt.hHigh ELSE cnt.vHigh

\* What has been read since the flip-flop was reset, unless the counters were
\* latched between the bytes.
SeenInv ==
  \A c \in {"h", "v"} :
    /\ seen[c].torn => seen[c].bytes = <<>>
    /\ ~seen[c].torn =>
         /\ Len(seen[c].bytes) \in 0..2
         /\ Flag(c) <=> Len(seen[c].bytes) = 1
         /\ Len(seen[c].bytes) >= 1 => seen[c].bytes[1] = Lo(Latched(c))
         /\ Len(seen[c].bytes) = 2 => seen[c].bytes[2] = Hi(Latched(c))

LEMMA LatchedHalves ==
  ASSUME CountersOK, NEW c \in {"h", "v"}
  PROVE  /\ Lo(Latched(c)) \in Byte /\ Hi(Latched(c)) \in Byte
         /\ Lo(Latched(c)) + Radix * Hi(Latched(c)) = Latched(c)
<1>1. Latched(c) \in Word
  BY PortsAssumption, Sizes1, SMTT(30) DEF CountersOK, Latched, Word
<1>2. Latched(c) \in Nat
  BY <1>1, Sizes1 DEF Word
<1> DEFINE n == Latched(c)
<1>3. n % Radix \in Nat /\ n \div Radix \in Nat /\ n = Radix * (n \div Radix) + (n % Radix)
  <2> HIDE DEF n
  <2>1. n % Radix \in 0..(Radix - 1) /\ n \div Radix \in Nat
        /\ n = Radix * (n \div Radix) + (n % Radix)
    BY <1>2, Sizes1, Division DEF n
  <2>2. QED BY <2>1, Sizes1
<1>4. Lo(Latched(c)) + Radix * Hi(Latched(c)) = Latched(c)
  BY <1>3, Sizes1 DEF Lo, Hi
<1>5. QED BY <1>1, <1>4, WordHalves

\* Reading a byte of one counter.
LEMMA SeeKeeps ==
  ASSUME CountersOK, SeenInv, NEW c \in {"h", "v"},
         See(c, IF Flag(c) THEN Hi(Latched(c)) ELSE Lo(Latched(c))),
         Flag(c)' <=> ~Flag(c), \A d \in {"h", "v"} : Latched(d)' = Latched(d),
         \A d \in {"h", "v"} \ {c} : Flag(d)' <=> Flag(d)
  PROVE  SeenInv' /\ seen' \in [{"h", "v"} -> [torn : BOOLEAN, bytes : Seq(Byte)]]
<1> DEFINE b == IF Flag(c) THEN Hi(Latched(c)) ELSE Lo(Latched(c))
           bytes == IF seen[c].torn THEN seen[c].bytes
                    ELSE IF Len(seen[c].bytes) = 2 THEN <<b>> ELSE Append(seen[c].bytes, b)
<1>1. b \in Byte
  BY LatchedHalves
<1>2. seen' = [seen EXCEPT ![c].bytes = bytes]
  BY DEF See
<1>3. seen[c].bytes \in Seq(Byte) /\ bytes \in Seq(Byte)
  BY <1>1 DEF CountersOK
<1> HIDE DEF bytes
<1>4. /\ seen' \in [{"h", "v"} -> [torn : BOOLEAN, bytes : Seq(Byte)]]
      /\ seen'[c].torn = seen[c].torn /\ seen'[c].bytes = bytes
      /\ \A d \in {"h", "v"} \ {c} : seen'[d] = seen[d]
  BY <1>2, <1>3 DEF CountersOK
<1>5. /\ seen[c].torn => bytes = <<>>
      /\ ~seen[c].torn =>
           /\ Len(bytes) \in 0..2
           /\ ~Flag(c) <=> Len(bytes) = 1
           /\ Len(bytes) >= 1 => bytes[1] = Lo(Latched(c))
           /\ Len(bytes) = 2 => bytes[2] = Hi(Latched(c))
  <2>1. CASE seen[c].torn
    BY <2>1 DEF SeenInv, bytes
  <2>2. CASE ~seen[c].torn /\ Len(seen[c].bytes) = 2
    <3>1. ~Flag(c) /\ bytes = <<Lo(Latched(c))>>
      BY <2>2 DEF SeenInv, bytes
    <3>2. QED BY <2>2, <3>1
  <2>3. CASE ~seen[c].torn /\ Len(seen[c].bytes) = 1
    <3>1. Flag(c) /\ bytes = Append(seen[c].bytes, Hi(Latched(c))) /\ seen[c].bytes[1] = Lo(Latched(c))
      BY <2>3 DEF SeenInv, bytes
    <3>2. Len(bytes) = 2 /\ bytes[1] = Lo(Latched(c)) /\ bytes[2] = Hi(Latched(c))
      BY <1>3, <2>3, <3>1
    <3>3. QED BY <2>3, <3>1, <3>2
  <2>4. CASE ~seen[c].torn /\ Len(seen[c].bytes) = 0
    <3>1. ~Flag(c) /\ bytes = Append(seen[c].bytes, Lo(Latched(c)))
      BY <2>4 DEF SeenInv, bytes
    <3>2. Len(bytes) = 1 /\ bytes[1] = Lo(Latched(c))
      BY <1>3, <2>4, <3>1
    <3>3. QED BY <2>4, <3>1, <3>2
  <2>5. QED BY <2>1, <2>2, <2>3, <2>4 DEF SeenInv
<1>6. ASSUME NEW d \in {"h", "v"}
      PROVE  /\ seen'[d].torn => seen'[d].bytes = <<>>
             /\ ~seen'[d].torn =>
                  /\ Len(seen'[d].bytes) \in 0..2
                  /\ Flag(d)' <=> Len(seen'[d].bytes) = 1
                  /\ Len(seen'[d].bytes) >= 1 => seen'[d].bytes[1] = Lo(Latched(d)')
                  /\ Len(seen'[d].bytes) = 2 => seen'[d].bytes[2] = Hi(Latched(d)')
  <2>1. CASE d = c
    BY <1>4, <1>5, <2>1
  <2>2. CASE d # c
    BY <1>4, <2>2 DEF SeenInv
  <2>3. QED BY <2>1, <2>2
<1>7. QED BY <1>4, <1>6 DEF SeenInv, Lo, Hi

LEMMA LoadCounterKeeps ==
  ASSUME CountersOK, SeenInv, LoadOphct \/ LoadOpvct PROVE CountersOK' /\ SeenInv'
<1>1. CASE LoadOphct
  <2>1. /\ See("h", IF Flag("h") THEN Hi(Latched("h")) ELSE Lo(Latched("h")))
        /\ cnt' = [cnt EXCEPT !.hHigh = ~cnt.hHigh]
    BY <1>1 DEF LoadOphct, Flag, Latched
  <2>2. cnt.hHigh \in BOOLEAN
    BY DEF CountersOK
  <2>3. /\ cnt' \in [x : 0..(Dots - 1), line : 0..(Lines - 1), can : BOOLEAN, ophct : 0..(Dots - 1),
                     opvct : 0..(Lines - 1), hHigh : BOOLEAN, vHigh : BOOLEAN, ext : BOOLEAN]
        /\ cnt'.hHigh <=> ~cnt.hHigh
        /\ cnt'.vHigh <=> cnt.vHigh
        /\ cnt'.ophct = cnt.ophct /\ cnt'.opvct = cnt.opvct
    BY <2>1, <2>2 DEF CountersOK
  <2>4. QED BY <2>1, <2>3, SeeKeeps DEF CountersOK, Flag, Latched
<1>2. CASE LoadOpvct
  <2>1. /\ See("v", IF Flag("v") THEN Hi(Latched("v")) ELSE Lo(Latched("v")))
        /\ cnt' = [cnt EXCEPT !.vHigh = ~cnt.vHigh]
    BY <1>2 DEF LoadOpvct, Flag, Latched
  <2>2. cnt.vHigh \in BOOLEAN
    BY DEF CountersOK
  <2>3. /\ cnt' \in [x : 0..(Dots - 1), line : 0..(Lines - 1), can : BOOLEAN, ophct : 0..(Dots - 1),
                     opvct : 0..(Lines - 1), hHigh : BOOLEAN, vHigh : BOOLEAN, ext : BOOLEAN]
        /\ cnt'.vHigh <=> ~cnt.vHigh
        /\ cnt'.hHigh <=> cnt.hHigh
        /\ cnt'.ophct = cnt.ophct /\ cnt'.opvct = cnt.opvct
    BY <2>1, <2>2 DEF CountersOK
  <2>4. QED BY <2>1, <2>3, SeeKeeps DEF CountersOK, Flag, Latched
<1>3. QED BY <1>1, <1>2

LEMMA LatchKeeps ==
  ASSUME CountersOK, SeenInv, LatchCounters PROVE CountersOK' /\ SeenInv'
<1>1. CASE cnt.can
  <2>1. /\ cnt' = [cnt EXCEPT !.ophct = cnt.x, !.opvct = cnt.line, !.ext = TRUE]
        /\ seen' = [c \in DOMAIN seen |-> IF Len(seen[c].bytes) = 1 \/ seen[c].torn
                                         THEN [torn |-> TRUE, bytes |-> <<>>]
                                         ELSE [torn |-> FALSE, bytes |-> <<>>]]
    BY <1>1 DEF LatchCounters
  <2>2. DOMAIN seen = {"h", "v"}
    BY DEF CountersOK
  <2>3. CountersOK'
    BY <2>1, <2>2, NoBytes DEF CountersOK
  <2>4. cnt'.hHigh = cnt.hHigh /\ cnt'.vHigh = cnt.vHigh
    BY <2>1 DEF CountersOK
  <2>5. ASSUME NEW c \in {"h", "v"}
        PROVE  /\ seen'[c].torn => seen'[c].bytes = <<>>
               /\ ~seen'[c].torn =>
                    /\ Len(seen'[c].bytes) = 0
                    /\ Flag(c)' <=> Len(seen'[c].bytes) = 1
    <3>1. CASE Len(seen[c].bytes) = 1 \/ seen[c].torn
      BY <2>1, <2>2, <3>1
    <3>2. CASE ~(Len(seen[c].bytes) = 1 \/ seen[c].torn)
      <4>1. seen'[c] = [torn |-> FALSE, bytes |-> <<>>]
        BY <2>1, <2>2, <3>2
      <4>2. ~Flag(c) /\ (Flag(c)' <=> Flag(c))
        BY <2>4, <3>2 DEF SeenInv, Flag
      <4>3. QED BY <4>1, <4>2, NoBytes
    <3>3. QED BY <3>1, <3>2
  <2>6. QED BY <2>3, <2>5 DEF SeenInv
<1>2. CASE ~cnt.can
  <2>1. cnt' = cnt /\ seen' = seen
    BY <1>2 DEF LatchCounters
  <2>2. QED BY <2>1 DEF CountersOK, SeenInv, Flag, Latched
<1>3. QED BY <1>1, <1>2

LEMMA CountersKeep ==
  ASSUME CountersOK, SeenInv, CounterAccess \/ Advance PROVE CountersOK' /\ SeenInv'
<1>1. CASE LoadStat78
  <2>1. /\ cnt' = [cnt EXCEPT !.hHigh = FALSE, !.vHigh = FALSE]
        /\ seen' = [c \in DOMAIN seen |-> [torn |-> FALSE, bytes |-> <<>>]]
    BY <1>1 DEF LoadStat78
  <2>2. DOMAIN seen = {"h", "v"}
    BY DEF CountersOK
  <2>3. CountersOK'
    BY <2>1, <2>2, NoBytes DEF CountersOK
  <2>4. ~cnt'.hHigh /\ ~cnt'.vHigh
    BY <2>1 DEF CountersOK
  <2>5. \A c \in {"h", "v"} : ~seen'[c].torn /\ seen'[c].bytes = <<>> /\ ~Flag(c)'
    BY <2>1, <2>2, <2>4 DEF Flag
  <2>6. QED BY <2>3, <2>5, NoBytes DEF SeenInv
<1>2. ASSUME NEW can \in BOOLEAN, StoreWrio(can) PROVE CountersOK' /\ SeenInv'
  BY <1>2 DEF StoreWrio, CountersOK, SeenInv, Flag, Latched
<1>3. CASE Advance
  <2>1. /\ seen' = seen
        /\ cnt' = [cnt EXCEPT !.x = (cnt.x + 1) % Dots,
                              !.line = IF cnt.x + 1 = Dots THEN (cnt.line + 1) % Lines ELSE cnt.line]
    BY <1>3 DEF Advance, NextDot, NextLine
  <2>2. (cnt.x + 1) % Dots \in 0..(Dots - 1)
    <3>1. Dots \in Nat \ {0} /\ cnt.x \in 0..(Dots - 1)
      BY PortsAssumption, Sizes1 DEF CountersOK
    <3>2. cnt.x + 1 \in Nat
      BY <3>1
    <3>3. QED BY <3>1, <3>2, Division
  <2>3. (cnt.line + 1) % Lines \in 0..(Lines - 1)
    <3>1. Lines \in Nat \ {0} /\ cnt.line \in 0..(Lines - 1)
      BY PortsAssumption, Sizes1 DEF CountersOK
    <3>2. cnt.line + 1 \in Nat
      BY <3>1
    <3>3. QED BY <3>1, <3>2, Division
  <2>4. CountersOK'
    BY <2>1, <2>2, <2>3 DEF CountersOK
  <2>5. /\ cnt'.hHigh = cnt.hHigh /\ cnt'.vHigh = cnt.vHigh
        /\ cnt'.ophct = cnt.ophct /\ cnt'.opvct = cnt.opvct
    BY <2>1 DEF CountersOK
  <2>6. QED BY <2>1, <2>4, <2>5 DEF SeenInv, Flag, Latched
<1>4. QED BY <1>1, <1>2, <1>3, LatchKeeps, LoadCounterKeeps DEF CounterAccess

-----------------------------------------------------------------------------
(* The invariant.                                                          *)

IInv == TypeOK /\ HalfInv /\ WrittenTwiceWhole /\ SeenInv

LEMMA InitInv == Init => IInv
<1> SUFFICES ASSUME Init PROVE IInv
  OBVIOUS
<1>1. 0 \in Byte /\ 0 \in Word /\ Radix \in Nat /\ 0 \in 0..(WramSize - 1)
  BY Sizes1 DEF Byte, Word
<1>2. VramOK /\ CgramOK /\ WramOK
  BY <1>1 DEF Init, VramOK, CgramOK, WramOK, Halves
<1>3. OamOK
  BY <1>1, OamSizes DEF Init, OamOK
<1>4. TwiceOK
  BY <1>1 DEF Init, TwiceOK, Halves, WholeType
<1>5. CountersOK
  BY NoBytes, PortsAssumption, Sizes1 DEF Init, CountersOK
<1>6. StreamOK
  <2>1. stream.data = <<>> /\ stream.moves = 0
    BY DEF Init
  <2>2. stream \in [kind : {"none", "load", "store", "low", "high", "mixed"}, start : Nat,
                   data : Seq(Byte), sets : 0..MaxSets, moves : 0..MaxMoves]
    BY NoBytes, PortsAssumption DEF Init
  <2>3. QED BY <2>1, <2>2, NoBytes DEF StreamOK
<1>7. HalfInv /\ WrittenTwiceWhole
  BY DEF Init, HalfInv, WrittenTwiceWhole
<1>8. SeenInv
  <2>1. \A c \in {"h", "v"} : ~seen[c].torn /\ seen[c].bytes = <<>> /\ ~Flag(c)
    BY DEF Init, Flag
  <2>2. QED BY <2>1, NoBytes DEF SeenInv
<1>9. uses \in Groups
  BY DEF Init
<1>10. QED BY <1>2, <1>3, <1>4, <1>5, <1>6, <1>7, <1>8, <1>9 DEF IInv, TypeOK

\* An access through a group leaves the others alone.
LEMMA GroupsApart ==
  /\ VramAccess => UNCHANGED NotByVram
  /\ OamAccess => UNCHANGED NotByOam
  /\ CgramAccess => UNCHANGED NotByCgram
  /\ WramAccess => UNCHANGED NotByWram
  /\ TwiceAccess => UNCHANGED NotByTwice
  /\ CounterAccess \/ Advance => UNCHANGED NotByCounters
<1>1. VramAccess => UNCHANGED NotByVram
  BY DEF VramAccess, StoreVmain, StoreVmadd, StoreVram, LoadVram
<1>2. OamAccess => UNCHANGED NotByOam
  BY DEF OamAccess, StoreOamadd, StoreOam, LoadOam
<1>3. CgramAccess => UNCHANGED NotByCgram
  BY DEF CgramAccess, StoreCgadd, StoreCgram
<1>4. WramAccess => UNCHANGED NotByWram
  BY DEF WramAccess, StoreWmadd, StoreWram, LoadWram
<1>5. TwiceAccess => UNCHANGED NotByTwice
  BY DEF TwiceAccess, StoreBgofs, StoreM7, StoreBg1ofs
<1>6. CounterAccess \/ Advance => UNCHANGED NotByCounters
  BY DEF CounterAccess, Advance, StoreWrio, LatchCounters, LoadOphct, LoadOpvct, LoadStat78
<1>7. QED BY <1>1, <1>2, <1>3, <1>4, <1>5, <1>6

LEMMA SameOfGroup ==
  ASSUME IInv
  PROVE  /\ UNCHANGED vramVars => VramOK'
         /\ UNCHANGED oamVars => OamOK'
         /\ UNCHANGED cgramVars => CgramOK'
         /\ UNCHANGED wramVars => WramOK'
         /\ UNCHANGED twiceVars => TwiceOK' /\ HalfInv' /\ WrittenTwiceWhole'
         /\ UNCHANGED cntVars => CountersOK' /\ SeenInv'
         /\ UNCHANGED stream => StreamOK'
<1> USE DEF IInv, TypeOK
<1>1. UNCHANGED vramVars => VramOK'
  BY DEF vramVars, VramOK
<1>2. UNCHANGED oamVars => OamOK'
  BY DEF oamVars, OamOK
<1>3. UNCHANGED cgramVars => CgramOK'
  BY DEF cgramVars, CgramOK
<1>4. UNCHANGED wramVars => WramOK'
  BY DEF wramVars, WramOK
<1>5. UNCHANGED twiceVars => TwiceOK' /\ HalfInv' /\ WrittenTwiceWhole'
  BY DEF twiceVars, TwiceOK, HalfInv, WrittenTwiceWhole, RegOf, OldOf
<1>6. UNCHANGED cntVars => CountersOK' /\ SeenInv'
  BY DEF cntVars, CountersOK, SeenInv, Flag, Latched
<1>7. UNCHANGED stream => StreamOK'
  BY DEF StreamOK
<1>8. QED BY <1>1, <1>2, <1>3, <1>4, <1>5, <1>6, <1>7

LEMMA StepInv == IInv /\ [Next]_vars => IInv'
<1> SUFFICES ASSUME IInv, [Next]_vars PROVE IInv'
  OBVIOUS
<1>1. CASE VramAccess
  <2>1. VramOK' /\ StreamOK'
    BY <1>1, VramKeeps DEF IInv
  <2>2. UNCHANGED NotByVram
    BY <1>1, GroupsApart
  <2>3. QED BY <2>1, <2>2, SameOfGroup DEF NotByVram, IInv, TypeOK
<1>2. CASE OamAccess
  <2>1. OamOK' /\ StreamOK'
    BY <1>2, OamKeeps DEF IInv
  <2>2. UNCHANGED NotByOam
    BY <1>2, GroupsApart
  <2>3. QED BY <2>1, <2>2, SameOfGroup DEF NotByOam, IInv, TypeOK
<1>3. CASE CgramAccess
  <2>1. CgramOK' /\ StreamOK'
    BY <1>3, CgramKeeps DEF IInv
  <2>2. UNCHANGED NotByCgram
    BY <1>3, GroupsApart
  <2>3. QED BY <2>1, <2>2, SameOfGroup DEF NotByCgram, IInv, TypeOK
<1>4. CASE WramAccess
  <2>1. WramOK' /\ StreamOK'
    BY <1>4, WramKeeps DEF IInv
  <2>2. UNCHANGED NotByWram
    BY <1>4, GroupsApart
  <2>3. QED BY <2>1, <2>2, SameOfGroup DEF NotByWram, IInv, TypeOK
<1>5. CASE TwiceAccess
  <2>1. TwiceOK' /\ HalfInv' /\ WrittenTwiceWhole'
    BY <1>5, TwiceKeeps DEF IInv
  <2>2. UNCHANGED NotByTwice
    BY <1>5, GroupsApart
  <2>3. QED BY <2>1, <2>2, SameOfGroup DEF NotByTwice, IInv, TypeOK
<1>6. CASE CounterAccess \/ Advance
  <2>1. CountersOK' /\ SeenInv'
    BY <1>6, CountersKeep DEF IInv, TypeOK
  <2>2. UNCHANGED NotByCounters
    BY <1>6, GroupsApart
  <2>3. QED BY <2>1, <2>2, SameOfGroup DEF NotByCounters, IInv, TypeOK
<1>7. CASE UNCHANGED vars
  BY <1>7, SameOfGroup DEF vars, IInv, TypeOK
<1>8. QED BY <1>1, <1>2, <1>3, <1>4, <1>5, <1>6, <1>7 DEF Next

LEMMA InvAlways == Spec => []IInv
BY InitInv, StepInv, PTL DEF Spec

\* Registers, memories and the addresses that count through them keep their
\* types, for any width of a byte: no access leaves a memory.
THEOREM PortsTypeCorrect == Spec => []TypeOK
<1>1. IInv => TypeOK
  BY DEF IInv
<1>2. QED BY <1>1, InvAlways, PTL

\* Two stores to a register make it the word stored, horizontal offsets
\* included, which keep bits of both bytes before (store of $210d to $2120).
THEOREM TwiceMakesWord == Spec => []WrittenTwiceWhole
<1>1. IInv => WrittenTwiceWhole
  BY DEF IInv
<1>2. QED BY <1>1, InvAlways, PTL

\* Two loads of a latched counter give its value, low byte first, whatever
\* was done to the other counter (load of $213c and $213d).
THEOREM CountersAreWhole == Spec => []CountersReadWhole
<1>1. IInv => CountersReadWhole
  <2> SUFFICES ASSUME IInv, NEW c \in {"h", "v"}, Len(seen[c].bytes) = 2
               PROVE  seen[c].bytes[1] + Radix * seen[c].bytes[2] = Latched(c)
    BY DEF CountersReadWhole, Latched
  <2>1. ~seen[c].torn
    BY NoBytes DEF IInv, SeenInv
  <2>2. seen[c].bytes[1] = Lo(Latched(c)) /\ seen[c].bytes[2] = Hi(Latched(c))
    BY <2>1 DEF IInv, SeenInv
  <2>3. QED BY <2>2, LatchedHalves DEF IInv, TypeOK
<1>2. QED BY <1>1, InvAlways, PTL

-----------------------------------------------------------------------------
(* Where a stream is.                                                      *)

Square == Radix * Radix

Moved == Len(stream.data)

\* The address a port has come to, while the stream is one of its own.
VramStreamInv ==
  uses = "vram" =>
    LET step == Steps[vp.step]
    IN  /\ stream.kind # "load"
        /\ stream.kind \in {"none", "store"} =>
             vp.addr = (stream.start + (Moved \div 2) * step) % Square
        /\ stream.kind \in {"none", "low", "high"} /\ vp.late =>
             vp.addr = (stream.start + Moved * step) % Square
        /\ stream.kind \in {"low", "high"} /\ vp.late /\ step # 0 /\ Moved # 0 =>
             vp.prefetch = VramAt((stream.start + (Moved - 1) * step) % Square)

OamStreamInv ==
  uses = "oam" =>
    /\ stream.kind \in {"none", "load", "store", "mixed"} /\ stream.start % 2 = 0
    /\ stream.kind # "mixed" => op.addr = (stream.start + Moved) % OamBits
    /\ stream.kind = "store" /\ Moved % 2 = 1 => op.lsb = stream.data[Moved]

CgramStreamInv ==
  uses = "cgram" =>
    /\ stream.kind \in {"none", "store"} /\ cp.add = (stream.start + Moved \div 2) % Radix
    /\ cp.low = IF Moved % 2 = 1 THEN stream.data[Moved] ELSE NONE

WramStreamInv ==
  uses = "wram" =>
    /\ stream.kind \in {"none", "load", "store", "mixed"}
    /\ stream.kind # "mixed" => wmadd = (stream.start + Moved) % WramSize

StreamInv ==
  /\ stream.kind = "none" => stream.data = <<>>
  /\ uses \in {"twice", "counters"} => stream.kind = "none"
  /\ VramStreamInv /\ OamStreamInv /\ CgramStreamInv /\ WramStreamInv

\* The cells of a stream, and which of its bytes wait.
Cells == [k \in Nat |-> Cell(k)]
Waiting == {k \in 1..Moved : Waits(k)}

Landed(n, cells, waiting, memory, data) ==
  \A k \in 1..n :
    k \in waiting \/ (\E l \in (k + 1)..n : cells[l] = cells[k] /\ l \notin waiting)
    \/ memory[cells[k]] = data[k]

Held(n, cells, memory, data) == \A k \in 1..n : data[k] = memory[cells[k]]

StoreInv == stream.kind = "store" => Landed(Moved, Cells, Waiting, Memory, stream.data)

LoadInv == stream.kind = "load" => Held(Moved, Cells, Memory, stream.data)

HalfLoadInv ==
  uses = "vram" /\ stream.kind \in {"low", "high"} /\ vp.late /\ Steps[vp.step] # 0 =>
    \A k \in 2..Moved :
      stream.data[k] = vram[(2 * (stream.start + (k - 2) * Steps[vp.step]) + Half(stream.kind)) % Square]

StreamsInv == StreamInv /\ StoreInv /\ LoadInv /\ HalfLoadInv

-----------------------------------------------------------------------------
(* More about remainders.                                                  *)

\* A remainder is determined by its range.
LEMMA RemainderIs ==
  ASSUME NEW d \in Nat \ {0}, NEW q \in Nat, NEW r \in 0..(d - 1)
  PROVE  (d * q + r) % d = r
<1> DEFINE n == d * q + r
           p == n \div d
           s == n % d
<1>1. d * q \in Nat /\ n \in Nat
  OBVIOUS
<1>2. s \in 0..(d - 1) /\ p \in Nat /\ d * p + s = d * q + r
  BY <1>1, Division
<1> HIDE DEF p, s, n
<1>3. ASSUME NEW i \in Nat, NEW j \in Nat, i < j PROVE d * i + d <= d * j
  <2>1. (i + 1) * d <= j * d
    BY <1>3, ProductLeq
  <2>2. (i + 1) * d = d * i + d /\ j * d = d * j
    OBVIOUS
  <2>3. QED BY <2>1, <2>2
<1>4. CASE p = q
  BY <1>1, <1>2, <1>4 DEF s, n
<1>5. CASE p < q
  <2>1. d * p + d <= d * q /\ d * p \in Nat
    BY <1>2, <1>3, <1>5
  <2>2. QED BY <1>1, <1>2, <2>1
<1>6. CASE q < p
  <2>1. d * q + d <= d * p /\ d * p \in Nat
    BY <1>2, <1>3, <1>6
  <2>2. QED BY <1>1, <1>2, <2>1
<1>7. QED BY <1>2, <1>4, <1>5, <1>6

\* Multiples of the divisor do not count.
LEMMA AddMultiple ==
  ASSUME NEW d \in Nat \ {0}, NEW k \in Nat, NEW m \in Nat
  PROVE  (d * k + m) % d = m % d
<1> DEFINE q == m \div d
           r == m % d
<1>1. q \in Nat /\ r \in 0..(d - 1) /\ m = d * q + r
  BY Division
<1> HIDE DEF q, r
<1>2. d * (k + q) = d * k + d * q /\ d * k \in Nat /\ d * q \in Nat /\ k + q \in Nat
  BY <1>1
<1>3. d * k + m = d * (k + q) + r
  BY <1>1, <1>2
<1>4. QED BY <1>1, <1>2, <1>3, RemainderIs DEF r

\* A remainder may be taken at once or at the end.
LEMMA AddRemainder ==
  ASSUME NEW d \in Nat \ {0}, NEW a \in Nat, NEW j \in Nat
  PROVE  ((a % d) + j) % d = (a + j) % d
<1> DEFINE q == a \div d
           r == a % d
<1>1. q \in Nat /\ r \in 0..(d - 1) /\ a = d * q + r
  BY Division
<1> HIDE DEF q, r
<1>2. d * q \in Nat /\ r + j \in Nat /\ a + j = d * q + (r + j)
  BY <1>1
<1>3. (d * q + (r + j)) % d = (r + j) % d
  BY <1>1, <1>2, AddMultiple
<1>4. QED BY <1>2, <1>3 DEF r

LEMMA DoubleRemainder ==
  ASSUME NEW d \in Nat \ {0}, NEW a \in Nat, NEW j \in Nat
  PROVE  ((a % d) * 2 + j) % d = (2 * a + j) % d
<1> DEFINE q == a \div d
           r == a % d
<1>1. q \in Nat /\ r \in 0..(d - 1) /\ a = d * q + r
  BY Division
<1> HIDE DEF q, r
<1>2. d * q \in Nat /\ r \in Nat /\ q * 2 \in Nat /\ r * 2 + j \in Nat
  BY <1>1
<1>3. d * (q * 2) = (d * q) * 2
  BY <1>1
<1>4. 2 * a + j = d * (q * 2) + (r * 2 + j)
  BY <1>1, <1>2, <1>3
<1>5. (d * (q * 2) + (r * 2 + j)) % d = (r * 2 + j) % d
  BY <1>2, AddMultiple
<1>6. QED BY <1>4, <1>5 DEF r

LEMMA SmallRemainder ==
  ASSUME NEW d \in Nat \ {0}, NEW n \in 0..(d - 1)
  PROVE  n % d = n /\ n = (n + 0) % d
<1>1. d * 0 + n = n /\ n + 0 = n
  OBVIOUS
<1>2. QED BY <1>1, RemainderIs

-----------------------------------------------------------------------------
(* What Restart and Extend make of a stream.                               *)

LEMMA RestartIs ==
  ASSUME StreamOK, NEW a \in Nat, Restart(a)
  PROVE  /\ stream'.kind = "none" /\ stream'.start = a /\ stream'.data = <<>>
         /\ Len(stream'.data) = 0
BY NoBytes DEF StreamOK, Restart

Longer(kind, b) ==
  /\ stream'.kind = kind /\ stream'.start = stream.start
  /\ Len(stream'.data) = Len(stream.data) + 1
  /\ \A k \in 1..Len(stream.data) : stream'.data[k] = stream.data[k]
  /\ stream'.data[Len(stream.data) + 1] = b

LEMMA ExtendIs ==
  ASSUME StreamOK, NEW kind, NEW inTurn, NEW b \in Byte, Extend(kind, inTurn, b)
  PROVE  \/ stream.kind \in {"none", kind} /\ inTurn /\ Longer(kind, b)
         \/ stream'.kind = "mixed" /\ stream'.data = <<>> /\ Len(stream'.data) = 0
            /\ ~(stream.kind \in {"none", kind} /\ inTurn) /\ stream'.start = stream.start
<1> DEFINE d == Append(stream.data, b)
<1>1. stream.data \in Seq(Byte)
  BY DEF StreamOK
<1>2. Len(d) = Len(stream.data) + 1 /\ d[Len(stream.data) + 1] = b
      /\ \A k \in 1..Len(stream.data) : d[k] = stream.data[k]
  BY <1>1
<1> HIDE DEF d
<1>3. CASE stream.kind \in {"none", kind} /\ inTurn
  <2>1. stream' = [stream EXCEPT !.kind = kind, !.data = d, !.moves = stream.moves + 1]
    BY <1>3 DEF Extend, d
  <2>2. stream'.kind = kind /\ stream'.data = d /\ stream'.start = stream.start
    BY <2>1 DEF StreamOK
  <2>3. QED BY <1>2, <1>3, <2>2 DEF Longer
<1>4. CASE ~(stream.kind \in {"none", kind} /\ inTurn)
  BY <1>4, NoBytes DEF Extend, StreamOK
<1>5. QED BY <1>3, <1>4

LEMMA MovedIs == ASSUME StreamOK PROVE Moved \in Nat /\ stream.start \in Nat
BY DEF StreamOK, Moved

-----------------------------------------------------------------------------
(* A byte more lands.                                                      *)

\* One that is stored as it comes.
LEMMA LandOne ==
  ASSUME NEW n \in Nat, NEW cells, NEW m, NEW m2, NEW d, NEW d2,
         Landed(n, cells, {}, m, d), \A k \in 1..n : d2[k] = d[k],
         m2[cells[n + 1]] = d2[n + 1],
         \A k \in 1..n : cells[k] # cells[n + 1] => m2[cells[k]] = m[cells[k]]
  PROVE  Landed(n + 1, cells, {}, m2, d2)
<1> SUFFICES ASSUME NEW k \in 1..(n + 1)
             PROVE  \/ \E l \in (k + 1)..(n + 1) : cells[l] = cells[k]
                    \/ m2[cells[k]] = d2[k]
  BY DEF Landed
<1>1. CASE k = n + 1
  BY <1>1
<1>2. CASE k \in 1..n /\ cells[k] = cells[n + 1]
  <2>1. n + 1 \in (k + 1)..(n + 1)
    BY <1>2
  <2>2. QED BY <1>2, <2>1
<1>3. CASE k \in 1..n /\ cells[k] # cells[n + 1]
  <2>1. (\E l \in (k + 1)..n : cells[l] = cells[k]) \/ m[cells[k]] = d[k]
    BY <1>3 DEF Landed
  <2>2. \A l \in (k + 1)..n : l \in (k + 1)..(n + 1)
    OBVIOUS
  <2>3. QED BY <1>3, <2>1, <2>2
<1>4. QED BY <1>1, <1>2, <1>3

\* One that waits for the next.
LEMMA LandWait ==
  ASSUME NEW n \in Nat, NEW cells, NEW m, NEW d, NEW d2,
         Landed(n, cells, {}, m, d), \A k \in 1..n : d2[k] = d[k]
  PROVE  Landed(n + 1, cells, {n + 1}, m, d2)
<1> SUFFICES ASSUME NEW k \in 1..(n + 1)
             PROVE  \/ k = n + 1
                    \/ \E l \in (k + 1)..(n + 1) : cells[l] = cells[k] /\ l # n + 1
                    \/ m[cells[k]] = d2[k]
  BY DEF Landed
<1>1. CASE k \in 1..n
  <2>1. (\E l \in (k + 1)..n : cells[l] = cells[k]) \/ m[cells[k]] = d[k]
    BY <1>1 DEF Landed
  <2>2. \A l \in (k + 1)..n : l \in (k + 1)..(n + 1) /\ l # n + 1
    OBVIOUS
  <2>3. QED BY <1>1, <2>1, <2>2
<1>2. QED BY <1>1

\* One that is stored together with the one that waited.
LEMMA LandTwo ==
  ASSUME NEW n \in Nat \ {0}, NEW cells, NEW m, NEW m2, NEW d, NEW d2,
         Landed(n, cells, {n}, m, d), \A k \in 1..n : d2[k] = d[k],
         m2[cells[n]] = d2[n], m2[cells[n + 1]] = d2[n + 1],
         \A k \in 1..n : cells[k] # cells[n] /\ cells[k] # cells[n + 1] => m2[cells[k]] = m[cells[k]]
  PROVE  Landed(n + 1, cells, {}, m2, d2)
<1> SUFFICES ASSUME NEW k \in 1..(n + 1)
             PROVE  \/ \E l \in (k + 1)..(n + 1) : cells[l] = cells[k]
                    \/ m2[cells[k]] = d2[k]
  BY DEF Landed
<1>1. CASE k = n + 1 \/ k = n
  BY <1>1
<1>2. CASE k \in 1..(n - 1) /\ cells[k] \in {cells[n], cells[n + 1]}
  <2>1. n + 1 \in (k + 1)..(n + 1) /\ n \in (k + 1)..(n + 1)
    BY <1>2
  <2>2. QED BY <1>2, <2>1
<1>3. CASE k \in 1..(n - 1) /\ cells[k] \notin {cells[n], cells[n + 1]}
  <2>0. k \in 1..n /\ k # n
    BY <1>3
  <2>1. (\E l \in (k + 1)..n : cells[l] = cells[k]) \/ m[cells[k]] = d[k]
    BY <2>0 DEF Landed
  <2>2. \A l \in (k + 1)..n : l \in (k + 1)..(n + 1)
    OBVIOUS
  <2>3. m2[cells[k]] = m[cells[k]]
    BY <1>3, <2>0
  <2>4. QED BY <2>0, <2>1, <2>2, <2>3
<1>4. QED BY <1>1, <1>2, <1>3

LEMMA HoldOne ==
  ASSUME NEW n \in Nat, NEW cells, NEW m, NEW d, NEW d2,
         Held(n, cells, m, d), \A k \in 1..n : d2[k] = d[k], d2[n + 1] = m[cells[n + 1]]
  PROVE  Held(n + 1, cells, m, d2)
<1>1. \A k \in 1..(n + 1) : k \in 1..n \/ k = n + 1
  OBVIOUS
<1>2. QED BY <1>1 DEF Held

-----------------------------------------------------------------------------
(* The streams of WRAM.                                                    *)

\* Nothing is promised of a stream that has not begun or has ended.
LEMMA NoStream ==
  stream.kind \in {"none", "mixed"} => StoreInv /\ LoadInv /\ HalfLoadInv
BY DEF StoreInv, LoadInv, HalfLoadInv

LEMMA NothingLanded == \A cells, m, d : Landed(0, cells, {}, m, d) /\ Held(0, cells, m, d)
BY DEF Landed, Held

WramStream ==
  /\ Memory = wram /\ Waiting = {}
  /\ \A k \in Nat \ {0} : /\ Cells[k] = (stream.start + k - 1) % WramSize
                        /\ Cells[k] \in 0..(WramSize - 1)

LEMMA WramCells == TypeOK /\ uses = "wram" => WramStream
<1> SUFFICES ASSUME TypeOK, uses = "wram" PROVE WramStream
  OBVIOUS
<1>1. Memory = wram /\ Waiting = {}
  BY DEF Memory, Waiting, Waits
<1>2. ASSUME NEW k \in Nat \ {0}
      PROVE  Cells[k] = (stream.start + k - 1) % WramSize /\ Cells[k] \in 0..(WramSize - 1)
  <2>1. Cells[k] = (stream.start + k - 1) % WramSize
    BY <1>2 DEF Cells, Cell
  <2>2. stream.start + k - 1 \in Nat
    BY MovedIs DEF TypeOK
  <2>3. QED BY <2>1, <2>2, Sizes1, Division
<1>3. QED BY <1>1, <1>2 DEF WramStream

LEMMA WramStreams ==
  ASSUME TypeOK, TypeOK', StreamsInv, uses = "wram", WramAccess PROVE StreamsInv'
<1>u. uses' = "wram" /\ WramOK' /\ StreamOK' /\ StreamOK /\ WramOK
  BY DEF WramAccess, StoreWmadd, StoreWram, LoadWram, NotByWram, TypeOK
<1>0. WramStreamInv /\ (stream.kind = "none" => stream.data = <<>>)
  BY DEF StreamsInv, StreamInv
<1>1. SUFFICES WramStreamInv' /\ StoreInv' /\ LoadInv' /\ (stream'.kind = "none" => stream'.data = <<>>)
  BY <1>u DEF StreamsInv, StreamInv, HalfLoadInv, VramStreamInv, OamStreamInv, CgramStreamInv
<1>2. /\ Memory = wram /\ Waiting = {} /\ Memory' = wram' /\ Waiting' = {}
      /\ \A k \in Nat \ {0} : /\ Cells[k] = (stream.start + k - 1) % WramSize
                            /\ Cells[k] \in 0..(WramSize - 1)
                            /\ Cells'[k] = (stream'.start + k - 1) % WramSize
  <2>1. WramStream
    BY WramCells
  <2>2. (TypeOK /\ uses = "wram")'
    BY <1>u
  <2>3. WramStream'
    BY <2>2, WramCells, PTL
  <2>4. QED BY <2>1, <2>3 DEF WramStream
<1>3. ASSUME NEW b \in Byte, NEW reg \in {"l", "m", "h"}, StoreWmadd(reg, b)
      PROVE  WramStreamInv' /\ StoreInv' /\ LoadInv' /\ (stream'.kind = "none" => stream'.data = <<>>)
  <2>1. wmadd' \in 0..(WramSize - 1) /\ wmadd' \in Nat
    BY <1>u, Sizes1 DEF WramOK
  <2>2. stream'.kind = "none" /\ stream'.start = wmadd' /\ stream'.data = <<>> /\ Moved' = 0
    BY <1>3, <1>u, <2>1, RestartIs DEF StoreWmadd, Moved
  <2>3. wmadd' = (wmadd' + 0) % WramSize
    BY <2>1, Sizes1, SmallRemainder
  <2>4. QED BY <2>2, <2>3, NoStream DEF WramStreamInv, StoreInv, LoadInv
<1>4. ASSUME NEW b \in Byte, NEW kind \in {"load", "store"}, Extend(kind, TRUE, b), wmadd' = NextWmadd
      PROVE  /\ WramStreamInv' /\ (stream'.kind = "none" => stream'.data = <<>>)
             /\ stream'.kind # "mixed" =>
                   /\ Longer(kind, b) /\ wmadd = Cells[Moved + 1]
                   /\ \A k \in 1..(Moved + 1) : Cells'[k] = Cells[k]
                   /\ stream.kind # kind => Moved = 0
  <2>1. CASE stream.kind \in {"none", kind} /\ Longer(kind, b)
    <3>1. /\ stream'.kind = kind /\ Moved' = Moved + 1 /\ stream'.start = stream.start
          /\ Moved \in Nat /\ stream.start \in Nat
      BY <1>u, <2>1, MovedIs DEF Longer, Moved
    <3>2. wmadd = (stream.start + Moved) % WramSize
      BY <1>u, <1>0, <2>1 DEF WramStreamInv
    <3>3. wmadd' = (stream.start + Moved + 1) % WramSize
      <4> DEFINE s == stream.start + Moved
      <4>1. s \in Nat
        BY <3>1
      <4> HIDE DEF s
      <4>2. ((s % WramSize) + 1) % WramSize = (s + 1) % WramSize
        BY <4>1, Sizes1, AddRemainder
      <4>3. QED BY <1>4, <3>2, <4>2 DEF NextWmadd, s
    <3>4. stream.start + Moved + 1 = stream.start + (Moved + 1) /\ Moved + 1 \in Nat \ {0}
          /\ stream.start + (Moved + 1) - 1 = stream.start + Moved
      BY <3>1
    <3>5. WramStreamInv'
      BY <3>1, <3>3, <3>4 DEF WramStreamInv
    <3>6. wmadd = Cells[Moved + 1]
      BY <1>2, <3>2, <3>4
    <3>7. \A k \in 1..(Moved + 1) : k \in Nat \ {0}
      BY <3>1
    <3>8. stream.kind = "none" => Moved = 0
      BY <1>0, NoBytes DEF Moved
    <3>9. QED BY <1>2, <2>1, <3>1, <3>5, <3>6, <3>7, <3>8
  <2>2. CASE stream'.kind = "mixed" /\ stream'.data = <<>>
    BY <2>2 DEF WramStreamInv
  <2>3. QED BY <1>4, <1>u, <2>1, <2>2, ExtendIs
<1>5. ASSUME stream'.kind = "mixed"
      PROVE  StoreInv' /\ LoadInv'
  BY <1>5 DEF StoreInv, LoadInv
<1>n. Moved \in Nat
  BY <1>u, MovedIs
<1>6. ASSUME NEW b \in Byte, StoreWram(b)
      PROVE  WramStreamInv' /\ StoreInv' /\ LoadInv' /\ (stream'.kind = "none" => stream'.data = <<>>)
  <2>1. Extend("store", TRUE, b) /\ wmadd' = NextWmadd /\ wram' = [wram EXCEPT ![wmadd] = b]
    BY <1>6 DEF StoreWram
  <2>2. CASE stream'.kind # "mixed"
    <3>1. /\ Longer("store", b) /\ wmadd = Cells[Moved + 1] /\ (stream.kind # "store" => Moved = 0)
          /\ \A k \in 1..(Moved + 1) : Cells'[k] = Cells[k]
      BY <1>4, <2>1, <2>2
    <3>2. /\ stream'.kind = "store" /\ Moved' = Moved + 1 /\ stream'.data[Moved + 1] = b
          /\ \A k \in 1..Moved : stream'.data[k] = stream.data[k]
      BY <3>1 DEF Longer, Moved
    <3>3. Landed(Moved, Cells, {}, wram, stream.data)
      <4>1. CASE stream.kind = "store"
        BY <1>2, <4>1 DEF StreamsInv, StoreInv
      <4>2. CASE stream.kind # "store"
        BY <3>1, <4>2, NothingLanded
      <4>3. QED BY <4>1, <4>2
    <3>4. /\ wram'[Cells[Moved + 1]] = stream'.data[Moved + 1]
          /\ \A k \in 1..Moved : Cells[k] # Cells[Moved + 1] => wram'[Cells[k]] = wram[Cells[k]]
      <4>1. \A k \in 1..(Moved + 1) : Cells[k] \in 0..(WramSize - 1)
        <5>1. \A k \in 1..(Moved + 1) : k \in Nat \ {0}
          BY <1>n
        <5>2. QED BY <1>2, <5>1
      <4>2. Moved + 1 \in 1..(Moved + 1) /\ \A k \in 1..Moved : k \in 1..(Moved + 1)
        BY <1>n
      <4>3. DOMAIN wram = 0..(WramSize - 1)
        BY <1>u DEF WramOK
      <4>4. QED BY <2>1, <3>1, <3>2, <4>1, <4>2, <4>3
    <3>5. Landed(Moved + 1, Cells, {}, wram', stream'.data)
      BY <1>n, <3>2, <3>3, <3>4, LandOne
    <3>6. Landed(Moved', Cells', {}, wram', stream'.data)
      BY <3>1, <3>2, <3>5 DEF Landed
    <3>7. QED BY <1>2, <1>4, <2>1, <3>2, <3>6 DEF StoreInv, LoadInv
  <2>3. QED BY <1>4, <1>5, <2>1, <2>2
<1>7. ASSUME LoadWram
      PROVE  WramStreamInv' /\ StoreInv' /\ LoadInv' /\ (stream'.kind = "none" => stream'.data = <<>>)
  <2>1. Extend("load", TRUE, wram[wmadd]) /\ wmadd' = NextWmadd /\ wram' = wram /\ wram[wmadd] \in Byte
    BY <1>7, <1>u DEF LoadWram, WramOK
  <2>2. CASE stream'.kind # "mixed"
    <3>1. /\ Longer("load", wram[wmadd]) /\ wmadd = Cells[Moved + 1]
          /\ (stream.kind # "load" => Moved = 0)
          /\ \A k \in 1..(Moved + 1) : Cells'[k] = Cells[k]
      BY <1>4, <2>1, <2>2
    <3>2. /\ stream'.kind = "load" /\ Moved' = Moved + 1 /\ stream'.data[Moved + 1] = wram[wmadd]
          /\ \A k \in 1..Moved : stream'.data[k] = stream.data[k]
      BY <3>1 DEF Longer, Moved
    <3>3. Held(Moved, Cells, wram, stream.data)
      <4>1. CASE stream.kind = "load"
        BY <1>2, <4>1 DEF StreamsInv, LoadInv
      <4>2. CASE stream.kind # "load"
        BY <3>1, <4>2, NothingLanded
      <4>3. QED BY <4>1, <4>2
    <3>4. Held(Moved + 1, Cells, wram, stream'.data)
      BY <1>n, <3>1, <3>2, <3>3, HoldOne
    <3>5. Held(Moved', Cells', wram', stream'.data)
      BY <2>1, <3>1, <3>2, <3>4 DEF Held
    <3>6. QED BY <1>2, <1>4, <2>1, <3>2, <3>5 DEF StoreInv, LoadInv
  <2>3. QED BY <1>4, <1>5, <2>1, <2>2
<1>8. QED BY <1>3, <1>6, <1>7, StoredIsByte DEF WramAccess

-----------------------------------------------------------------------------
(* The streams of CGRAM.                                                   *)

LEMMA Halve ==
  ASSUME NEW n \in Nat
  PROVE  /\ n % 2 \in 0..1 /\ n \div 2 \in Nat /\ n = 2 * (n \div 2) + (n % 2)
         /\ n % 2 = 0 => (n + 1) % 2 = 1 /\ (n + 1) \div 2 = n \div 2
         /\ n % 2 = 1 => (n + 1) % 2 = 0 /\ (n + 1) \div 2 = (n \div 2) + 1
OBVIOUS

CgramStream ==
  /\ Memory = cgram /\ Waiting = IF Moved % 2 = 1 THEN {Moved} ELSE {}
  /\ \A n \in Nat :
       /\ Cells[n + 1] = 2 * ((stream.start + n \div 2) % Radix) + (n % 2)
       /\ Cells[n + 1] \in 0..(2 * Radix - 1)

LEMMA CgramCells == TypeOK /\ uses = "cgram" => CgramStream
<1> SUFFICES ASSUME TypeOK, uses = "cgram" PROVE CgramStream
  OBVIOUS
<1>1. Memory = cgram
  BY DEF Memory
<1>2. Waiting = IF Moved % 2 = 1 THEN {Moved} ELSE {}
  <2>1. \A k : k \in Waiting <=> k \in 1..Moved /\ k = Moved /\ k % 2 = 1
    BY DEF Waiting, Waits, Moved
  <2>2. Moved \in Nat /\ (Moved % 2 = 1 => Moved \in 1..Moved)
    BY MovedIs DEF TypeOK
  <2>3. QED BY <2>1, <2>2
<1>3. ASSUME NEW n \in Nat
      PROVE  /\ Cells[n + 1] = 2 * ((stream.start + n \div 2) % Radix) + (n % 2)
             /\ Cells[n + 1] \in 0..(2 * Radix - 1)
  <2>0. (n + 1) - 1 = n /\ n + 1 \in Nat
    OBVIOUS
  <2>1. Cells[n + 1] = 2 * ((stream.start + n \div 2) % Radix) + (n % 2)
    BY <2>0 DEF Cells, Cell
  <2> DEFINE c == (stream.start + n \div 2) % Radix
  <2>2. stream.start + n \div 2 \in Nat
    BY MovedIs, Halve DEF TypeOK
  <2>3. c \in 0..(Radix - 1)
    BY <2>2, Sizes1, Division
  <2>4. n % 2 \in 0..1
    OBVIOUS
  <2> HIDE DEF c
  <2>5. 2 * c + (n % 2) \in 0..(2 * Radix - 1)
    BY <2>3, <2>4, Sizes1
  <2>6. QED BY <2>1, <2>5 DEF c
<1>4. QED BY <1>1, <1>2, <1>3 DEF CgramStream

LEMMA CgramStreams ==
  ASSUME TypeOK, TypeOK', StreamsInv, uses = "cgram", CgramAccess PROVE StreamsInv'
<1>u. uses' = "cgram" /\ CgramOK' /\ StreamOK' /\ StreamOK /\ CgramOK
  BY DEF CgramAccess, StoreCgadd, StoreCgram, NotByCgram, TypeOK
<1>0. CgramStreamInv /\ (stream.kind = "none" => stream.data = <<>>)
  BY DEF StreamsInv, StreamInv
<1>1. SUFFICES CgramStreamInv' /\ StoreInv' /\ LoadInv' /\ (stream'.kind = "none" => stream'.data = <<>>)
  BY <1>u DEF StreamsInv, StreamInv, HalfLoadInv, VramStreamInv, OamStreamInv, WramStreamInv
<1>2. CgramStream
  BY CgramCells
<1>3. CgramStream'
  <2>1. (TypeOK /\ uses = "cgram")'
    BY <1>u
  <2>2. QED BY <2>1, CgramCells, PTL
<1>4. ASSUME NEW b \in Byte, StoreCgadd(b)
      PROVE  CgramStreamInv' /\ StoreInv' /\ LoadInv' /\ (stream'.kind = "none" => stream'.data = <<>>)
  <2>1. b \in 0..(Radix - 1) /\ b \in Nat
    BY Sizes1 DEF Byte
  <2>2. stream'.kind = "none" /\ stream'.start = b /\ stream'.data = <<>> /\ Moved' = 0
    BY <1>4, <1>u, <2>1, RestartIs DEF StoreCgadd, Moved
  <2>3. b = (b + 0 \div 2) % Radix
    <3>1. 0 \div 2 = 0
      OBVIOUS
    <3>2. QED BY <2>1, <3>1, Sizes1, SmallRemainder
  <2>4. 0 % 2 = 0
    OBVIOUS
  <2>5. cp'.add = b /\ cp'.low = NONE
    BY <1>4 DEF StoreCgadd
  <2>6. QED BY <2>2, <2>3, <2>4, <2>5, NoStream DEF CgramStreamInv, StoreInv, LoadInv
<1>5. ASSUME NEW b \in Byte, StoreCgram(b)
      PROVE  CgramStreamInv' /\ StoreInv' /\ LoadInv' /\ (stream'.kind = "none" => stream'.data = <<>>)
  <2> DEFINE n == Moved
  <2>n. n \in Nat /\ stream.start \in Nat
    BY <1>u, MovedIs
  <2>1. Longer("store", b) /\ stream.kind \in {"none", "store"}
    BY <1>5, <1>u, <1>0, ExtendIs DEF StoreCgram, CgramStreamInv
  <2>2. /\ stream'.kind = "store" /\ stream'.start = stream.start /\ Moved' = n + 1
        /\ stream'.data[n + 1] = b /\ \A k \in 1..n : stream'.data[k] = stream.data[k]
    BY <2>1 DEF Longer, Moved
  <2>3. \A k \in 1..(n + 1) : Cells'[k] = Cells[k] /\ Cells[k] \in 0..(2 * Radix - 1)
    <3>1. \A m \in Nat : Cells'[m + 1] = Cells[m + 1] /\ Cells[m + 1] \in 0..(2 * Radix - 1)
      BY <1>2, <1>3, <2>2 DEF CgramStream
    <3>2. \A k \in 1..(n + 1) : k - 1 \in Nat /\ (k - 1) + 1 = k
      BY <2>n
    <3>3. QED BY <3>1, <3>2
  <2>4. \A waiting : Landed(Moved', Cells', waiting, cgram', stream'.data)
                     <=> Landed(n + 1, Cells, waiting, cgram', stream'.data)
    BY <2>2, <2>3, <2>n DEF Landed
  <2>5. Landed(n, Cells, Waiting, cgram, stream.data)
    <3>1. CASE stream.kind = "store"
      BY <1>2, <3>1 DEF StreamsInv, StoreInv, CgramStream
    <3>2. CASE stream.kind = "none"
      <4>1. n = 0
        BY <1>0, <3>2, NoBytes DEF Moved
      <4>2. QED BY <4>1 DEF Landed
    <3>3. QED BY <2>1, <3>1, <3>2
  <2>6. /\ cp.add = (stream.start + n \div 2) % Radix /\ cp.add \in 0..(Radix - 1)
        /\ cp.low = IF n % 2 = 1 THEN stream.data[n] ELSE NONE
    BY <1>0, <1>u DEF CgramStreamInv, CgramOK, Byte
  <2>7. Cells[n + 1] = 2 * cp.add + (n % 2)
    BY <1>2, <2>6, <2>n DEF CgramStream
  <2> HIDE DEF n
  <2>8. CASE n % 2 = 0
    <3>1. (n + 1) % 2 = 1 /\ (n + 1) \div 2 = n \div 2 /\ cp.low = NONE /\ n % 2 # 1
      BY <2>n, <2>6, <2>8, Halve
    <3>2. cp' = [cp EXCEPT !.low = b] /\ cgram' = cgram
      BY <1>5, <3>1 DEF StoreCgram
    <3>3. cp'.low = b /\ cp'.add = cp.add
      BY <1>u, <3>2 DEF CgramOK
    <3>4. CgramStreamInv'
      BY <2>2, <2>6, <3>1, <3>3 DEF CgramStreamInv
    <3>5. Waiting = {} /\ Waiting' = {n + 1}
      BY <1>2, <1>3, <2>2, <3>1 DEF CgramStream, n
    <3>6. Landed(n + 1, Cells, {n + 1}, cgram, stream'.data)
      BY <2>2, <2>5, <2>n, <3>5, LandWait
    <3>7. QED BY <1>3, <2>2, <2>4, <3>2, <3>4, <3>5, <3>6 DEF StoreInv, LoadInv, CgramStream
  <2>9. CASE n % 2 = 1
    <3>1. (n + 1) % 2 = 0 /\ (n + 1) \div 2 = (n \div 2) + 1 /\ n \in Nat \ {0} /\ (n + 1) % 2 # 1
      BY <2>n, <2>9, Halve
    <3>2. cp.low = stream.data[n] /\ cp.low # NONE
      <4>1. stream.data[n] \in Byte
        <5>1. stream.data \in Seq(Byte) /\ n \in 1..Len(stream.data)
          BY <1>u, <3>1 DEF StreamOK, n, Moved
        <5>2. QED BY <5>1
      <4>2. QED BY <2>6, <2>9, <4>1, NoneIsNoByte
    <3>3. /\ cgram' = [cgram EXCEPT ![2 * cp.add] = cp.low, ![2 * cp.add + 1] = b]
          /\ cp' = [add |-> (cp.add + 1) % Radix, low |-> NONE]
      BY <1>5, <3>2 DEF StoreCgram
    <3>4. cp'.add = (stream.start + (n + 1) \div 2) % Radix
      <4> DEFINE s == stream.start + n \div 2
      <4>1. s \in Nat /\ stream.start + (n + 1) \div 2 = s + 1
        BY <2>n, <3>1, Halve
      <4> HIDE DEF s
      <4>2. ((s % Radix) + 1) % Radix = (s + 1) % Radix
        BY <4>1, Sizes1, AddRemainder
      <4>3. QED BY <2>6, <3>3, <4>1, <4>2 DEF s
    <3>5. CgramStreamInv'
      BY <2>2, <3>1, <3>3, <3>4 DEF CgramStreamInv
    <3>6. Waiting = {n} /\ Waiting' = {}
      BY <1>2, <1>3, <2>2, <2>9, <3>1 DEF CgramStream, n
    <3>7. Cells[n + 1] = 2 * cp.add + 1 /\ Cells[n] = 2 * cp.add
      <4>1. n - 1 \in Nat /\ (n - 1) + 1 = n /\ (n - 1) % 2 = 0 /\ (n - 1) \div 2 = n \div 2
        BY <2>9, <3>1
      <4>2. Cells[n] = 2 * ((stream.start + (n - 1) \div 2) % Radix) + ((n - 1) % 2)
        BY <1>2, <4>1 DEF CgramStream
      <4>3. QED BY <2>6, <2>7, <2>9, <4>1, <4>2
    <3>8. /\ 2 * cp.add # 2 * cp.add + 1
          /\ DOMAIN cgram = 0..(2 * Radix - 1)
          /\ 2 * cp.add \in DOMAIN cgram /\ 2 * cp.add + 1 \in DOMAIN cgram
      BY <1>u, <2>6, Sizes1 DEF CgramOK
    <3>9. /\ cgram'[Cells[n]] = stream'.data[n] /\ cgram'[Cells[n + 1]] = stream'.data[n + 1]
          /\ \A k \in 1..n : Cells[k] # Cells[n] /\ Cells[k] # Cells[n + 1] =>
                               cgram'[Cells[k]] = cgram[Cells[k]]
      <4>1. n \in 1..n /\ \A k \in 1..n : k \in 1..(n + 1)
        BY <3>1
      <4>2. \A k \in 1..n : Cells[k] \in DOMAIN cgram
        BY <2>3, <3>8, <4>1
      <4>3. QED BY <2>2, <3>2, <3>3, <3>7, <3>8, <4>1, <4>2
    <3>10. Landed(n + 1, Cells, {}, cgram', stream'.data)
      BY <2>2, <2>5, <3>1, <3>6, <3>9, LandTwo
    <3>11. QED BY <1>3, <2>2, <2>4, <3>5, <3>6, <3>10 DEF StoreInv, LoadInv, CgramStream
  <2>10. QED BY <2>n, <2>8, <2>9, Halve
<1>6. QED BY <1>4, <1>5, StoredIsByte DEF CgramAccess

-----------------------------------------------------------------------------
(* The streams of OAM.                                                     *)

LEMMA EvenRemainder ==
  ASSUME NEW d \in Nat \ {0}, NEW n \in Nat
  PROVE  (n % (2 * d)) % 2 = n % 2
<1> DEFINE q == n \div (2 * d)
           r == n % (2 * d)
<1>1. 2 * d \in Nat \ {0}
  OBVIOUS
<1>2. q \in Nat /\ r \in 0..(2 * d - 1) /\ n = (2 * d) * q + r
  BY <1>1, Division
<1> HIDE DEF q, r
<1>3. (2 * d) * q = 2 * (d * q) /\ d * q \in Nat /\ r \in Nat
  BY <1>2
<1>4. (2 * (d * q) + r) % 2 = r % 2
  BY <1>3, AddMultiple
<1>5. QED BY <1>2, <1>3, <1>4 DEF r

\* The address the port is at after n bytes.
OamAt(n) == (stream.start + n) % OamBits

OamStream ==
  /\ Memory = oam
  /\ Waiting = IF Moved % 2 = 1 /\ OamAt(Moved - 1) < LowTable THEN {Moved} ELSE {}
  /\ \A n \in Nat :
       /\ Cells[n + 1] = OamIndex(OamAt(n)) /\ Cells[n + 1] \in 0..(LowTable + HighTable - 1)
       /\ OamAt(n) \in 0..(OamBits - 1) /\ OamAt(n + 1) = (OamAt(n) + 1) % OamBits

LEMMA OamCells == TypeOK /\ uses = "oam" => OamStream
<1> SUFFICES ASSUME TypeOK, uses = "oam" PROVE OamStream
  OBVIOUS
<1>1. Memory = oam
  BY DEF Memory
<1>2. Moved \in Nat /\ stream.start \in Nat
  BY MovedIs DEF TypeOK
<1>3. OamBits \in Nat \ {0} /\ LowTable \in Nat \ {0} /\ HighTable \in Nat \ {0} /\ LowTable % HighTable = 0
      /\ OamBits = 2 * LowTable
  BY OamSizes, PortsAssumption
<1>4. ASSUME NEW n \in Nat
      PROVE  /\ OamAt(n) \in 0..(OamBits - 1) /\ OamAt(n + 1) = (OamAt(n) + 1) % OamBits
             /\ Cells[n + 1] = IF OamAt(n) < LowTable THEN OamAt(n)
                               ELSE LowTable + ((OamAt(n) - LowTable) % HighTable)
  <2>1. stream.start + n \in Nat /\ stream.start + (n + 1) = (stream.start + n) + 1
    BY <1>2
  <2>2. OamAt(n) \in 0..(OamBits - 1)
    BY <1>3, <2>1, Division DEF OamAt
  <2>3. OamAt(n + 1) = (OamAt(n) + 1) % OamBits
    <3> DEFINE s == stream.start + n
    <3>1. s \in Nat /\ OamAt(n + 1) = (s + 1) % OamBits /\ OamAt(n) = s % OamBits
      BY <2>1 DEF OamAt
    <3> HIDE DEF s
    <3>2. ((s % OamBits) + 1) % OamBits = (s + 1) % OamBits
      BY <1>3, <3>1, AddRemainder
    <3>3. QED BY <3>1, <3>2
  <2>4. n + 1 \in Nat /\ stream.start + (n + 1) - 1 = stream.start + n
    BY <1>2
  <2>5. Cells[n + 1] = Cell(n + 1)
    BY <2>4 DEF Cells
  <2>6. Cell(n + 1) = IF OamAt(n) < LowTable THEN OamAt(n)
                      ELSE LowTable + ((OamAt(n) - LowTable) % HighTable)
    BY <2>4 DEF Cell, OamAt
  <2>7. QED BY <2>2, <2>3, <2>5, <2>6
<1>5. ASSUME NEW a \in LowTable..(OamBits - 1)
      PROVE  (a - LowTable) % HighTable = a % HighTable
  <2> DEFINE k == LowTable \div HighTable
             m == a - LowTable
  <2>1. k \in Nat /\ LowTable = HighTable * k + (LowTable % HighTable) /\ LowTable % HighTable = 0
    BY <1>3, Division
  <2>2. m \in Nat /\ a = LowTable + m
    BY <1>3
  <2> HIDE DEF k, m
  <2>3. HighTable * k = LowTable
    <3>1. HighTable * k \in Nat
      BY <1>3, <2>1
    <3>2. QED BY <1>3, <2>1, <3>1
  <2>4. (HighTable * k + m) % HighTable = m % HighTable
    BY <1>3, <2>1, <2>2, AddMultiple
  <2>5. QED BY <2>2, <2>3, <2>4 DEF m
<1>6. ASSUME NEW n \in Nat
      PROVE  /\ Cells[n + 1] = OamIndex(OamAt(n)) /\ Cells[n + 1] \in 0..(LowTable + HighTable - 1)
             /\ Cells[n + 1] < LowTable <=> OamAt(n) < LowTable
  <2> DEFINE a == OamAt(n)
             z == a % HighTable
  <2>1. a \in 0..(OamBits - 1) /\ a \in Nat
    BY <1>3, <1>4
  <2>2. z \in 0..(HighTable - 1)
    BY <1>3, <2>1, Division
  <2>3. CASE a < LowTable
    <3>1. Cells[n + 1] = a /\ OamIndex(a) = a
      BY <1>4, <2>3 DEF OamIndex
    <3> HIDE DEF a, z
    <3>2. a \in 0..(LowTable + HighTable - 1)
      BY <1>3, <2>1, <2>3
    <3>3. QED BY <2>3, <3>1, <3>2 DEF a
  <2>4. CASE ~(a < LowTable)
    <3>1. a \in LowTable..(OamBits - 1)
      BY <1>3, <2>1, <2>4
    <3>2. (a - LowTable) % HighTable = z
      BY <1>5, <3>1
    <3>3. Cells[n + 1] = LowTable + z /\ OamIndex(a) = LowTable + z
      BY <1>4, <2>4, <3>2 DEF OamIndex
    <3> HIDE DEF a, z
    <3>4. LowTable + z \in 0..(LowTable + HighTable - 1) /\ ~(LowTable + z < LowTable)
      BY <1>3, <2>2
    <3>5. QED BY <2>4, <3>3, <3>4 DEF a
  <2>5. QED BY <2>3, <2>4
<1>7. Waiting = IF Moved % 2 = 1 /\ OamAt(Moved - 1) < LowTable THEN {Moved} ELSE {}
  <2>1. \A k : k \in Waiting <=> k \in 1..Moved /\ k = Moved /\ k % 2 = 1 /\ Cell(k) < LowTable
    BY DEF Waiting, Waits, Moved
  <2>2. CASE Moved % 2 = 1
    <3>1. Moved \in 1..Moved /\ Moved - 1 \in Nat /\ (Moved - 1) + 1 = Moved
      BY <1>2, <2>2
    <3>2. Cell(Moved) = Cells[Moved]
      BY <1>2 DEF Cells
    <3>3. Cell(Moved) < LowTable <=> OamAt(Moved - 1) < LowTable
      BY <1>6, <3>1, <3>2
    <3>4. QED BY <2>1, <2>2, <3>1, <3>3
  <2>3. QED BY <2>1, <2>2
<1>8. QED BY <1>1, <1>4, <1>6, <1>7 DEF OamStream

\* Bytes come at addresses of their own parity, so that the second byte of a
\* word is next to the first.
LEMMA OamParity ==
  ASSUME TypeOK, uses = "oam", stream.start % 2 = 0, NEW n \in Nat
  PROVE  /\ OamAt(n) % 2 = n % 2
         /\ n % 2 = 1 => OamAt(n) = OamAt(n - 1) + 1
<1>1. stream.start \in Nat /\ LowTable \in Nat \ {0} /\ OamBits = 2 * LowTable
  BY MovedIs, OamSizes DEF TypeOK
<1>2. ASSUME NEW m \in Nat PROVE OamAt(m) % 2 = m % 2
  <2> DEFINE s == stream.start + m
  <2>1. s \in Nat /\ s % 2 = m % 2
    BY <1>1
  <2>2. OamAt(m) = s % OamBits
    BY DEF OamAt
  <2> HIDE DEF s
  <2>3. (s % (2 * LowTable)) % 2 = s % 2
    BY <1>1, <2>1, EvenRemainder
  <2>4. QED BY <1>1, <2>1, <2>2, <2>3
<1>3. CASE n % 2 = 1
  <2>1. n - 1 \in Nat /\ (n - 1) + 1 = n
    BY <1>3
  <2> DEFINE a == OamAt(n - 1)
  <2>2. OamStream
    BY OamCells
  <2>3. a \in 0..(OamBits - 1) /\ OamAt(n) = (a + 1) % OamBits
    BY <2>1, <2>2 DEF OamStream
  <2>4. ((a + 1) % OamBits) % 2 = 1
    BY <1>2, <1>3, <2>3
  <2> HIDE DEF a
  <2>5. OamBits \in Nat \ {0} /\ OamBits % OamBits = 0
    <3>1. OamBits \in Nat \ {0}
      BY <1>1
    <3>2. OamBits * 1 + 0 = OamBits /\ 0 \in 0..(OamBits - 1)
      BY <3>1
    <3>3. QED BY <3>1, <3>2, RemainderIs
  <2>6. a + 1 # OamBits
    <3>1. 0 % 2 = 0
      OBVIOUS
    <3>2. QED BY <2>4, <2>5, <3>1
  <2>7. a + 1 \in 0..(OamBits - 1)
    BY <2>3, <2>5, <2>6
  <2>8. (a + 1) % OamBits = a + 1
    BY <2>5, <2>7, SmallRemainder
  <2>9. QED BY <1>2, <2>3, <2>8 DEF a
<1>4. QED BY <1>2, <1>3

LEMMA OamStreams ==
  ASSUME TypeOK, TypeOK', StreamsInv, uses = "oam", OamAccess PROVE StreamsInv'
<1>u. uses' = "oam" /\ OamOK' /\ StreamOK' /\ StreamOK /\ OamOK
  BY DEF OamAccess, StoreOamadd, StoreOam, LoadOam, NotByOam, TypeOK
<1>0. OamStreamInv /\ (stream.kind = "none" => stream.data = <<>>)
  BY DEF StreamsInv, StreamInv
<1>1. SUFFICES OamStreamInv' /\ StoreInv' /\ LoadInv' /\ (stream'.kind = "none" => stream'.data = <<>>)
  BY <1>u DEF StreamsInv, StreamInv, HalfLoadInv, VramStreamInv, CgramStreamInv, WramStreamInv
<1>2. OamStream
  BY OamCells
<1>3. OamStream'
  <2>1. (TypeOK /\ uses = "oam")'
    BY <1>u
  <2>2. QED BY <2>1, OamCells, PTL
<1> DEFINE n == Moved
           a == op.addr
<1>n. n \in Nat /\ stream.start \in Nat /\ stream.start % 2 = 0 /\ a \in 0..(OamBits - 1)
  BY <1>u, <1>0, MovedIs DEF OamStreamInv, OamOK
<1>4. ASSUME NEW l \in Byte, NEW h \in Byte, StoreOamadd(l, h)
      PROVE  OamStreamInv' /\ StoreInv' /\ LoadInv' /\ (stream'.kind = "none" => stream'.data = <<>>)
  <2> DEFINE r == OamReload(l, h)
  <2>1. op' = [op EXCEPT !.addl = l, !.addh = h, !.addr = r] /\ Restart(r)
    BY <1>4 DEF StoreOamadd
  <2>2. op'.addr = r /\ r \in 0..(OamBits - 1)
    BY <1>u, <2>1 DEF OamOK
  <2>3. r % 2 = 0
    <3> DEFINE w == (h % 2) * Radix + l
    <3>1. h % 2 \in Nat /\ Radix \in Nat /\ l \in Nat
      BY Sizes1 DEF Byte
    <3>2. w \in Nat
      BY <3>1
    <3>3. r = w * 2
      BY DEF OamReload
    <3> HIDE DEF w
    <3>4. QED BY <3>2, <3>3
  <2>4. OamBits \in Nat \ {0} /\ r \in Nat
    BY <2>2, OamSizes
  <2> HIDE DEF r
  <2>5. stream'.kind = "none" /\ stream'.start = r /\ stream'.data = <<>> /\ Moved' = 0
    BY <1>u, <2>1, <2>4, RestartIs DEF Moved
  <2>6. r = (r + 0) % OamBits
    BY <2>2, <2>4, SmallRemainder
  <2>7. QED BY <2>2, <2>3, <2>5, <2>6, NoStream DEF OamStreamInv, StoreInv, LoadInv
<1>5. ASSUME NEW b \in Byte, NEW kind \in {"load", "store"}, Extend(kind, TRUE, b),
             op'.addr = (a + 1) % OamBits, kind = "store" => op'.lsb = IF a % 2 = 0 THEN b ELSE op.lsb
      PROVE  /\ OamStreamInv' /\ (stream'.kind = "none" => stream'.data = <<>>)
             /\ stream'.kind # "mixed" =>
                   /\ stream'.kind = kind /\ Moved' = n + 1 /\ stream'.start = stream.start
                   /\ stream'.data[n + 1] = b /\ \A k \in 1..n : stream'.data[k] = stream.data[k]
                   /\ a = OamAt(n) /\ Cells[n + 1] = OamIndex(a)
                   /\ \A k \in 1..(n + 1) : /\ Cells'[k] = Cells[k]
                                            /\ Cells[k] \in 0..(LowTable + HighTable - 1)
                   /\ stream.kind # kind => n = 0 /\ stream.kind = "none"
  <2>1. CASE stream.kind \in {"none", kind} /\ Longer(kind, b)
    <3>1. /\ stream'.kind = kind /\ Moved' = n + 1 /\ stream'.start = stream.start
          /\ stream'.data[n + 1] = b /\ \A k \in 1..n : stream'.data[k] = stream.data[k]
      BY <2>1 DEF Longer, Moved
    <3>2. a = OamAt(n)
      BY <1>0, <2>1 DEF OamStreamInv, OamAt
    <3>3. Cells[n + 1] = OamIndex(a) /\ OamAt(n + 1) = op'.addr
      BY <1>2, <1>5, <1>n, <3>2 DEF OamStream
    <3>4. op'.addr = (stream'.start + Moved') % OamBits
      BY <3>1, <3>3 DEF OamAt
    <3>5. kind = "store" /\ (n + 1) % 2 = 1 => op'.lsb = b
      <4>1. n % 2 = 0 => a % 2 = 0
        BY <1>n, <3>2, OamParity
      <4>2. (n + 1) % 2 = 1 => n % 2 = 0
        BY <1>n
      <4>3. QED BY <1>5, <4>1, <4>2
    <3>6. OamStreamInv'
      BY <1>n, <3>1, <3>4, <3>5 DEF OamStreamInv
    <3>7. \A k \in 1..(n + 1) : /\ Cells'[k] = Cells[k]
                                /\ Cells[k] \in 0..(LowTable + HighTable - 1)
      <4>1. \A m \in Nat : OamIndex(OamAt(m))' = OamIndex(OamAt(m))
        BY <3>1 DEF OamIndex, OamAt
      <4>2. \A m \in Nat : /\ Cells'[m + 1] = Cells[m + 1]
                           /\ Cells[m + 1] \in 0..(LowTable + HighTable - 1)
        BY <1>2, <1>3, <4>1 DEF OamStream
      <4>3. \A k \in 1..(n + 1) : k - 1 \in Nat /\ (k - 1) + 1 = k
        BY <1>n
      <4>4. QED BY <4>2, <4>3
    <3>8. stream.kind = "none" => n = 0
      BY <1>0, NoBytes DEF Moved
    <3>9. QED BY <2>1, <3>1, <3>2, <3>3, <3>6, <3>7, <3>8
  <2>2. CASE stream'.kind = "mixed" /\ stream'.data = <<>> /\ stream'.start = stream.start
    BY <1>n, <2>2 DEF OamStreamInv
  <2>3. QED BY <1>5, <1>u, <2>1, <2>2, ExtendIs
<1>6. ASSUME stream'.kind = "mixed" PROVE StoreInv' /\ LoadInv'
  BY <1>6 DEF StoreInv, LoadInv
<1>7. ASSUME LoadOam
      PROVE  OamStreamInv' /\ StoreInv' /\ LoadInv' /\ (stream'.kind = "none" => stream'.data = <<>>)
  <2> DEFINE b == oam[OamIndex(a)]
  <2>1. Extend("load", TRUE, b) /\ op' = [op EXCEPT !.addr = (a + 1) % OamBits] /\ oam' = oam
    BY <1>7 DEF LoadOam
  <2>2. op'.addr = (a + 1) % OamBits
    BY <1>u, <2>1 DEF OamOK
  <2>3. b \in Byte
    <3>1. OamIndex(a) \in 0..(LowTable + HighTable - 1)
      <4>1. a \in Nat /\ LowTable \in Nat /\ HighTable \in Nat \ {0}
        BY <1>n, OamSizes
      <4>2. a % HighTable \in 0..(HighTable - 1)
        BY <4>1, Division
      <4>3. QED BY <4>1, <4>2 DEF OamIndex
    <3>2. QED BY <1>u, <3>1 DEF OamOK
  <2>4. CASE stream'.kind # "mixed"
    <3>1. /\ stream'.kind = "load" /\ Moved' = n + 1
          /\ stream'.data[n + 1] = b /\ \A k \in 1..n : stream'.data[k] = stream.data[k]
          /\ Cells[n + 1] = OamIndex(a) /\ \A k \in 1..(n + 1) : Cells'[k] = Cells[k]
          /\ stream.kind # "load" => n = 0
      BY <1>5, <2>1, <2>2, <2>3, <2>4
    <3>2. Held(n, Cells, oam, stream.data)
      <4>1. CASE stream.kind = "load"
        BY <1>2, <4>1 DEF StreamsInv, LoadInv, OamStream
      <4>2. CASE stream.kind # "load"
        BY <3>1, <4>2, NothingLanded
      <4>3. QED BY <4>1, <4>2
    <3>3. Held(n + 1, Cells, oam, stream'.data)
      BY <1>n, <3>1, <3>2, HoldOne
    <3>4. Held(Moved', Cells', oam', stream'.data)
      BY <2>1, <3>1, <3>3 DEF Held
    <3>5. QED BY <1>3, <1>5, <2>1, <2>2, <2>3, <3>1, <3>4 DEF StoreInv, LoadInv, OamStream
  <2>5. QED BY <1>5, <1>6, <2>1, <2>2, <2>3, <2>4
<1>8. ASSUME NEW b \in Byte, StoreOam(b)
      PROVE  OamStreamInv' /\ StoreInv' /\ LoadInv' /\ (stream'.kind = "none" => stream'.data = <<>>)
  <2>1. /\ Extend("store", TRUE, b)
        /\ op' = [op EXCEPT !.lsb = KeepLsb(b), !.addr = (a + 1) % OamBits]
        /\ oam' = IF a >= LowTable THEN [oam EXCEPT ![OamIndex(a)] = b]
                  ELSE IF a % 2 = 1 THEN [oam EXCEPT ![a - 1] = KeepLsb(b), ![a] = b]
                  ELSE oam
    BY <1>8 DEF StoreOam
  <2>2. op'.addr = (a + 1) % OamBits /\ op'.lsb = IF a % 2 = 0 THEN b ELSE op.lsb
    BY <1>u, <2>1 DEF OamOK, KeepLsb
  <2>3. CASE stream'.kind # "mixed"
    <3>1. /\ stream'.kind = "store" /\ Moved' = n + 1 /\ stream'.start = stream.start
          /\ stream'.data[n + 1] = b /\ \A k \in 1..n : stream'.data[k] = stream.data[k]
          /\ a = OamAt(n) /\ Cells[n + 1] = OamIndex(a)
          /\ \A k \in 1..(n + 1) : /\ Cells'[k] = Cells[k]
                                   /\ Cells[k] \in 0..(LowTable + HighTable - 1)
          /\ stream.kind # "store" => n = 0
      BY <1>5, <2>1, <2>2, <2>3
    <3>2. \A waiting : Landed(Moved', Cells', waiting, oam', stream'.data)
                       <=> Landed(n + 1, Cells, waiting, oam', stream'.data)
      BY <3>1, <1>n DEF Landed
    <3>3. Landed(n, Cells, Waiting, oam, stream.data)
      <4>1. CASE stream.kind = "store"
        BY <1>2, <4>1 DEF StreamsInv, StoreInv, OamStream
      <4>2. CASE stream.kind # "store"
        <5>1. n = 0
          BY <3>1, <4>2
        <5>2. QED BY <5>1 DEF Landed
      <4>3. QED BY <4>1, <4>2
    <3>4. a % 2 = n % 2 /\ (n % 2 = 1 => a = OamAt(n - 1) + 1 /\ OamAt(n - 1) \in 0..(OamBits - 1))
      <4>1. n % 2 = 1 => n - 1 \in Nat
        BY <1>n
      <4>2. QED BY <1>2, <1>n, <3>1, <4>1, OamParity DEF OamStream
    <3>5. Waiting' = IF (n + 1) % 2 = 1 /\ a < LowTable THEN {n + 1} ELSE {}
      <4>1. Moved' - 1 = n
        BY <1>n, <3>1
      <4>2. OamAt(Moved - 1)' = a
        BY <3>1, <4>1 DEF OamAt
      <4>3. QED BY <1>3, <3>1, <4>2 DEF OamStream
    <3>6. Waiting = IF n % 2 = 1 /\ OamAt(n - 1) < LowTable THEN {n} ELSE {}
      BY <1>2 DEF OamStream
    <3>7. \A k \in 1..n : k \in 1..(n + 1)
      BY <1>n
    <3>8. DOMAIN oam = 0..(LowTable + HighTable - 1) /\ LowTable \in Nat \ {0} /\ HighTable \in Nat \ {0}
          /\ LowTable % 2 = 0
      <4>1. LowTable = Radix * 2 /\ Radix \in Nat
        BY OamSizes, Sizes1
      <4>2. QED BY <1>u, <4>1, OamSizes DEF OamOK
    <3> HIDE DEF n, a
    <3>9. Landed(n + 1, Cells, Waiting', oam', stream'.data)
      <4>1. CASE a >= LowTable
        <5>1. Waiting' = {} /\ Waiting = {}
          <6>1. ~(a < LowTable)
            BY <1>n, <3>8, <4>1
          <6>2. n % 2 = 1 => ~(OamAt(n - 1) < LowTable)
            BY <1>n, <3>4, <3>8, <4>1
          <6>3. QED BY <3>5, <3>6, <6>1, <6>2
        <5>2. oam' = [oam EXCEPT ![OamIndex(a)] = b]
          BY <2>1, <4>1
        <5>3. /\ oam'[Cells[n + 1]] = stream'.data[n + 1]
              /\ \A k \in 1..n : Cells[k] # Cells[n + 1] => oam'[Cells[k]] = oam[Cells[k]]
          <6>1. n + 1 \in 1..(n + 1)
            BY <1>n
          <6>2. QED BY <3>1, <3>7, <3>8, <5>2, <6>1
        <5>4. Landed(n + 1, Cells, {}, oam', stream'.data)
          BY <1>n, <3>1, <3>3, <5>1, <5>3, LandOne
        <5>5. QED BY <5>1, <5>4
      <4>2. CASE a < LowTable /\ n % 2 = 1
        <5>1. (n + 1) % 2 # 1 /\ n \in Nat \ {0} /\ OamAt(n - 1) < LowTable /\ ~(a >= LowTable)
              /\ a - 1 = OamAt(n - 1) /\ a - 1 \in 0..(LowTable - 1) /\ a \in 0..(LowTable - 1)
              /\ n - 1 \in Nat /\ (n - 1) + 1 = n
          BY <1>n, <3>4, <3>8, <4>2
        <5>2. Waiting' = {} /\ Waiting = {n}
          BY <3>5, <3>6, <4>2, <5>1
        <5>3. op.lsb = stream.data[n]
          <6>1. stream.kind = "store"
            BY <3>1, <5>1
          <6>2. QED BY <1>0, <4>2, <6>1 DEF OamStreamInv, n
        <5>4. oam' = [oam EXCEPT ![a - 1] = stream.data[n], ![a] = b]
          <6>1. a % 2 # 0 /\ a % 2 = 1
            BY <3>4, <4>2
          <6>2. KeepLsb(b) = stream.data[n]
            BY <5>3, <6>1 DEF KeepLsb, a
          <6>3. QED BY <2>1, <5>1, <6>1, <6>2
        <5>5. Cells[n + 1] = a /\ Cells[n] = a - 1
          <6>1. OamIndex(a) = a
            BY <4>2 DEF OamIndex
          <6>2. Cells[n] = OamIndex(OamAt(n - 1))
            BY <1>2, <5>1 DEF OamStream
          <6>3. OamIndex(OamAt(n - 1)) = OamAt(n - 1)
            BY <5>1 DEF OamIndex
          <6>4. QED BY <3>1, <5>1, <6>1, <6>2, <6>3
        <5>6. a - 1 # a /\ a \in DOMAIN oam /\ a - 1 \in DOMAIN oam
          BY <1>n, <3>8, <5>1
        <5>7. /\ oam'[Cells[n]] = stream'.data[n] /\ oam'[Cells[n + 1]] = stream'.data[n + 1]
              /\ \A k \in 1..n : Cells[k] # Cells[n] /\ Cells[k] # Cells[n + 1] =>
                                   oam'[Cells[k]] = oam[Cells[k]]
          <6>1. n \in 1..n
            BY <5>1
          <6>2. QED BY <3>1, <3>7, <3>8, <5>4, <5>5, <5>6, <6>1
        <5>8. Landed(n + 1, Cells, {}, oam', stream'.data)
          BY <3>1, <3>3, <5>1, <5>2, <5>7, LandTwo
        <5>9. QED BY <5>2, <5>8
      <4>3. CASE a < LowTable /\ n % 2 = 0
        <5>1. (n + 1) % 2 = 1 /\ n % 2 # 1 /\ a % 2 # 1 /\ ~(a >= LowTable)
          BY <1>n, <3>4, <3>8, <4>3
        <5>2. Waiting' = {n + 1} /\ Waiting = {} /\ oam' = oam
          BY <2>1, <3>5, <3>6, <4>3, <5>1
        <5>3. Landed(n + 1, Cells, {n + 1}, oam, stream'.data)
          BY <1>n, <3>1, <3>3, <5>2, LandWait
        <5>4. QED BY <5>2, <5>3
      <4>4. a >= LowTable \/ a < LowTable
        BY <1>n, <3>8
      <4>5. n % 2 = 0 \/ n % 2 = 1
        BY <1>n
      <4>6. QED BY <4>1, <4>2, <4>3, <4>4, <4>5
    <3>10. QED BY <1>3, <1>5, <2>1, <2>2, <3>1, <3>2, <3>9 DEF StoreInv, LoadInv, OamStream, n, a
  <2>4. QED BY <1>5, <1>6, <2>1, <2>2, <2>3
<1>9. op.addl \in Byte /\ op.addh \in Byte
  BY <1>u DEF OamOK
<1>10. QED BY <1>4, <1>7, <1>8, <1>9, StoredIsByte DEF OamAccess

-----------------------------------------------------------------------------
(* The streams of VRAM.                                                    *)

LEMMA Squared ==
  Square \in Nat \ {0} /\ Word = 0..(Square - 1) /\ Cardinality(Word) = Square
<1>1. Square \in Nat \ {0} /\ Word = 0..(Square - 1)
  BY Sizes1 DEF Square, Word
<1>2. Cardinality(0..(Square - 1)) = Square
  <2>1. 0 \in Int /\ Square - 1 \in Int /\ ~(0 > Square - 1) /\ Square - 1 - 0 + 1 = Square
    BY <1>1
  <2>2. QED BY <2>1, FS_Interval
<1>3. QED BY <1>1, <1>2

Step == Steps[vp.step]

\* The half of a word the byte after n of them is.
HalfAfter(n) == IF vp.late THEN n % 2 ELSE (n + 1) % 2

VramStream ==
  /\ Memory = vram /\ Waiting = {}
  /\ \A n \in Nat :
       /\ Cells[n + 1] = (2 * (stream.start + (n \div 2) * Step) + HalfAfter(n)) % Square
       /\ Cells[n + 1] \in Word

LEMMA VramTypes ==
  ASSUME VramOK
  PROVE  /\ vp.addr \in Word /\ vp.addr \in Nat /\ vp.late \in BOOLEAN /\ Step \in Nat
         /\ vp.prefetch.lo \in Byte /\ vp.prefetch.hi \in Byte
<1>1. vp.addr \in Word /\ vp.late \in BOOLEAN /\ vp.step \in 0..3 /\ vp.prefetch \in Halves
  BY DEF VramOK
<1>2. vp.addr \in Nat
  BY <1>1, Squared
<1>3. QED BY <1>1, <1>2, PortsAssumption DEF Step, Halves

LEMMA VramCells == TypeOK /\ uses = "vram" => VramStream
<1> SUFFICES ASSUME TypeOK, uses = "vram" PROVE VramStream
  OBVIOUS
<1>1. Memory = vram /\ Waiting = {}
  BY DEF Memory, Waiting, Waits
<1>2. ASSUME NEW n \in Nat
      PROVE  /\ Cells[n + 1] = (2 * (stream.start + (n \div 2) * Step) + HalfAfter(n)) % Square
             /\ Cells[n + 1] \in Word
  <2>0. (n + 1) - 1 = n /\ n + 1 \in Nat /\ n \div 2 \in Nat /\ HalfAfter(n) \in Nat
    BY DEF HalfAfter
  <2>1. Cells[n + 1] = Cell(n + 1)
    BY <2>0 DEF Cells
  <2>2. Cell(n + 1) = (2 * (stream.start + (n \div 2) * Step) + HalfAfter(n)) % Square
    BY <2>0, Squared DEF Cell, HalfAfter, Step
  <2> DEFINE p == (n \div 2) * Step
             m == 2 * (stream.start + p) + HalfAfter(n)
  <2>3. p \in Nat
    BY <2>0, VramTypes, Product DEF TypeOK
  <2> HIDE DEF p
  <2>4. m \in Nat
    BY <2>0, <2>3, MovedIs DEF TypeOK
  <2> HIDE DEF m
  <2>5. m % Square \in Word
    BY <2>4, Squared, Division
  <2>6. QED BY <2>1, <2>2, <2>5 DEF m, p
<1>3. QED BY <1>1, <1>2 DEF VramStream

\* A store in turn is to the half that comes next, and counts after the second.
LEMMA VramInTurn ==
  ASSUME VramOK, StreamOK, NEW port \in {"low", "high"}, VramTurn(port)
  PROVE  /\ Half(port) = HalfAfter(Moved)
         /\ VramInc(vp, port) = IF Moved % 2 = 1 THEN Step ELSE 0
<1> DEFINE late == vp.late
           n == Moved
<1>1. late \in BOOLEAN /\ n \in Nat
  BY VramTypes, MovedIs
<1>2. /\ VramTurn(port) <=> ((n % 2 = 0) = (port = IF late THEN "low" ELSE "high"))
      /\ HalfAfter(n) = IF late THEN n % 2 ELSE (n + 1) % 2
      /\ VramInc(vp, port) = IF late = (port = "high") THEN Step ELSE 0
  BY DEF VramTurn, HalfAfter, VramInc, Step, Moved
<1> HIDE DEF late, n
<1>3. n % 2 \in 0..1 /\ (n % 2 = 0 => (n + 1) % 2 = 1) /\ (n % 2 = 1 => (n + 1) % 2 = 0)
  BY <1>1, Halve
<1>4. CASE n % 2 = 0
  <2>1. port = IF late THEN "low" ELSE "high"
    BY <1>2, <1>4
  <2>2. QED BY <1>1, <1>2, <1>3, <1>4, <2>1 DEF Half, n
<1>5. CASE n % 2 = 1
  <2>1. n % 2 # 0
    BY <1>5
  <2>2. port # IF late THEN "low" ELSE "high"
    BY <1>2, <2>1
  <2>3. QED BY <1>1, <1>2, <1>3, <1>5, <2>2 DEF Half, n
<1>6. QED BY <1>3, <1>4, <1>5

\* The address of a stream that restarts.
LEMMA VramRestarts ==
  ASSUME TypeOK, TypeOK', uses' = "vram", Restart(vp'.addr)
  PROVE  StreamsInv'
<1>1. VramOK' /\ vp'.addr \in Word
  BY DEF TypeOK, VramOK
<1>2. vp'.addr \in 0..(Square - 1) /\ vp'.addr \in Nat
  BY <1>1, Squared
<1>3. stream'.kind = "none" /\ stream'.start = vp'.addr /\ stream'.data = <<>> /\ Moved' = 0
  BY <1>2, RestartIs DEF Moved, TypeOK
<1>4. Step' \in Nat
  <2>1. vp'.step \in 0..3
    BY <1>1 DEF VramOK
  <2>2. QED BY <2>1, PortsAssumption DEF Step
<1>5. vp'.addr = (vp'.addr + 0) % Square
  BY <1>2, Squared, SmallRemainder
<1>6. (0 \div 2) * Step' = 0 /\ 0 * Step' = 0
  <2>1. 0 \div 2 = 0 /\ \A m \in Nat : 0 * m = 0
    OBVIOUS
  <2>2. QED BY <1>4, <2>1
<1>7. VramStreamInv'
  BY <1>3, <1>5, <1>6 DEF VramStreamInv, Step, Square
<1>8. StoreInv' /\ LoadInv' /\ HalfLoadInv'
  BY <1>3 DEF StoreInv, LoadInv, HalfLoadInv
<1>9. QED BY <1>3, <1>7, <1>8
          DEF StreamsInv, StreamInv, OamStreamInv, CgramStreamInv, WramStreamInv

LEMMA VramStreams ==
  ASSUME TypeOK, TypeOK', StreamsInv, uses = "vram", VramAccess PROVE StreamsInv'
<1>u. uses' = "vram" /\ VramOK' /\ StreamOK' /\ StreamOK /\ VramOK
  BY DEF VramAccess, StoreVmain, StoreVmadd, StoreVram, LoadVram, NotByVram, TypeOK
<1>0. VramStreamInv /\ HalfLoadInv /\ (stream.kind = "none" => stream.data = <<>>)
  BY DEF StreamsInv, StreamInv
<1>2. VramStream
  BY VramCells
<1>3. VramStream'
  <2>1. (TypeOK /\ uses = "vram")'
    BY <1>u
  <2>2. QED BY <2>1, VramCells, PTL
<1> DEFINE n == Moved
           start == stream.start
<1>n. n \in Nat /\ start \in Nat /\ Step \in Nat /\ Square \in Nat \ {0}
  BY <1>u, MovedIs, VramTypes, Squared
<1>m. stream'.kind = "mixed" /\ stream'.data = <<>> => StreamsInv'
  BY <1>u DEF StreamsInv, StreamInv, OamStreamInv, CgramStreamInv, WramStreamInv, VramStreamInv,
              StoreInv, LoadInv, HalfLoadInv
<1>z. stream.kind = "none" => n = 0
  BY <1>0, NoBytes DEF Moved
<1>4. ASSUME NEW mode \in Modes, StoreVmain(mode[1], mode[2]) PROVE StreamsInv'
  <2>1. Restart(vp.addr) /\ vp' = [vp EXCEPT !.late = mode[1], !.step = mode[2]]
    BY <1>4 DEF StoreVmain
  <2>2. vp'.addr = vp.addr
    BY <1>u, <2>1 DEF VramOK
  <2>3. QED BY <1>u, <2>1, <2>2, VramRestarts
<1>5. ASSUME NEW port \in {"low", "high"}, NEW b \in Byte, StoreVmadd(port, b) PROVE StreamsInv'
  <2>1. PICK addr : vp' = [vp EXCEPT !.addr = addr] /\ Restart(addr)
    BY <1>5 DEF StoreVmadd
  <2>2. vp'.addr = addr
    BY <1>u, <2>1 DEF VramOK
  <2>3. QED BY <1>u, <2>1, <2>2, VramRestarts
<1>6. ASSUME NEW port \in {"low", "high"}, NEW b \in Byte, StoreVram(port, b) PROVE StreamsInv'
  <2>1. /\ vram' = [vram EXCEPT ![VramIndex(vp.addr, Half(port))] = b]
        /\ vp' = [vp EXCEPT !.addr = (vp.addr + VramInc(vp, port)) % Square]
        /\ Extend("store", VramTurn(port), b)
    BY <1>6 DEF StoreVram, Square
  <2>2. CASE stream.kind \in {"none", "store"} /\ VramTurn(port) /\ Longer("store", b)
    <3>1. /\ stream'.kind = "store" /\ Moved' = n + 1 /\ stream'.start = start
          /\ stream'.data[n + 1] = b /\ \A k \in 1..n : stream'.data[k] = stream.data[k]
      BY <2>2 DEF Longer, Moved
    <3>2. vp'.late = vp.late /\ vp'.step = vp.step /\ Step' = Step
          /\ vp'.addr = (vp.addr + VramInc(vp, port)) % Square
      BY <1>u, <2>1 DEF VramOK, Step
    <3>3. Half(port) = HalfAfter(n) /\ VramInc(vp, port) = IF n % 2 = 1 THEN Step ELSE 0
      BY <1>u, <2>2, VramInTurn
    <3> DEFINE s == start + (n \div 2) * Step
               inc == VramInc(vp, port)
    <3>4. s \in Nat /\ inc \in Nat /\ HalfAfter(n) \in Nat
      <4>1. n \div 2 \in Nat
        BY <1>n
      <4>2. (n \div 2) * Step \in Nat
        BY <1>n, <4>1, Product
      <4>3. inc \in Nat
        BY <1>n, <3>3
      <4>4. HalfAfter(n) \in Nat
        BY <1>n DEF HalfAfter
      <4>5. QED BY <1>n, <4>2, <4>3, <4>4
    <3>5. vp.addr = s % Square
      BY <1>0, <1>u, <2>2 DEF VramStreamInv, Step
    <3>6. s + inc = start + ((n + 1) \div 2) * Step
      <4> DEFINE h == n \div 2
      <4>1. h \in Nat /\ n % 2 \in 0..1 /\ (n % 2 = 0 => (n + 1) \div 2 = h)
            /\ (n % 2 = 1 => (n + 1) \div 2 = h + 1)
        BY <1>n, Halve
      <4>2. (h + 1) * Step = h * Step + Step /\ h * Step \in Nat
        BY <1>n, <4>1
      <4>3. s = start + h * Step
        OBVIOUS
      <4> HIDE DEF h, s, inc
      <4>4. CASE n % 2 = 0
        <5>1. inc = 0 /\ (n + 1) \div 2 = h
          BY <3>3, <4>1, <4>4 DEF inc
        <5>2. QED BY <3>4, <4>3, <5>1
      <4>5. CASE n % 2 = 1
        <5>1. inc = Step /\ (n + 1) \div 2 = h + 1
          BY <3>3, <4>1, <4>5 DEF inc
        <5>2. QED BY <1>n, <4>2, <4>3, <5>1
      <4>6. QED BY <4>1, <4>4, <4>5
    <3>7. vp'.addr = (stream'.start + (Moved' \div 2) * Step') % Square
      <4> HIDE DEF s, inc
      <4>1. ((s % Square) + inc) % Square = (s + inc) % Square
        BY <1>n, <3>4, AddRemainder
      <4>2. vp'.addr = ((s % Square) + inc) % Square
        BY <3>2, <3>5 DEF inc
      <4>3. QED BY <3>1, <3>2, <3>6, <4>1, <4>2
    <3>8. Cells[n + 1] = VramIndex(vp.addr, Half(port))
      <4> DEFINE half == HalfAfter(n)
      <4>1. Cells[n + 1] = (2 * s + half) % Square
        BY <1>2, <1>n DEF VramStream
      <4>2. VramIndex(vp.addr, Half(port)) = ((s % Square) * 2 + half) % Square
        BY <3>3, <3>5 DEF VramIndex, Square
      <4> HIDE DEF s, half
      <4>3. ((s % Square) * 2 + half) % Square = (2 * s + half) % Square
        BY <1>n, <3>4, DoubleRemainder DEF half
      <4>4. QED BY <4>1, <4>2, <4>3
    <3>9. \A k \in 1..(n + 1) : Cells'[k] = Cells[k] /\ Cells[k] \in Word
      <4>1. \A m \in Nat : Cells'[m + 1] = Cells[m + 1] /\ Cells[m + 1] \in Word
        <5>1. \A m \in Nat : HalfAfter(m)' = HalfAfter(m)
          BY <3>2 DEF HalfAfter
        <5>2. QED BY <1>2, <1>3, <3>1, <3>2, <5>1 DEF VramStream, Square
      <4>2. \A k \in 1..(n + 1) : k - 1 \in Nat /\ (k - 1) + 1 = k
        BY <1>n
      <4>3. QED BY <4>1, <4>2
    <3>10. Landed(n, Cells, {}, vram, stream.data)
      <4>1. CASE stream.kind = "store"
        BY <1>2, <4>1 DEF StreamsInv, StoreInv, VramStream
      <4>2. CASE stream.kind = "none"
        BY <1>z, <4>2, NothingLanded
      <4>3. QED BY <2>2, <4>1, <4>2
    <3>11. /\ vram'[Cells[n + 1]] = stream'.data[n + 1]
           /\ \A k \in 1..n : Cells[k] # Cells[n + 1] => vram'[Cells[k]] = vram[Cells[k]]
      <4>1. n + 1 \in 1..(n + 1) /\ \A k \in 1..n : k \in 1..(n + 1)
        BY <1>n
      <4>2. DOMAIN vram = Word
        BY <1>u DEF VramOK
      <4>3. \A k \in 1..(n + 1) : Cells[k] \in DOMAIN vram
        BY <3>9, <4>2
      <4>4. vram' = [vram EXCEPT ![Cells[n + 1]] = b] /\ stream'.data[n + 1] = b
        BY <2>1, <3>1, <3>8
      <4> HIDE DEF n
      <4>5. QED BY <4>1, <4>3, <4>4
    <3>12. Landed(n + 1, Cells, {}, vram', stream'.data)
      <4>1. n \in Nat
        BY <1>n
      <4>2. \A k \in 1..n : stream'.data[k] = stream.data[k]
        BY <3>1
      <4> HIDE DEF n
      <4>3. QED BY <3>10, <3>11, <4>1, <4>2, LandOne
    <3>13. Landed(Moved', Cells', {}, vram', stream'.data)
      BY <3>1, <3>9, <3>12 DEF Landed
    <3>14. VramStreamInv'
      BY <3>1, <3>7 DEF VramStreamInv, Step, Square
    <3>15. StoreInv' /\ LoadInv' /\ HalfLoadInv'
      BY <1>3, <3>1, <3>13 DEF StoreInv, LoadInv, HalfLoadInv, VramStream
    <3>16. QED BY <1>u, <3>1, <3>14, <3>15
               DEF StreamsInv, StreamInv, OamStreamInv, CgramStreamInv, WramStreamInv
  <2>3. QED BY <1>m, <1>u, <2>1, <2>2, ExtendIs
<1>7. ASSUME NEW port \in {"low", "high"}, LoadVram(port) PROVE StreamsInv'
  <2> DEFINE b == IF port = "low" THEN vp.prefetch.lo ELSE vp.prefetch.hi
             inc == VramLoadInc(vp)
  <2>1. /\ vram' = vram /\ Extend(port, TRUE, b)
        /\ vp' = IF inc = 0 THEN vp
                 ELSE [vp EXCEPT !.prefetch = VramAt(vp.addr), !.addr = (vp.addr + inc) % Square]
    BY <1>7 DEF LoadVram, Square
  <2>b. b \in Byte
    BY <1>u, VramTypes
  <2>2. CASE stream.kind \in {"none", port} /\ Longer(port, b)
    <3>1. /\ stream'.kind = port /\ Moved' = n + 1 /\ stream'.start = start
          /\ stream'.data[n + 1] = b /\ \A k \in 1..n : stream'.data[k] = stream.data[k]
      BY <2>2 DEF Longer, Moved
    <3>2. vp'.late = vp.late /\ vp'.step = vp.step /\ Step' = Step
      BY <1>u, <2>1 DEF VramOK, Step
    <3>3. vp.late => /\ vp.addr = (start + n * Step) % Square
                     /\ inc = Step
      BY <1>0, <1>u, <2>2 DEF VramStreamInv, Step, VramLoadInc
    <3>4. /\ (n + 1) * Step = n * Step + Step /\ n * Step \in Nat
      BY <1>n
    <3>5. vp.late => vp'.addr = (start + (n + 1) * Step) % Square
      <4> SUFFICES ASSUME vp.late PROVE vp'.addr = (start + (n + 1) * Step) % Square
        OBVIOUS
      <4> DEFINE s == start + n * Step
      <4>1. s \in Nat /\ start + (n + 1) * Step = s + Step
        BY <1>n, <3>4
      <4>2. vp.addr = s % Square
        BY <3>3
      <4> HIDE DEF s
      <4>3. CASE Step = 0
        <5>1. vp' = vp /\ s + Step = s
          BY <2>1, <3>3, <4>1, <4>3
        <5>2. QED BY <4>1, <4>2, <5>1
      <4>4. CASE Step # 0
        <5>1. vp'.addr = (vp.addr + Step) % Square
          BY <1>u, <2>1, <3>3, <4>4 DEF VramOK
        <5>2. ((s % Square) + Step) % Square = (s + Step) % Square
          BY <1>n, <4>1, AddRemainder
        <5>3. QED BY <4>1, <4>2, <5>1, <5>2
      <4>5. QED BY <4>3, <4>4
    <3> DEFINE c == (start + n * Step) % Square
    <3>6. vp.late /\ Step # 0 =>
            vp'.prefetch = [lo |-> vram'[VramIndex(c, 0)], hi |-> vram'[VramIndex(c, 1)]]
      <4> SUFFICES ASSUME vp.late, Step # 0
                   PROVE  vp'.prefetch = [lo |-> vram'[VramIndex(c, 0)], hi |-> vram'[VramIndex(c, 1)]]
        OBVIOUS
      <4>1. vp'.prefetch = VramAt(vp.addr)
        BY <1>u, <2>1, <3>3 DEF VramOK
      <4>2. QED BY <2>1, <3>3, <4>1 DEF VramAt
    <3>7. VramStreamInv'
      <4>1. Moved' - 1 = n /\ stream'.kind # "load" /\ stream'.kind \notin {"none", "store"}
        BY <1>n, <3>1
      <4>2. vp'.late => vp'.addr = (stream'.start + Moved' * Step') % Square
        BY <3>1, <3>2, <3>5
      <4>3. (vp'.late /\ Step' # 0 => vp'.prefetch = VramAt((stream.start + (Moved - 1) * Step) % Square)')
        <5>1. c = (stream'.start + (Moved' - 1) * Step') % Square
          BY <3>1, <3>2, <4>1
        <5>2. QED BY <3>2, <3>6, <5>1 DEF VramAt, VramIndex, Square
      <4>4. QED BY <4>1, <4>2, <4>3 DEF VramStreamInv, Step, Square
    <3>8. HalfLoadInv'
      <4> SUFFICES ASSUME vp.late, Step # 0, NEW k \in 2..(n + 1)
                   PROVE  stream'.data[k] = vram[(2 * (start + (k - 2) * Step) + Half(port)) % Square]
        BY <2>1, <3>1, <3>2 DEF HalfLoadInv, Step, Square, Half
      <4>1. n \in Nat \ {0} /\ stream.kind = port
        BY <1>n, <1>z, <2>2
      <4>2. CASE k \in 2..n
        <5>1. stream.data[k] = vram[(2 * (start + (k - 2) * Step) + Half(port)) % Square]
          BY <1>0, <4>1, <4>2 DEF HalfLoadInv, Step
        <5>2. k \in 1..n
          BY <4>2
        <5>3. QED BY <3>1, <5>1, <5>2
      <4>3. CASE k = n + 1
        <5> DEFINE d == start + (n - 1) * Step
        <5>1. d \in Nat /\ k - 2 = n - 1
          <6>1. n - 1 \in Nat /\ k - 2 = n - 1
            BY <4>1, <4>3
          <6>2. (n - 1) * Step \in Nat
            BY <1>n, <6>1, Product
          <6>3. QED BY <1>n, <6>1, <6>2
        <5>2. vp.prefetch = VramAt(d % Square)
          BY <1>0, <4>1 DEF VramStreamInv, Step
        <5>3. b = vram[VramIndex(d % Square, Half(port))]
          BY <5>2 DEF VramAt, Half
        <5>4. VramIndex(d % Square, Half(port)) = ((d % Square) * 2 + Half(port)) % Square
          BY DEF VramIndex, Square
        <5>5. stream'.data[k] = b /\ (2 * (start + (k - 2) * Step) + Half(port)) % Square
                                       = (2 * d + Half(port)) % Square
          BY <3>1, <4>3, <5>1
        <5> HIDE DEF d, b
        <5>6. ((d % Square) * 2 + Half(port)) % Square = (2 * d + Half(port)) % Square
          BY <1>n, <5>1, DoubleRemainder DEF Half
        <5>7. QED BY <5>3, <5>4, <5>5, <5>6
      <4>4. k \in 2..n \/ k = n + 1
        BY <1>n
      <4>5. QED BY <4>2, <4>3, <4>4
    <3>9. StoreInv' /\ LoadInv'
      BY <3>1 DEF StoreInv, LoadInv
    <3>10. QED BY <1>u, <3>1, <3>7, <3>8, <3>9
               DEF StreamsInv, StreamInv, OamStreamInv, CgramStreamInv, WramStreamInv
  <2>3. QED BY <1>m, <1>u, <2>b, <2>1, <2>2, ExtendIs
<1>8. QED BY <1>4, <1>5, <1>6, <1>7, StoredIsByte DEF VramAccess

-----------------------------------------------------------------------------
(* The streams of all.                                                     *)

LEMMA StreamsInit == Init => StreamsInv
<1> SUFFICES ASSUME Init PROVE StreamsInv
  OBVIOUS
<1>1. stream.kind = "none" /\ stream.start = 0 /\ stream.data = <<>> /\ Moved = 0
  BY NoBytes DEF Init, Moved
<1>2. StoreInv /\ LoadInv /\ HalfLoadInv
  BY <1>1, NoStream
<1>3. \A d \in Nat \ {0} : (0 + 0) % d = 0
  <2>1. \A d \in Nat \ {0} : 0 \in 0..(d - 1)
    OBVIOUS
  <2>2. QED BY <2>1, SmallRemainder
<1>4. 0 \div 2 = 0 /\ 0 % 2 = 0 /\ \A m \in Nat : 0 * m = 0
  OBVIOUS
<1>5. VramStreamInv
  <2>1. vp.addr = 0 /\ Step \in Nat
    BY PortsAssumption DEF Init, Step
  <2>2. QED BY <1>1, <1>3, <1>4, <2>1, Squared DEF VramStreamInv, Step
<1>6. OamStreamInv
  BY <1>1, <1>3, <1>4, OamSizes DEF Init, OamStreamInv
<1>7. CgramStreamInv /\ WramStreamInv
  <2>1. (0 + 0) % Radix = 0 /\ (0 + 0) % WramSize = 0
    BY <1>3, Sizes1
  <2>2. cp.add = 0 /\ cp.low = NONE /\ wmadd = 0
    BY DEF Init
  <2>3. CgramStreamInv
    BY <1>1, <1>4, <2>1, <2>2 DEF CgramStreamInv
  <2>4. WramStreamInv
    BY <1>1, <2>1, <2>2 DEF WramStreamInv
  <2>5. QED BY <2>3, <2>4
<1>8. QED BY <1>1, <1>2, <1>5, <1>6, <1>7 DEF StreamsInv, StreamInv, Init

LEMMA StreamsSame ==
  ASSUME StreamsInv, UNCHANGED <<uses, vramVars, oamVars, cgramVars, wramVars, stream>>
  PROVE  StreamsInv'
<1>1. /\ uses' = uses /\ stream' = stream /\ vram' = vram /\ vp' = vp /\ oam' = oam /\ op' = op
      /\ cgram' = cgram /\ cp' = cp /\ wram' = wram /\ wmadd' = wmadd
  BY DEF vramVars, oamVars, cgramVars, wramVars
<1>2. StreamInv'
  BY <1>1 DEF StreamsInv, StreamInv, VramStreamInv, OamStreamInv, CgramStreamInv, WramStreamInv,
              Moved, VramAt
<1>3. Cells' = Cells /\ Waiting' = Waiting /\ Memory' = Memory /\ Moved' = Moved
  BY <1>1 DEF Cells, Cell, Waiting, Waits, Memory, Moved
<1>4. StoreInv' /\ LoadInv' /\ HalfLoadInv'
  BY <1>1, <1>3 DEF StreamsInv, StoreInv, LoadInv, HalfLoadInv
<1>5. QED BY <1>2, <1>4 DEF StreamsInv

LEMMA StreamsStep == TypeOK /\ TypeOK' /\ StreamsInv /\ [Next]_vars => StreamsInv'
<1> SUFFICES ASSUME TypeOK, TypeOK', StreamsInv, [Next]_vars PROVE StreamsInv'
  OBVIOUS
<1>1. CASE VramAccess
  <2>1. uses = "vram"
    BY <1>1 DEF VramAccess, StoreVmain, StoreVmadd, StoreVram, LoadVram
  <2>2. QED BY <1>1, <2>1, VramStreams
<1>2. CASE OamAccess
  <2>1. uses = "oam"
    BY <1>2 DEF OamAccess, StoreOamadd, StoreOam, LoadOam
  <2>2. QED BY <1>2, <2>1, OamStreams
<1>3. CASE CgramAccess
  <2>1. uses = "cgram"
    BY <1>3 DEF CgramAccess, StoreCgadd, StoreCgram
  <2>2. QED BY <1>3, <2>1, CgramStreams
<1>4. CASE WramAccess
  <2>1. uses = "wram"
    BY <1>4 DEF WramAccess, StoreWmadd, StoreWram, LoadWram
  <2>2. QED BY <1>4, <2>1, WramStreams
<1>5. CASE TwiceAccess
  BY <1>5, GroupsApart, StreamsSame DEF NotByTwice
<1>6. CASE CounterAccess \/ Advance
  BY <1>6, GroupsApart, StreamsSame DEF NotByCounters
<1>7. CASE UNCHANGED vars
  BY <1>7, StreamsSame DEF vars
<1>8. QED BY <1>1, <1>2, <1>3, <1>4, <1>5, <1>6, <1>7 DEF Next

LEMMA StreamsInvAlways == Spec => [](TypeOK /\ StreamsInv)
<1>1. IInv => TypeOK
  BY DEF IInv
<1>2. QED BY <1>1, InvAlways, StreamsInit, StreamsStep, PTL DEF Spec

\* What is stored in sequence lies in consecutive cells from the address set,
\* however the ports count, wrap and mirror, for any width of a byte, any
\* sizes of the memories and any increments (stores to $2118, $2119, $2104,
\* $2122 and $2180).
THEOREM StoredStreamsLand == Spec => []StreamsLand
<1>1. TypeOK /\ StreamsInv => StreamsLand
  <2> SUFFICES ASSUME TypeOK, StreamsInv, stream.kind = "store", NEW k \in 1..Len(stream.data)
               PROVE  \/ Waits(k)
                      \/ \E l \in (k + 1)..Len(stream.data) : Cell(l) = Cell(k) /\ ~Waits(l)
                      \/ Memory[Cell(k)] = stream.data[k]
    BY DEF StreamsLand
  <2>1. Moved \in Nat /\ Moved = Len(stream.data)
    BY MovedIs DEF TypeOK, Moved
  <2>2. \A l \in 1..Moved : Cells[l] = Cell(l) /\ (l \in Waiting <=> Waits(l))
    <3>1. \A l \in 1..Moved : l \in Nat
      BY <2>1
    <3>2. QED BY <3>1 DEF Cells, Waiting
  <2>3. Landed(Moved, Cells, Waiting, Memory, stream.data)
    BY DEF StreamsInv, StoreInv
  <2>4. \A l \in (k + 1)..Moved : l \in 1..Moved
    BY <2>1
  <2>5. QED BY <2>1, <2>2, <2>3, <2>4 DEF Landed
<1>2. QED BY <1>1, StreamsInvAlways, PTL

\* What is loaded in sequence are consecutive cells from the address set; of
\* VRAM, where a load gives the word fetched before, from the second load on
\* (loads of $2139, $213a, $2138 and $2180).
THEOREM LoadedStreamsInOrder == Spec => []LoadsInOrder
<1>1. TypeOK /\ StreamsInv => LoadsInOrder
  <2> SUFFICES ASSUME TypeOK, StreamsInv PROVE LoadsInOrder
    OBVIOUS
  <2>1. Moved \in Nat /\ Moved = Len(stream.data)
    BY MovedIs DEF TypeOK, Moved
  <2>2. stream.kind = "load" => \A k \in 1..Len(stream.data) : stream.data[k] = Memory[Cell(k)]
    <3>1. \A k \in 1..Moved : Cells[k] = Cell(k)
      <4>1. \A k \in 1..Moved : k \in Nat
        BY <2>1
      <4>2. QED BY <4>1 DEF Cells
    <3>2. QED BY <2>1, <3>1 DEF StreamsInv, LoadInv, Held
  <2>3. HalfLoadInv
    BY DEF StreamsInv
  <2>4. QED BY <2>1, <2>2, <2>3, Squared DEF LoadsInOrder, HalfLoadInv
<1>2. QED BY <1>1, StreamsInvAlways, PTL

-----------------------------------------------------------------------------
(* The lines of the backgrounds: the invariant.                            *)

PositionInv == x \in 0..(Dots - 1) /\ line \in 0..(Lines - 1)

\* A cached line has a dot for each of the screen's.
ShapeInv ==
  /\ cache = [bg \in Bgs |-> [valid |-> cache[bg].valid, row |-> cache[bg].row]]
  /\ \A bg \in Bgs : /\ cache[bg].valid \in BOOLEAN
                     /\ cache[bg].row = [i \in 0..(Width - 1) |-> cache[bg].row[i]]

\* From the first lookup at the first dot on, what is valid is of this line.
FreshInv ==
  begun => /\ x # 0
           /\ \A bg \in Bgs : cache[bg].valid =>
                \A i \in 0..(Width - 1) : i >= x => cache[bg].row[i].now = TRUE

ShownInv == begun /\ shown.layer \in Bgs => shown.pix.now = TRUE

RenderInv == PositionInv /\ ShapeInv /\ FreshInv /\ ShownInv

-----------------------------------------------------------------------------
(* The position.                                                           *)

LEMMA Wraps ==
  ASSUME NEW n \in Nat \ {0}, NEW a \in 0..(n - 1)
  PROVE  /\ (a + 1) % n \in 0..(n - 1)
         /\ a + 1 # n => (a + 1) % n = a + 1
         /\ a + 1 = n => (a + 1) % n = 0
OBVIOUS

LEMMA RenderSizes == Dots \in Nat \ {0} /\ Lines \in Nat \ {0} /\ Lines > 2 /\ Width \in Nat \ {0} /\ Width < Dots
BY RenderAssumption, SpritesAssumption, ScreenAssumption

LEMMA UpdatePosition ==
  ASSUME PositionInv, Update
  PROVE  /\ PositionInv'
         /\ x + 1 # Dots => x' = x + 1 /\ line' = line
         /\ x + 1 = Dots => x' = 0 /\ line' # line
<1>1. x \in 0..(Dots - 1) /\ line \in 0..(Lines - 1)
  BY DEF PositionInv
<1>2. x' = (x + 1) % Dots /\ line' = IF x + 1 = Dots THEN (line + 1) % Lines ELSE line
  BY DEF Update, NextDot, NextLine
<1>3. /\ x' \in 0..(Dots - 1)
      /\ x + 1 # Dots => x' = x + 1
      /\ x + 1 = Dots => x' = 0
  BY <1>1, <1>2, Wraps, RenderSizes
<1>4. line' \in 0..(Lines - 1) /\ (x + 1 = Dots => line' # line)
  <2>1. /\ (line + 1) % Lines \in 0..(Lines - 1)
        /\ line + 1 # Lines => (line + 1) % Lines = line + 1
        /\ line + 1 = Lines => (line + 1) % Lines = 0
    BY <1>1, Wraps, RenderSizes
  <2>2. QED BY <1>1, <1>2, <2>1, RenderSizes
<1>5. QED BY <1>2, <1>3, <1>4 DEF PositionInv

-----------------------------------------------------------------------------
(* A dot.                                                                  *)

\* The last background looked up is one of those looked up.
LEMMA LastIsLookedUp ==
  ASSUME NEW sprites PROVE Draw(sprites).last \subseteq Draw(sprites).looked
<1>1. ASSUME NEW on, NEW masks
      PROVE  RawPixel(sprites, on, masks).last \subseteq RawPixel(sprites, on, masks).looked
  BY DEF RawPixel
<1>2. QED BY <1>1 DEF Draw

LEMMA CacheShape ==
  ASSUME ShapeInv, NEW looked, NEW last, cache' = CacheAfter(looked, last)
  PROVE  ShapeInv'
<1> DEFINE Row(bg) == [i \in 0..(Width - 1) |-> IF bg \in Rendered(looked) /\ i >= x
                                                THEN Fresh(bg) ELSE cache[bg].row[i]]
<1>1. cache' = [bg \in Bgs |-> [valid |-> bg \in ValidAfter(looked, last), row |-> Row(bg)]]
  BY Zenon DEF CacheAfter
<1>2. ASSUME NEW bg \in Bgs
      PROVE  /\ cache'[bg] = [valid |-> bg \in ValidAfter(looked, last), row |-> Row(bg)]
             /\ cache'[bg].valid \in BOOLEAN
             /\ cache'[bg].row = Row(bg)
             /\ Row(bg) = [i \in 0..(Width - 1) |-> Row(bg)[i]]
  <2> DEFINE v == bg \in ValidAfter(looked, last)
             r == Row(bg)
  <2>1. cache'[bg] = [valid |-> v, row |-> r]
    BY <1>1, Zenon
  <2>2. r = [i \in 0..(Width - 1) |-> r[i]] /\ v \in BOOLEAN
    OBVIOUS
  <2> HIDE DEF v, r
  <2>3. cache'[bg].valid = v /\ cache'[bg].row = r
    BY <2>1
  <2>4. QED BY <2>1, <2>2, <2>3 DEF v, r
<1> HIDE DEF Row
<1>3. cache' = [bg \in Bgs |-> [valid |-> cache'[bg].valid, row |-> cache'[bg].row]]
  BY <1>1
<1>4. QED BY <1>2, <1>3 DEF ShapeInv

\* What is rendered is of this line, what is kept is what it was.
LEMMA CacheRows ==
  ASSUME NEW looked, NEW last, cache' = CacheAfter(looked, last), NEW bg \in Bgs,
         NEW i \in 0..(Width - 1)
  PROVE  /\ cache'[bg].valid <=> bg \in ValidAfter(looked, last)
         /\ bg \in Rendered(looked) /\ i >= x => cache'[bg].row[i].now = TRUE
         /\ bg \notin Rendered(looked) => cache'[bg].row[i] = cache[bg].row[i]
BY DEF CacheAfter, Fresh

\* A dot that is drawn leaves the invariant about the lines true.
LEMMA DrawnFresh ==
  ASSUME RenderInv, NEW looked, NEW last \in SUBSET looked, cache' = CacheAfter(looked, last),
         begun' = (begun \/ (x = 0 /\ looked # {})), x' = x + 1
  PROVE  FreshInv'
<1>1. x \in Nat /\ x' # 0
  BY RenderSizes DEF RenderInv, PositionInv
<1>2. ASSUME begun', NEW bg \in Bgs, cache'[bg].valid, NEW i \in 0..(Width - 1), i >= x'
      PROVE  cache'[bg].row[i].now = TRUE
  <2>1. i >= x /\ bg \in ValidAfter(looked, last)
    <3>1. cache'[bg].valid <=> bg \in ValidAfter(looked, last)
      BY CacheRows
    <3>2. i >= x
      BY <1>1, <1>2
    <3>3. QED BY <1>2, <3>1, <3>2, Zenon
  <2>2. CASE x = 0
    <3>1. looked # {}
      BY <1>2, <2>2 DEF RenderInv, FreshInv
    <3>2. bg \in looked
      BY <2>1, <2>2, <3>1 DEF ValidAfter
    <3>3. QED BY <2>1, <2>2, <3>2, CacheRows DEF Rendered
  <2>3. CASE x # 0 /\ bg \in Rendered(looked)
    BY <2>1, <2>3, CacheRows
  <2>4. CASE x # 0 /\ bg \notin Rendered(looked)
    <3>1. cache[bg].valid
      BY <2>1, <2>4 DEF ValidAfter, Rendered
    <3>2. cache[bg].row[i].now = TRUE
      BY <1>2, <2>1, <2>4, <3>1 DEF RenderInv, FreshInv
    <3>3. QED BY <2>4, <3>2, CacheRows
  <2>5. QED BY <2>2, <2>3, <2>4
<1>3. QED BY <1>1, <1>2 DEF FreshInv

\* A background that is looked up shows a dot of this line, once begun.
LEMMA PixelNow ==
  ASSUME RenderInv, NEW bg \in Bgs, begun \/ x = 0, x < Width
  PROVE  Pixel(bg).now = TRUE
<1>1. x \in 0..(Width - 1) /\ x >= x
  BY RenderSizes DEF RenderInv, PositionInv
<1>2. CASE x = 0 \/ ~cache[bg].valid
  BY <1>2 DEF Pixel, Fresh
<1>3. CASE ~(x = 0 \/ ~cache[bg].valid)
  BY <1>1, <1>3 DEF Pixel, RenderInv, FreshInv
<1>4. QED BY <1>2, <1>3

LEMMA RenderPixelKeeps ==
  ASSUME RenderInv, RenderPixel, x < Width, x' = x + 1, PositionInv'
  PROVE  RenderInv'
<1> DEFINE sprites == IF x = 0 THEN SpriteLine(regs.oam, regs.first, line) ELSE spriteLine
           dot == Draw(sprites)
<1>1. CASE regs.blank
  <2>1. /\ shown' = [layer |-> BLACK, math |-> FALSE, pix |-> NoSprite, x |-> x]
        /\ UNCHANGED <<cache, begun>>
    BY <1>1 DEF RenderPixel
  <2>2. ShapeInv' /\ ShownInv'
    BY <2>1 DEF RenderInv, ShapeInv, ShownInv, BLACK, Bgs
  <2>3. x \in Nat
    BY RenderSizes DEF RenderInv, PositionInv
  <2>4. FreshInv'
    BY <2>1, <2>3 DEF RenderInv, FreshInv
  <2>5. QED BY <2>2, <2>4 DEF RenderInv
<1>2. CASE ~regs.blank
  <2>1. /\ cache' = CacheAfter(dot.looked, dot.last)
        /\ begun' = (begun \/ (x = 0 /\ dot.looked # {}))
        /\ shown'.layer = dot.layer
        /\ dot.layer \in Bgs => shown'.pix = Pixel(dot.layer)
    BY <1>2 DEF RenderPixel
  <2>2. dot.last \subseteq dot.looked
    BY LastIsLookedUp
  <2> HIDE DEF dot
  <2>3. ShapeInv'
    BY <2>1, CacheShape DEF RenderInv
  <2>4. FreshInv'
    BY <2>1, <2>2, DrawnFresh
  <2>5. ShownInv'
    BY <2>1, PixelNow DEF ShownInv, Bgs, BACKDROP, OBJ
  <2>6. QED BY <2>3, <2>4, <2>5 DEF RenderInv
<1>3. QED BY <1>1, <1>2

\* Outside the screen nothing is drawn, and a line ends.
LEMMA BlankingKeeps ==
  ASSUME RenderInv, Update, InHBlank \/ InVBlank, ~(~InHBlank /\ ~InVBlank /\ RenderPixel)
  PROVE  RenderInv'
<1>1. /\ PositionInv'
      /\ x + 1 # Dots => x' = x + 1
      /\ x + 1 = Dots => x' = 0
  BY UpdatePosition DEF RenderInv
<1>2. CASE x + 1 = Dots
  <2>1. /\ ~begun'
        /\ cache' = [bg \in Bgs |-> [valid |-> cache[bg].valid, row |-> Ended(cache[bg].row)]]
    BY <1>2 DEF Update
  <2>2. ShapeInv'
    BY <2>1 DEF RenderInv, ShapeInv, Ended
  <2>3. FreshInv' /\ ShownInv'
    BY <2>1 DEF FreshInv, ShownInv
  <2>4. QED BY <1>1, <2>2, <2>3 DEF RenderInv
<1>3. CASE x + 1 # Dots
  <2>1. UNCHANGED <<begun, cache, shown>>
    BY <1>3 DEF Update
  <2>2. x \in Nat /\ x' = x + 1
    BY <1>1, <1>3, RenderSizes DEF RenderInv, PositionInv
  <2>3. FreshInv'
    BY <2>1, <2>2 DEF RenderInv, FreshInv
  <2>4. ShapeInv' /\ ShownInv'
    BY <2>1 DEF RenderInv, ShapeInv, ShownInv
  <2>5. QED BY <1>1, <2>3, <2>4 DEF RenderInv
<1>4. QED BY <1>2, <1>3

LEMMA RenderInitInv == RenderInit => RenderInv
<1> SUFFICES ASSUME RenderInit PROVE RenderInv
  OBVIOUS
<1>1. PositionInv /\ FreshInv /\ ShownInv
  BY RenderSizes DEF RenderInit, PositionInv, FreshInv, ShownInv
<1>2. ShapeInv
  BY DEF RenderInit, ShapeInv
<1>3. QED BY <1>1, <1>2 DEF RenderInv

LEMMA RenderStepInv == RenderInv /\ [RenderNext]_renderVars => RenderInv'
<1> SUFFICES ASSUME RenderInv, [RenderNext]_renderVars PROVE RenderInv'
  OBVIOUS
<1>1. CASE Update /\ ~InHBlank /\ ~InVBlank /\ RenderPixel
  <2>1. x < Width
    BY <1>1, RenderSizes DEF InHBlank, RenderInv, PositionInv
  <2>2. x + 1 # Dots
    BY <2>1, RenderSizes DEF RenderInv, PositionInv
  <2>3. PositionInv' /\ x' = x + 1
    BY <1>1, <2>2, UpdatePosition DEF RenderInv
  <2>4. QED BY <1>1, <2>1, <2>3, RenderPixelKeeps
<1>2. CASE Update /\ ~(~InHBlank /\ ~InVBlank /\ RenderPixel)
  <2>1. InHBlank \/ InVBlank
    BY <1>2 DEF Update
  <2>2. QED BY <1>2, <2>1, BlankingKeeps
<1>3. CASE \E setup \in Setups : Configure(setup)
  BY <1>3 DEF Configure, RenderInv, PositionInv, ShapeInv, FreshInv, ShownInv
<1>4. CASE UNCHANGED renderVars
  BY <1>4 DEF renderVars, RenderInv, PositionInv, ShapeInv, FreshInv, ShownInv
<1>5. QED BY <1>1, <1>2, <1>3, <1>4 DEF RenderNext

LEMMA RenderInvAlways == RenderSpec => []RenderInv
BY RenderInitInv, RenderStepInv, PTL DEF RenderSpec

\* A dot of a background is of the line that is drawn if a background was
\* looked up at the line's first dot, whatever the program sets when
\* (Ppu::lookup_bg_color and the cache it invalidates at x = 0).
THEOREM BackgroundFresh == RenderSpec => []BackgroundOfThisLine
<1>1. RenderInv => BackgroundOfThisLine
  BY DEF RenderInv, ShownInv, BackgroundOfThisLine
<1>2. QED BY <1>1, RenderInvAlways, PTL

\* No store in the middle of a line changes what a background that has been
\* rendered shows on it.
THEOREM BackgroundRenderedOnce == RenderSpec => LineIsRenderedOnce
<1> DEFINE Kept == \A bg \in Bgs : x # 0 /\ line' = line /\ cache[bg].valid => cache'[bg] = cache[bg]
<1>1. RenderInv /\ [RenderNext]_renderVars => [Kept]_renderVars
  <2> SUFFICES ASSUME RenderInv, RenderNext PROVE Kept
    BY DEF renderVars
  <2> SUFFICES ASSUME NEW bg \in Bgs, x # 0, line' = line, cache[bg].valid
               PROVE  cache'[bg] = cache[bg]
    OBVIOUS
  <2>1. ASSUME NEW looked, NEW last, cache' = CacheAfter(looked, last)
        PROVE  cache'[bg] = cache[bg]
    <3>1. cache'[bg] = [valid |-> bg \in ValidAfter(looked, last),
                        row |-> [i \in 0..(Width - 1) |-> cache[bg].row[i]]]
      BY <2>1 DEF CacheAfter, Rendered
    <3>2. bg \in ValidAfter(looked, last)
      BY DEF ValidAfter
    <3>3. QED BY <3>1, <3>2 DEF RenderInv, ShapeInv
  <2>2. CASE \E setup \in Setups : Configure(setup)
    BY <2>2 DEF Configure
  <2>3. CASE Update
    <3>1. x + 1 # Dots
      BY <2>3, UpdatePosition DEF RenderInv
    <3>2. CASE UNCHANGED cache
      BY <3>2
    <3>3. CASE RenderPixel
      BY <2>1, <3>3 DEF RenderPixel
    <3>4. QED BY <2>3, <3>1, <3>2, <3>3 DEF Update
  <2>4. QED BY <2>2, <2>3 DEF RenderNext
<1>2. QED BY <1>1, RenderInvAlways, PTL DEF RenderSpec, LineIsRenderedOnce

-----------------------------------------------------------------------------
(* The sprites of a line.  What the loops over sprites and tiles collect is *)
(* placed by counting: a sprite by those on the line in front of it, a tile *)
(* by those loaded before it.                                               *)

\* Induction up to a bound, for a set of numbers.
LEMMA UpTo ==
  ASSUME NEW N \in Nat, NEW T, 0 \in T, \A n \in 0..(N - 1) : n \in T => n + 1 \in T
  PROVE  \A n \in 0..N : n \in T
<1> DEFINE Less == {ss \in Nat \X Nat : ss[1] < ss[2]}
           Missing == {n \in 0..N : n \notin T}
<1>1. IsWellFoundedOn(Less, Nat)
  BY NatLessThanWellFounded DEF OpToRel
<1>2. \A m, n \in Nat : m < n => <<m, n>> \in Less
  OBVIOUS
<1> HIDE DEF Less
<1>3. SUFFICES ASSUME Missing # {} PROVE FALSE
  OBVIOUS
<1>4. Missing \in SUBSET Nat
  OBVIOUS
<1>5. \E n \in Missing : \A m \in Missing : ~(<<m, n>> \in Less)
  <2> HIDE DEF Missing
  <2>1. QED BY <1>1, <1>3, <1>4, WFMin
<1>6. PICK n \in Missing : \A m \in Missing : ~(<<m, n>> \in Less)
  BY <1>5
<1>7. n \in 1..N /\ n - 1 \in 0..(N - 1) /\ n - 1 \in Nat /\ n \in Nat /\ n - 1 < n /\ n \notin T
  <2>1. n \in 0..N /\ n \notin T
    OBVIOUS
  <2>2. n # 0
    BY <2>1
  <2>3. QED BY <2>1, <2>2
<1>8. n - 1 \in T
  <2>1. n - 1 \notin Missing
    BY <1>2, <1>6, <1>7
  <2>2. QED BY <1>7, <2>1
<1>9. (n - 1) + 1 \in T
  BY <1>7, <1>8
<1>10. QED BY <1>7, <1>9

On(objs, first, ln, q) == SpriteOnScanline(objs[At(first, q)], ln)

\* Counting the sprites in front of a place.
LEMMA FrontCount ==
  ASSUME NEW objs, NEW first, NEW ln
  PROVE  /\ InFront(objs, first, ln, 0) = 0
         /\ \A p \in Nat : /\ InFront(objs, first, ln, p) \in Nat
                           /\ InFront(objs, first, ln, p + 1) =
                                InFront(objs, first, ln, p) + IF On(objs, first, ln, p) THEN 1 ELSE 0
         /\ \A p, q \in Nat : p <= q => InFront(objs, first, ln, p) <= InFront(objs, first, ln, q)
<1> DEFINE Those(p) == {q \in 0..(p - 1) : On(objs, first, ln, q)}
<1>1. \A p : InFront(objs, first, ln, p) = Cardinality(Those(p))
  BY DEF InFront, On
<1>2. \A p \in Nat : IsFiniteSet(Those(p)) /\ Cardinality(Those(p)) \in Nat
  <2> TAKE p \in Nat
  <2>1. IsFiniteSet(0..(p - 1))
    BY FS_Interval
  <2>2. Those(p) \in SUBSET (0..(p - 1))
    OBVIOUS
  <2> HIDE DEF Those
  <2>3. IsFiniteSet(Those(p))
    BY <2>1, <2>2, FS_Subset
  <2>4. QED BY <2>3, FS_CardinalityType
<1>3. Those(0) = {}
  OBVIOUS
<1>4. \A p \in Nat : Those(p + 1) = (IF On(objs, first, ln, p) THEN Those(p) \cup {p} ELSE Those(p)) /\ p \notin Those(p)
  OBVIOUS
<1>5. \A p, q \in Nat : p <= q => Those(p) \in SUBSET Those(q)
  OBVIOUS
<1> HIDE DEF Those
<1>6. \A p \in Nat : Cardinality(Those(p + 1)) = Cardinality(Those(p)) + IF On(objs, first, ln, p) THEN 1 ELSE 0
  <2> TAKE p \in Nat
  <2>1. CASE On(objs, first, ln, p)
    <3>1. Cardinality(Those(p) \cup {p}) = Cardinality(Those(p)) + 1
      BY <1>2, <1>4, FS_AddElement
    <3>2. QED BY <1>4, <2>1, <3>1
  <2>2. CASE ~On(objs, first, ln, p)
    <3>1. Those(p + 1) = Those(p)
      BY <1>4, <2>2
    <3>2. QED BY <1>2, <2>2, <3>1
  <2>3. QED BY <2>1, <2>2
<1>7. \A p, q \in Nat : p <= q => Cardinality(Those(p)) <= Cardinality(Those(q))
  BY <1>2, <1>5, FS_Subset
<1>8. QED BY <1>1, <1>2, <1>3, <1>6, <1>7, FS_EmptySet

\* A sprite on the line is counted by those behind it.
LEMMA FrontOrder ==
  ASSUME NEW objs, NEW first, NEW ln, NEW p \in Nat, NEW q \in Nat, p < q, On(objs, first, ln, p)
  PROVE  InFront(objs, first, ln, p) < InFront(objs, first, ln, q)
<1>1. p + 1 <= q /\ p + 1 \in Nat
  OBVIOUS
<1>2. InFront(objs, first, ln, p + 1) = InFront(objs, first, ln, p) + 1
  BY FrontCount
<1>3. InFront(objs, first, ln, p + 1) <= InFront(objs, first, ln, q)
  BY <1>1, FrontCount
<1>4. InFront(objs, first, ln, p) \in Nat /\ InFront(objs, first, ln, q) \in Nat
  BY FrontCount
<1>5. QED BY <1>2, <1>3, <1>4

-----------------------------------------------------------------------------
(* Range.                                                                  *)

SpriteNo == 0..(Sprite - 1)

LEMMA SpriteSizes == Sprite \in Nat \ {0} /\ RangeMax \in Nat /\ TimeMax \in Nat
                     /\ TileSize \in Nat \ {0} /\ Width \in Nat \ {0}
BY SpritesAssumption

LEMMA AtIs == ASSUME NEW first \in SpriteNo, NEW p \in Nat PROVE At(first, p) \in SpriteNo
BY SpriteSizes DEF At, SpriteNo

\* What the loop has found after the first n places.
FoundUpTo(n, found, objs, first, ln) ==
  found = [k \in 0..n |->
            IF k = 0 THEN <<>>
            ELSE LET i == At(first, k - 1)
                 IN  IF SpriteOnScanline(objs[i], ln) THEN Append(found[k - 1], i) ELSE found[k - 1]]

LEMMA FoundExists ==
  ASSUME NEW objs, NEW first, NEW ln
  PROVE  \E found : FoundUpTo(Sprite, found, objs, first, ln)
<1> DEFINE T == {n \in Nat : \E found : FoundUpTo(n, found, objs, first, ln)}
<1>1. 0 \in T
  <2>1. FoundUpTo(0, [k \in 0..0 |-> <<>>], objs, first, ln)
    BY DEF FoundUpTo
  <2>2. QED BY <2>1
<1>2. \A n \in 0..(Sprite - 1) : n \in T => n + 1 \in T
  <2> SUFFICES ASSUME NEW n \in Nat, NEW old, FoundUpTo(n, old, objs, first, ln)
               PROVE  \E found : FoundUpTo(n + 1, found, objs, first, ln)
    BY SpriteSizes
  <2> DEFINE Grown(s, k) == IF SpriteOnScanline(objs[At(first, k - 1)], ln)
                           THEN Append(s, At(first, k - 1)) ELSE s
             new == [k \in 0..(n + 1) |-> IF k = n + 1 THEN Grown(old[n], n + 1) ELSE old[k]]
  <2>1. \A k \in 0..n : old[k] = IF k = 0 THEN <<>> ELSE Grown(old[k - 1], k)
    BY DEF FoundUpTo
  <2> HIDE DEF Grown
  <2>2. \A k \in 0..(n + 1) : new[k] = IF k = 0 THEN <<>> ELSE Grown(new[k - 1], k)
    <3> TAKE k \in 0..(n + 1)
    <3>1. CASE k = n + 1
      BY <3>1
    <3>2. CASE k # n + 1
      <4>1. k \in 0..n /\ (k # 0 => k - 1 \in 0..n /\ k - 1 # n + 1)
        BY <3>2
      <4>2. QED BY <2>1, <4>1
    <3>3. QED BY <3>1, <3>2
  <2>3. new = [k \in 0..(n + 1) |-> new[k]]
    OBVIOUS
  <2> HIDE DEF new
  <2>4. new = [k \in 0..(n + 1) |-> IF k = 0 THEN <<>> ELSE Grown(new[k - 1], k)]
    BY <2>2, <2>3
  <2>5. FoundUpTo(n + 1, new, objs, first, ln)
    BY <2>4 DEF FoundUpTo, Grown
  <2>6. QED BY <2>5
<1> HIDE DEF T
<1>3. Sprite \in T
  <2>1. \A n \in 0..Sprite : n \in T
    BY <1>1, <1>2, SpriteSizes, UpTo
  <2>2. QED BY <2>1, SpriteSizes
<1>4. QED BY <1>3 DEF T

LEMMA OnLineFound ==
  ASSUME NEW objs, NEW first, NEW ln
  PROVE  \E found : FoundUpTo(Sprite, found, objs, first, ln) /\ OnLine(objs, first, ln) = found[Sprite]
<1>1. OnLine(objs, first, ln) = (CHOOSE found : FoundUpTo(Sprite, found, objs, first, ln))[Sprite]
  BY DEF OnLine, FoundUpTo
<1>2. FoundUpTo(Sprite, CHOOSE found : FoundUpTo(Sprite, found, objs, first, ln), objs, first, ln)
  BY FoundExists
<1>3. QED BY <1>1, <1>2

\* s lists the sprites on the line of the first n places, each where those
\* in front of it leave off.
Lists(s, n, objs, first, ln) ==
  /\ s \in Seq(SpriteNo) /\ Len(s) = InFront(objs, first, ln, n)
  /\ \A q \in 0..(n - 1) : On(objs, first, ln, q) => s[InFront(objs, first, ln, q) + 1] = At(first, q)
  /\ \A j \in 1..Len(s) : \E q \in 0..(n - 1) : On(objs, first, ln, q) /\ InFront(objs, first, ln, q) = j - 1

LEMMA ListsMore ==
  ASSUME NEW objs, NEW first \in SpriteNo, NEW ln, NEW n \in Nat, NEW s, Lists(s, n, objs, first, ln)
  PROVE  Lists(IF On(objs, first, ln, n) THEN Append(s, At(first, n)) ELSE s, n + 1, objs, first, ln)
<1> DEFINE F(q) == InFront(objs, first, ln, q)
           O(q) == On(objs, first, ln, q)
<1>1. /\ s \in Seq(SpriteNo) /\ Len(s) = F(n)
      /\ \A q \in 0..(n - 1) : O(q) => s[F(q) + 1] = At(first, q)
      /\ \A j \in 1..Len(s) : \E q \in 0..(n - 1) : O(q) /\ F(q) = j - 1
  BY DEF Lists
<1>2. F(n + 1) = F(n) + (IF O(n) THEN 1 ELSE 0) /\ F(n) \in Nat
  BY FrontCount
<1>3. \A q \in 0..(n - 1) : O(q) => F(q) < F(n) /\ F(q) \in Nat
  <2> TAKE q \in 0..(n - 1)
  <2>1. q \in Nat /\ q < n
    OBVIOUS
  <2>2. F(q) \in Nat /\ (On(objs, first, ln, q) => F(q) < F(n))
    BY <2>1, FrontCount, FrontOrder
  <2>3. QED BY <2>2
<1>4. \A q \in 0..((n + 1) - 1) : q \in 0..(n - 1) \/ q = n
  OBVIOUS
<1>5. At(first, n) \in SpriteNo
  BY AtIs
<1>6. \A t : Lists(t, n + 1, objs, first, ln) <=>
        /\ t \in Seq(SpriteNo) /\ Len(t) = F(n + 1)
        /\ \A q \in 0..((n + 1) - 1) : O(q) => t[F(q) + 1] = At(first, q)
        /\ \A j \in 1..Len(t) : \E q \in 0..((n + 1) - 1) : O(q) /\ F(q) = j - 1
  BY DEF Lists
<1>7. \A q \in 0..(n - 1) : q \in 0..((n + 1) - 1)
  OBVIOUS
<1>8. n \in 0..((n + 1) - 1)
  OBVIOUS
<1> HIDE DEF F, O
<1>9. CASE O(n)
  <2> DEFINE t == Append(s, At(first, n))
  <2>1. t \in Seq(SpriteNo) /\ Len(t) = F(n) + 1 /\ t[F(n) + 1] = At(first, n)
        /\ \A j \in 1..F(n) : t[j] = s[j]
    BY <1>1, <1>2, <1>5
  <2> HIDE DEF t
  <2>2. \A q \in 0..(n - 1) : O(q) => t[F(q) + 1] = At(first, q)
    BY <1>1, <1>2, <1>3, <2>1
  <2>3. \A j \in 1..Len(t) : \E q \in 0..((n + 1) - 1) : O(q) /\ F(q) = j - 1
    <3> TAKE j \in 1..Len(t)
    <3>1. CASE j = F(n) + 1
      BY <1>2, <1>8, <1>9, <3>1
    <3>2. CASE j # F(n) + 1
      <4>1. j \in 1..Len(s)
        BY <1>1, <1>2, <2>1, <3>2
      <4>2. QED BY <1>1, <1>7, <4>1
    <3>3. QED BY <3>1, <3>2
  <2>4. \A q \in 0..((n + 1) - 1) : O(q) => t[F(q) + 1] = At(first, q)
    BY <1>4, <2>1, <2>2
  <2>5. Len(t) = F(n + 1)
    BY <1>2, <1>9, <2>1
  <2>6. Lists(t, n + 1, objs, first, ln)
    BY <1>6, <2>1, <2>3, <2>4, <2>5
  <2>7. QED BY <1>9, <2>6 DEF O, t
<1>10. CASE ~O(n)
  <2>1. Len(s) = F(n + 1)
    BY <1>1, <1>2, <1>10
  <2>2. \A q \in 0..((n + 1) - 1) : O(q) => s[F(q) + 1] = At(first, q)
    BY <1>1, <1>4, <1>10
  <2>3. \A j \in 1..Len(s) : \E q \in 0..((n + 1) - 1) : O(q) /\ F(q) = j - 1
    BY <1>1, <1>7
  <2>4. Lists(s, n + 1, objs, first, ln)
    BY <1>1, <1>6, <2>1, <2>2, <2>3
  <2>5. QED BY <1>10, <2>4 DEF O
<1>11. QED BY <1>9, <1>10

LEMMA OnLineLists ==
  ASSUME NEW objs, NEW first \in SpriteNo, NEW ln
  PROVE  Lists(OnLine(objs, first, ln), Sprite, objs, first, ln)
<1>1. PICK found : FoundUpTo(Sprite, found, objs, first, ln) /\ OnLine(objs, first, ln) = found[Sprite]
  BY OnLineFound
<1>2. found[0] = <<>> /\ \A n \in 0..(Sprite - 1) :
        found[n + 1] = IF On(objs, first, ln, n) THEN Append(found[n], At(first, n)) ELSE found[n]
  <2>1. \A k \in 0..Sprite : found[k] = IF k = 0 THEN <<>>
                                       ELSE IF SpriteOnScanline(objs[At(first, k - 1)], ln)
                                            THEN Append(found[k - 1], At(first, k - 1)) ELSE found[k - 1]
    BY <1>1 DEF FoundUpTo
  <2>2. 0 \in 0..Sprite /\ \A n \in 0..(Sprite - 1) : n + 1 \in 0..Sprite /\ n + 1 # 0 /\ (n + 1) - 1 = n
    BY SpriteSizes
  <2>3. QED BY <2>1, <2>2 DEF On
<1> DEFINE T == {n \in 0..Sprite : Lists(found[n], n, objs, first, ln)}
<1>3. 0 \in T
  <2>1. Len(<<>>) = 0 /\ <<>> \in Seq(SpriteNo)
    OBVIOUS
  <2>2. 0..(0 - 1) = {} /\ 1..0 = {}
    OBVIOUS
  <2>3. InFront(objs, first, ln, 0) = 0
    BY FrontCount
  <2>4. Lists(<<>>, 0, objs, first, ln)
    BY <2>1, <2>2, <2>3 DEF Lists
  <2>5. QED BY <1>2, <2>4, SpriteSizes
<1>4. \A n \in 0..(Sprite - 1) : n \in T => n + 1 \in T
  <2> SUFFICES ASSUME NEW n \in 0..(Sprite - 1), Lists(found[n], n, objs, first, ln)
               PROVE  Lists(found[n + 1], n + 1, objs, first, ln)
    BY SpriteSizes
  <2>1. n \in Nat
    BY SpriteSizes
  <2>2. QED BY <1>2, <2>1, ListsMore
<1> HIDE DEF T
<1>5. Sprite \in T
  <2>1. \A n \in 0..Sprite : n \in T
    BY <1>3, <1>4, SpriteSizes, UpTo
  <2>2. QED BY <2>1, SpriteSizes
<1>6. QED BY <1>1, <1>5 DEF T

LEMMA PrefixIs ==
  ASSUME NEW Entries, NEW s \in Seq(Entries), NEW n \in Nat
  PROVE  /\ Prefix(s, n) \in Seq(Entries)
         /\ Len(Prefix(s, n)) = IF Len(s) < n THEN Len(s) ELSE n
         /\ \A j \in 1..Len(Prefix(s, n)) : Prefix(s, n)[j] = s[j]
<1> DEFINE m == IF Len(s) < n THEN Len(s) ELSE n
<1>1. m \in 0..Len(s)
  OBVIOUS
<1>2. Prefix(s, n) = SubSeq(s, 1, m)
  BY DEF Prefix
<1> HIDE DEF m
<1>3. SubSeq(s, 1, m) \in Seq(Entries) /\ Len(SubSeq(s, 1, m)) = m /\ \A j \in 1..m : SubSeq(s, 1, m)[j] = s[j]
  BY <1>1
<1>4. QED BY <1>2, <1>3 DEF m

\* v lists the sprites in range, each where those in front of it leave off.
Ranged(v, objs, first, ln) ==
  /\ v \in Seq(SpriteNo)
  /\ \A q \in SpriteNo : InRange(objs, first, ln, q) =>
       InFront(objs, first, ln, q) + 1 \in 1..Len(v) /\ v[InFront(objs, first, ln, q) + 1] = At(first, q)
  /\ \A j \in 1..Len(v) : \E q \in SpriteNo : InRange(objs, first, ln, q) /\ InFront(objs, first, ln, q) = j - 1

LEMMA VisibleRanged ==
  ASSUME NEW objs, NEW first \in SpriteNo, NEW ln
  PROVE  Ranged(Visible(objs, first, ln), objs, first, ln)
<1> DEFINE s == OnLine(objs, first, ln)
           v == Visible(objs, first, ln)
           F(q) == InFront(objs, first, ln, q)
           O(q) == On(objs, first, ln, q)
<1>1. /\ s \in Seq(SpriteNo) /\ Len(s) = F(Sprite)
      /\ \A q \in SpriteNo : O(q) => s[F(q) + 1] = At(first, q)
      /\ \A j \in 1..Len(s) : \E q \in SpriteNo : O(q) /\ F(q) = j - 1
  BY OnLineLists DEF Lists, SpriteNo
<1>2. v = Prefix(s, RangeMax)
  BY DEF Visible
<1>3. /\ v \in Seq(SpriteNo) /\ Len(v) = (IF Len(s) < RangeMax THEN Len(s) ELSE RangeMax)
      /\ \A j \in 1..Len(v) : v[j] = s[j]
  <2> HIDE DEF s, v
  <2>1. QED BY <1>1, <1>2, PrefixIs, SpriteSizes
<1>4. \A q \in SpriteNo : InRange(objs, first, ln, q) <=> O(q) /\ F(q) < RangeMax
  BY DEF InRange, On
<1>5. \A q \in SpriteNo : F(q) \in Nat /\ (O(q) => F(q) < F(Sprite))
  <2> TAKE q \in SpriteNo
  <2>1. q \in Nat /\ q < Sprite /\ Sprite \in Nat
    BY SpriteSizes DEF SpriteNo
  <2>2. F(q) \in Nat /\ (On(objs, first, ln, q) => F(q) < F(Sprite))
    BY <2>1, FrontCount, FrontOrder
  <2>3. QED BY <2>2
<1>6. F(Sprite) \in Nat /\ RangeMax \in Nat
  BY FrontCount, SpriteSizes
<1> HIDE DEF s, v, F, O
<1>7. \A q \in SpriteNo : InRange(objs, first, ln, q) => F(q) + 1 \in 1..Len(v) /\ v[F(q) + 1] = At(first, q)
  <2> SUFFICES ASSUME NEW q \in SpriteNo, O(q), F(q) < RangeMax
               PROVE  F(q) + 1 \in 1..Len(v) /\ v[F(q) + 1] = At(first, q)
    BY <1>4
  <2>1. F(q) + 1 \in 1..Len(v)
    BY <1>1, <1>3, <1>5, <1>6
  <2>2. QED BY <1>1, <1>3, <2>1
<1>8. \A j \in 1..Len(v) : \E q \in SpriteNo : InRange(objs, first, ln, q) /\ F(q) = j - 1
  <2> TAKE j \in 1..Len(v)
  <2>1. j \in 1..Len(s) /\ j - 1 < RangeMax
    BY <1>1, <1>3, <1>6
  <2>2. QED BY <1>1, <1>4, <2>1
<1>9. QED BY <1>3, <1>7, <1>8 DEF Ranged, F, v

-----------------------------------------------------------------------------
(* Time.                                                                   *)

Oams == [SpriteNo -> SpriteType]
TileType == [sprite : SpriteNo, tile : Nat]

LEMMA SizesAre ==
  ASSUME NEW s \in SpriteType
  PROVE  /\ SpriteWidth(s) \in Nat \ {0} /\ SpriteHeight(s) \in Nat \ {0}
         /\ TilesWide(s) \in Nat \ {0} /\ SpriteWidth(s) = TileSize * TilesWide(s)
         /\ SpriteHeight(s) % TileSize = 0
         /\ TilesWide(s) <= TilesWide([large |-> TRUE]) + TilesWide([large |-> FALSE])
<1>1. \A large \in BOOLEAN : /\ Sizes[large][1] \in Nat \ {0} /\ Sizes[large][1] % TileSize = 0
                             /\ Sizes[large][2] \in Nat \ {0} /\ Sizes[large][2] % TileSize = 0
  BY SpritesAssumption
<1>2. s.large \in BOOLEAN
  BY DEF SpriteType
<1> DEFINE w(large) == Sizes[large][1] \div TileSize
<1>3. \A large \in BOOLEAN : w(large) \in Nat \ {0} /\ Sizes[large][1] = TileSize * w(large)
  <2> TAKE large \in BOOLEAN
  <2> DEFINE n == Sizes[large][1]
  <2>1. n \in Nat \ {0} /\ n % TileSize = 0
    BY <1>1
  <2> HIDE DEF n
  <2>2. n \div TileSize \in Nat /\ n = TileSize * (n \div TileSize)
    BY <2>1, SpriteSizes
  <2>3. n \div TileSize # 0
    BY <2>1, <2>2, SpriteSizes
  <2>4. QED BY <2>2, <2>3 DEF n
<1>4. TilesWide(s) = w(s.large) /\ TilesWide([large |-> TRUE]) = w(TRUE) /\ TilesWide([large |-> FALSE]) = w(FALSE)
  BY DEF TilesWide, SpriteWidth
<1>5. SpriteWidth(s) = Sizes[s.large][1] /\ SpriteHeight(s) = Sizes[s.large][2]
  BY DEF SpriteWidth, SpriteHeight
<1> HIDE DEF w
<1>6. w(s.large) <= w(TRUE) + w(FALSE)
  <2>1. w(TRUE) \in Nat /\ w(FALSE) \in Nat
    BY <1>3
  <2>2. w(s.large) = w(TRUE) \/ w(s.large) = w(FALSE)
    BY <1>2, Zenon
  <2>3. \A a, b \in Nat : a <= a + b /\ b <= a + b
    OBVIOUS
  <2>4. QED BY <2>1, <2>2, <2>3, Zenon
<1>7. QED BY <1>1, <1>2, <1>3, <1>4, <1>5, <1>6

Wide(objs, first, q) == TilesWide(objs[At(first, q)])

LEMMA SpriteIs ==
  ASSUME NEW objs \in Oams, NEW first \in SpriteNo, NEW q \in SpriteNo
  PROVE  objs[At(first, q)] \in SpriteType
<1>1. q \in Nat
  BY DEF SpriteNo
<1>2. At(first, q) \in SpriteNo
  BY <1>1, AtIs
<1>3. QED BY <1>2 DEF Oams

LEMMA WideIs ==
  ASSUME NEW objs \in Oams, NEW first \in SpriteNo, NEW q \in SpriteNo
  PROVE  Wide(objs, first, q) \in Nat \ {0}
<1>1. objs[At(first, q)] \in SpriteType
  BY SpriteIs
<1>2. QED BY <1>1, SizesAre DEF Wide

\* The tiles of the sprites in range behind place p.
Behind(objs, first, ln, p) ==
  UNION {{q} \X (1..Wide(objs, first, q)) : q \in {q \in (p + 1)..(Sprite - 1) : InRange(objs, first, ln, q)}}

LEMMA BehindIs ==
  ASSUME NEW objs, NEW first, NEW ln, NEW p
  PROVE  /\ TilesBehind(objs, first, ln, p) = Cardinality(Behind(objs, first, ln, p))
         /\ \A z : z \in Behind(objs, first, ln, p) <=>
              \E q \in (p + 1)..(Sprite - 1) : \E t \in 1..Wide(objs, first, q) :
                InRange(objs, first, ln, q) /\ z = <<q, t>>
BY DEF TilesBehind, Behind, Wide

LEMMA BehindFinite ==
  ASSUME NEW objs \in Oams, NEW first \in SpriteNo, NEW ln, NEW p \in -1..Sprite
  PROVE  IsFiniteSet(Behind(objs, first, ln, p)) /\ TilesBehind(objs, first, ln, p) \in Nat
<1> DEFINE most == TilesWide([large |-> TRUE]) + TilesWide([large |-> FALSE])
           all == (0..(Sprite - 1)) \X (1..most)
<1>1. \A q \in SpriteNo : Wide(objs, first, q) \in Nat /\ Wide(objs, first, q) <= most
  <2> TAKE q \in SpriteNo
  <2>1. objs[At(first, q)] \in SpriteType
    BY SpriteIs
  <2>2. QED BY <2>1, SizesAre DEF Wide
<1>2. TilesWide([large |-> TRUE]) \in Int /\ TilesWide([large |-> FALSE]) \in Int
  <2>1. \A large \in BOOLEAN : Sizes[large][1] \div TileSize \in Int
    BY SpritesAssumption
  <2>2. Sizes[TRUE][1] \div TileSize \in Int /\ Sizes[FALSE][1] \div TileSize \in Int
    BY <2>1
  <2>3. QED BY <2>2 DEF TilesWide, SpriteWidth
<1>3. most \in Int
  BY <1>2
<1> HIDE DEF most
<1>4. IsFiniteSet(all)
  <2>1. IsFiniteSet(1..most) /\ IsFiniteSet(0..(Sprite - 1))
    BY <1>3, SpriteSizes, FS_Interval
  <2>2. QED BY <2>1, FS_Product, Zenon
<1>5. Behind(objs, first, ln, p) \in SUBSET all
  <2> SUFFICES ASSUME NEW q \in (p + 1)..(Sprite - 1), NEW t \in 1..Wide(objs, first, q)
               PROVE  <<q, t>> \in all
    BY BehindIs
  <2>1. q \in SpriteNo
    BY SpriteSizes DEF SpriteNo
  <2>2. t \in 1..most
    BY <1>1, <1>3, <2>1
  <2>3. QED BY <2>1, <2>2 DEF SpriteNo
<1> HIDE DEF all
<1>6. IsFiniteSet(Behind(objs, first, ln, p))
  BY <1>4, <1>5, FS_Subset
<1>7. QED BY <1>6, BehindIs, FS_CardinalityType

\* Counting them.
LEMMA BehindSame ==
  ASSUME NEW objs, NEW first, NEW ln, NEW p \in -1..Sprite, NEW r \in -1..Sprite, p <= r,
         \A q \in SpriteNo : p < q /\ q <= r => ~InRange(objs, first, ln, q)
  PROVE  TilesBehind(objs, first, ln, p) = TilesBehind(objs, first, ln, r)
<1>1. \A q \in SpriteNo : InRange(objs, first, ln, q) => (q \in (p + 1)..(Sprite - 1) <=> q \in (r + 1)..(Sprite - 1))
  BY SpriteSizes DEF SpriteNo
<1>2. \A q : q \in (p + 1)..(Sprite - 1) \/ q \in (r + 1)..(Sprite - 1) => q \in SpriteNo
  BY SpriteSizes DEF SpriteNo
<1>3. \A z : z \in Behind(objs, first, ln, p) <=> z \in Behind(objs, first, ln, r)
  BY <1>1, <1>2, BehindIs
<1>4. Behind(objs, first, ln, p) = Behind(objs, first, ln, r)
  BY <1>3
<1>5. QED BY <1>4, BehindIs

LEMMA BehindNone ==
  ASSUME NEW objs, NEW first, NEW ln
  PROVE  TilesBehind(objs, first, ln, Sprite - 1) = 0
<1>1. ((Sprite - 1) + 1)..(Sprite - 1) = {}
  BY SpriteSizes
<1>2. Behind(objs, first, ln, Sprite - 1) = {}
  BY <1>1, BehindIs
<1>3. QED BY <1>2, BehindIs, FS_EmptySet

LEMMA BehindNext ==
  ASSUME NEW objs \in Oams, NEW first \in SpriteNo, NEW ln, NEW r \in SpriteNo, InRange(objs, first, ln, r)
  PROVE  /\ TilesBehind(objs, first, ln, r - 1) = TilesBehind(objs, first, ln, r) + Wide(objs, first, r)
         /\ \A p \in -1..Sprite : p < r =>
              TilesBehind(objs, first, ln, r) + Wide(objs, first, r) <= TilesBehind(objs, first, ln, p)
<1> DEFINE Tl(p) == Behind(objs, first, ln, p)
           own == {r} \X (1..Wide(objs, first, r))
<1>1. r \in -1..Sprite /\ r - 1 \in -1..Sprite /\ r \in Int /\ Sprite \in Nat
  BY SpriteSizes DEF SpriteNo
<1>2. Wide(objs, first, r) \in Nat
  BY WideIs
<1>3. IsFiniteSet(own) /\ Cardinality(own) = Wide(objs, first, r)
  <2>1. IsFiniteSet({r}) /\ Cardinality({r}) = 1
    BY FS_Singleton
  <2>2. IsFiniteSet(1..Wide(objs, first, r)) /\ Cardinality(1..Wide(objs, first, r)) = Wide(objs, first, r)
    BY <1>2, FS_Interval
  <2>3. IsFiniteSet(own) /\ Cardinality(own) = 1 * Wide(objs, first, r)
    <3>1. /\ IsFiniteSet({r} \X (1..Wide(objs, first, r)))
          /\ Cardinality({r} \X (1..Wide(objs, first, r)))
               = Cardinality({r}) * Cardinality(1..Wide(objs, first, r))
      BY <2>1, <2>2, FS_Product, Zenon
    <3>2. QED BY <2>1, <2>2, <3>1, Zenon
  <2>4. QED BY <1>2, <2>3
<1>4. IsFiniteSet(Tl(r)) /\ Cardinality(Tl(r)) = TilesBehind(objs, first, ln, r)
      /\ TilesBehind(objs, first, ln, r) \in Nat
  BY <1>1, BehindFinite, BehindIs
<1>5. \A z \in own : \E t \in 1..Wide(objs, first, r) : z = <<r, t>>
  OBVIOUS
<1>6. Tl(r) \cap own = {}
  <2> SUFFICES ASSUME NEW z \in Tl(r), z \in own PROVE FALSE
    OBVIOUS
  <2>1. PICK q \in (r + 1)..(Sprite - 1) : \E t \in 1..Wide(objs, first, q) : z = <<q, t>>
    BY BehindIs
  <2>2. q = r
    BY <1>5, <2>1
  <2>3. QED BY <1>1, <2>2
<1>7. Cardinality(Tl(r) \cup own) = TilesBehind(objs, first, ln, r) + Wide(objs, first, r) /\ IsFiniteSet(Tl(r) \cup own)
  <2> HIDE DEF Tl, own
  <2>1. /\ IsFiniteSet(Tl(r) \cup own)
        /\ Cardinality(Tl(r) \cup own) = Cardinality(Tl(r)) + Cardinality(own) - Cardinality(Tl(r) \cap own)
    BY <1>3, <1>4, FS_Union
  <2>2. Cardinality(Tl(r) \cap own) = 0
    BY <1>6, FS_EmptySet
  <2>3. QED BY <1>2, <1>3, <1>4, <2>1, <2>2
<1>8. \A p \in -1..Sprite : p < r => Tl(r) \cup own \in SUBSET Tl(p)
  <2> SUFFICES ASSUME NEW p \in -1..Sprite, p < r, NEW z \in Tl(r) \cup own
               PROVE  z \in Tl(p)
    OBVIOUS
  <2>1. CASE z \in own
    <3>1. PICK t \in 1..Wide(objs, first, r) : z = <<r, t>>
      BY <1>5, <2>1
    <3>2. r \in (p + 1)..(Sprite - 1)
      BY <1>1 DEF SpriteNo
    <3>3. QED BY <3>1, <3>2, BehindIs
  <2>2. CASE z \in Tl(r)
    <3>1. PICK q \in (r + 1)..(Sprite - 1) : \E t \in 1..Wide(objs, first, q) : InRange(objs, first, ln, q) /\ z = <<q, t>>
      BY <2>2, BehindIs
    <3>2. q \in (p + 1)..(Sprite - 1)
      BY <1>1
    <3>3. QED BY <3>1, <3>2, BehindIs
  <2>3. QED BY <2>1, <2>2
<1>9. Tl(r - 1) \in SUBSET (Tl(r) \cup own)
  <2> SUFFICES ASSUME NEW z \in Tl(r - 1) PROVE z \in Tl(r) \cup own
    OBVIOUS
  <2>1. PICK q \in ((r - 1) + 1)..(Sprite - 1) : \E t \in 1..Wide(objs, first, q) : InRange(objs, first, ln, q) /\ z = <<q, t>>
    BY BehindIs
  <2>2. q = r \/ q \in (r + 1)..(Sprite - 1)
    BY <1>1
  <2>3. CASE q = r
    BY <2>1, <2>3
  <2>4. CASE q \in (r + 1)..(Sprite - 1)
    BY <2>1, <2>4, BehindIs
  <2>5. QED BY <2>2, <2>3, <2>4
<1>10. \A p \in -1..Sprite : IsFiniteSet(Tl(p)) /\ TilesBehind(objs, first, ln, p) = Cardinality(Tl(p))
  BY BehindFinite, BehindIs
<1> HIDE DEF Tl, own
<1>11. TilesBehind(objs, first, ln, r - 1) = TilesBehind(objs, first, ln, r) + Wide(objs, first, r)
  <2>1. r - 1 < r
    BY <1>1
  <2>2. Tl(r - 1) = Tl(r) \cup own
    BY <1>1, <1>8, <1>9, <2>1
  <2>3. QED BY <1>1, <1>7, <1>10, <2>2
<1>12. \A p \in -1..Sprite : p < r =>
         TilesBehind(objs, first, ln, r) + Wide(objs, first, r) <= TilesBehind(objs, first, ln, p)
  <2> SUFFICES ASSUME NEW p \in -1..Sprite, p < r
               PROVE  Cardinality(Tl(r) \cup own) <= Cardinality(Tl(p))
    BY <1>7, <1>10
  <2>1. QED BY <1>8, <1>10, FS_Subset
<1>13. QED BY <1>11, <1>12

\* s lists the tiles of the sprites in range behind place p, each where those
\* loaded before it leave off.
Stacked(s, p, objs, first, ln) ==
  /\ s \in Seq(TileType) /\ Len(s) = TilesBehind(objs, first, ln, p)
  /\ \A q \in SpriteNo : p < q /\ InRange(objs, first, ln, q) => \A t \in 1..Wide(objs, first, q) :
       /\ TilesBehind(objs, first, ln, q) + t \in 1..Len(s)
       /\ s[TilesBehind(objs, first, ln, q) + t] = [sprite |-> At(first, q), tile |-> t - 1]
  /\ \A l \in 1..Len(s) : \E q \in SpriteNo : \E t \in 1..Wide(objs, first, q) :
       p < q /\ InRange(objs, first, ln, q) /\ l = TilesBehind(objs, first, ln, q) + t

LEMMA StackedNone ==
  ASSUME NEW objs, NEW first, NEW ln PROVE Stacked(<<>>, Sprite - 1, objs, first, ln)
<1>1. <<>> \in Seq(TileType) /\ Len(<<>>) = 0 /\ 1..0 = {}
  OBVIOUS
<1>2. \A q \in SpriteNo : ~(Sprite - 1 < q)
  BY SpriteSizes DEF SpriteNo
<1>3. QED BY <1>1, <1>2, BehindNone DEF Stacked

LEMMA StackedSkip ==
  ASSUME NEW objs, NEW first, NEW ln, NEW s, NEW p \in -1..Sprite, NEW r \in -1..Sprite, p <= r,
         Stacked(s, r, objs, first, ln),
         \A q \in SpriteNo : p < q /\ q <= r => ~InRange(objs, first, ln, q)
  PROVE  Stacked(s, p, objs, first, ln)
<1>1. TilesBehind(objs, first, ln, p) = TilesBehind(objs, first, ln, r)
  BY BehindSame
<1>2. \A q \in SpriteNo : InRange(objs, first, ln, q) => (p < q <=> r < q)
  BY SpriteSizes DEF SpriteNo
<1>3. QED BY <1>1, <1>2, Zenon DEF Stacked

\* The row of one sprite.
LEMMA RowIs ==
  ASSUME NEW objs \in Oams, NEW i \in SpriteNo
  PROVE  /\ RowOf(objs, i) \in Seq(TileType) /\ Len(RowOf(objs, i)) = TilesWide(objs[i])
         /\ \A t \in 1..TilesWide(objs[i]) : RowOf(objs, i)[t] = [sprite |-> i, tile |-> t - 1]
<1> DEFINE w == TilesWide(objs[i])
<1>1. w \in Nat
  BY SizesAre DEF Oams
<1>2. RowOf(objs, i) = [t \in 1..w |-> [sprite |-> i, tile |-> t - 1]]
  BY DEF RowOf
<1> HIDE DEF w
<1>3. \A t \in 1..w : [sprite |-> i, tile |-> t - 1] \in TileType
  BY <1>1 DEF TileType
<1>4. RowOf(objs, i) \in [1..w -> TileType]
  BY <1>2, <1>3
<1>5. RowOf(objs, i) \in Seq(TileType) /\ Len(RowOf(objs, i)) = w
  BY <1>1, <1>2, <1>4
<1>6. QED BY <1>2, <1>5 DEF w

LEMMA ConcatIs ==
  ASSUME NEW Entries, NEW s \in Seq(Entries), NEW r \in Seq(Entries)
  PROVE  /\ s \o r \in Seq(Entries) /\ Len(s \o r) = Len(s) + Len(r)
         /\ \A l \in 1..Len(s) : (s \o r)[l] = s[l]
         /\ \A t \in 1..Len(r) : (s \o r)[Len(s) + t] = r[t]
OBVIOUS

LEMMA StackedMore ==
  ASSUME NEW objs \in Oams, NEW first \in SpriteNo, NEW ln, NEW s, NEW r \in SpriteNo,
         Stacked(s, r, objs, first, ln), InRange(objs, first, ln, r)
  PROVE  Stacked(s \o RowOf(objs, At(first, r)), r - 1, objs, first, ln)
<1> DEFINE row == RowOf(objs, At(first, r))
           w(q) == Wide(objs, first, q)
           T(q) == TilesBehind(objs, first, ln, q)
           I(q) == InRange(objs, first, ln, q)
           all == s \o row
<1>1. /\ s \in Seq(TileType) /\ Len(s) = T(r)
      /\ \A q \in SpriteNo : r < q /\ I(q) => \A t \in 1..w(q) :
           T(q) + t \in 1..Len(s) /\ s[T(q) + t] = [sprite |-> At(first, q), tile |-> t - 1]
      /\ \A l \in 1..Len(s) : \E q \in SpriteNo : \E t \in 1..w(q) : r < q /\ I(q) /\ l = T(q) + t
  BY DEF Stacked
<1>2. r \in Nat /\ r \in -1..Sprite /\ r - 1 \in -1..Sprite /\ At(first, r) \in SpriteNo
  <2>1. r \in Nat /\ r \in -1..Sprite /\ r - 1 \in -1..Sprite
    BY SpriteSizes DEF SpriteNo
  <2>2. QED BY <2>1, AtIs
<1>3. /\ row \in Seq(TileType) /\ Len(row) = w(r)
      /\ \A t \in 1..w(r) : row[t] = [sprite |-> At(first, r), tile |-> t - 1]
  BY <1>2, RowIs DEF Wide
<1>4. w(r) \in Nat /\ T(r) \in Nat /\ T(r - 1) = T(r) + w(r)
  BY <1>2, WideIs, BehindFinite, BehindNext
<1>5. \A q \in SpriteNo : (r - 1 < q <=> q = r \/ r < q)
  BY <1>2 DEF SpriteNo
<1>6. \A seq : Stacked(seq, r - 1, objs, first, ln) <=>
        /\ seq \in Seq(TileType) /\ Len(seq) = T(r - 1)
        /\ \A q \in SpriteNo : r - 1 < q /\ I(q) => \A t \in 1..w(q) :
             T(q) + t \in 1..Len(seq) /\ seq[T(q) + t] = [sprite |-> At(first, q), tile |-> t - 1]
        /\ \A l \in 1..Len(seq) : \E q \in SpriteNo : \E t \in 1..w(q) : r - 1 < q /\ I(q) /\ l = T(q) + t
  BY DEF Stacked
<1>7. I(r)
  OBVIOUS
<1> HIDE DEF row, w, T, I
<1>8. /\ all \in Seq(TileType) /\ Len(all) = T(r) + w(r)
      /\ \A l \in 1..T(r) : all[l] = s[l]
      /\ \A t \in 1..w(r) : all[T(r) + t] = row[t]
  <2>1. T(r) = Len(s) /\ w(r) = Len(row)
    BY <1>1, <1>3
  <2>2. all \in Seq(TileType) /\ Len(all) = Len(s) + Len(row)
        /\ (\A l \in 1..Len(s) : all[l] = s[l])
        /\ \A t \in 1..Len(row) : all[Len(s) + t] = row[t]
    <3>1. s \in Seq(TileType) /\ row \in Seq(TileType)
      BY <1>1, <1>3
    <3>2. /\ s \o row \in Seq(TileType) /\ Len(s \o row) = Len(s) + Len(row)
          /\ \A l \in 1..Len(s) : (s \o row)[l] = s[l]
          /\ \A t \in 1..Len(row) : (s \o row)[Len(s) + t] = row[t]
      <4> HIDE DEF all
      <4>1. QED BY ONLY <3>1, ConcatIs
    <3>3. QED BY <3>2
  <2>3. QED BY <2>1, <2>2
<1> HIDE DEF all
<1>9. ASSUME NEW q \in SpriteNo, r - 1 < q, I(q), NEW t \in 1..w(q)
      PROVE  T(q) + t \in 1..Len(all) /\ all[T(q) + t] = [sprite |-> At(first, q), tile |-> t - 1]
  <2>1. CASE q = r
    <3>1. t \in 1..w(r) /\ T(r) + t \in 1..Len(all)
      BY <1>4, <1>8, <1>9, <2>1
    <3>2. all[T(r) + t] = [sprite |-> At(first, r), tile |-> t - 1]
      BY <1>3, <1>8, <3>1
    <3>3. QED BY <2>1, <3>1, <3>2
  <2>2. CASE r < q
    <3>1. T(q) + t \in 1..T(r) /\ s[T(q) + t] = [sprite |-> At(first, q), tile |-> t - 1]
      BY <1>1, <1>9, <2>2
    <3>2. T(q) + t \in 1..Len(all) /\ all[T(q) + t] = s[T(q) + t]
      BY <1>4, <1>8, <3>1
    <3>3. QED BY <3>1, <3>2
  <2>3. QED BY <1>5, <1>9, <2>1, <2>2
<1>10. ASSUME NEW l \in 1..Len(all)
       PROVE  \E q \in SpriteNo : \E t \in 1..w(q) : r - 1 < q /\ I(q) /\ l = T(q) + t
  <2>1. CASE l <= T(r)
    <3>1. l \in 1..Len(s)
      BY <1>1, <1>4, <1>8, <2>1
    <3>2. PICK q \in SpriteNo : \E t \in 1..w(q) : r < q /\ I(q) /\ l = T(q) + t
      BY <1>1, <3>1
    <3>3. QED BY <1>5, <3>2
  <2>2. CASE ~(l <= T(r))
    <3>1. l - T(r) \in 1..w(r) /\ l = T(r) + (l - T(r))
      BY <1>4, <1>8, <2>2
    <3>2. QED BY <1>5, <1>7, <3>1
  <2>3. QED BY <2>1, <2>2
<1>11. \A q \in SpriteNo : r - 1 < q /\ I(q) => \A t \in 1..w(q) :
         T(q) + t \in 1..Len(all) /\ all[T(q) + t] = [sprite |-> At(first, q), tile |-> t - 1]
  BY <1>9
<1>12. \A l \in 1..Len(all) : \E q \in SpriteNo : \E t \in 1..w(q) : r - 1 < q /\ I(q) /\ l = T(q) + t
  BY <1>10
<1>13. Stacked(all, r - 1, objs, first, ln)
  BY <1>4, <1>6, <1>8, <1>11, <1>12
<1>14. QED BY <1>13 DEF all, row

-----------------------------------------------------------------------------
(* The sequences flattened.                                                *)

FlatUpTo(n, flat, seqs) == flat = [i \in 1..n |-> IF i = 1 THEN seqs[i] ELSE flat[i - 1] \o seqs[i]]

LEMMA FlatExists ==
  ASSUME NEW seqs, NEW m \in Nat
  PROVE  \E flat : FlatUpTo(m, flat, seqs)
<1> DEFINE T == {n \in Nat : \E flat : FlatUpTo(n, flat, seqs)}
<1>1. 0 \in T
  <2>1. FlatUpTo(0, [i \in 1..0 |-> <<>>], seqs)
    BY DEF FlatUpTo
  <2>2. QED BY <2>1
<1>2. \A n \in 0..(m - 1) : n \in T => n + 1 \in T
  <2> SUFFICES ASSUME NEW n \in Nat, NEW old, FlatUpTo(n, old, seqs)
               PROVE  \E flat : FlatUpTo(n + 1, flat, seqs)
    OBVIOUS
  <2> DEFINE Grown(s, i) == IF i = 1 THEN seqs[i] ELSE s \o seqs[i]
             new == [i \in 1..(n + 1) |-> IF i = n + 1 THEN Grown(old[n], n + 1) ELSE old[i]]
  <2>1. \A i \in 1..n : old[i] = Grown(old[i - 1], i)
    BY DEF FlatUpTo
  <2>2. \A i \in 1..(n + 1) : new[i] = Grown(new[i - 1], i)
    <3> TAKE i \in 1..(n + 1)
    <3>1. CASE i = n + 1
      <4>1. CASE n = 0
        BY <3>1, <4>1
      <4>2. CASE n # 0
        <5>1. new[n] = old[n] /\ new[n + 1] = Grown(old[n], n + 1)
          BY <4>2
        <5>2. QED BY <3>1, <5>1
      <4>3. QED BY <4>1, <4>2
    <3>2. CASE i # n + 1
      <4>1. i \in 1..n
        BY <3>2
      <4>2. new[i] = old[i] /\ (i # 1 => new[i - 1] = old[i - 1])
        BY <4>1
      <4>3. QED BY <2>1, <4>1, <4>2
    <3>3. QED BY <3>1, <3>2
  <2>3. new = [i \in 1..(n + 1) |-> new[i]]
    OBVIOUS
  <2> HIDE DEF new
  <2>4. new = [i \in 1..(n + 1) |-> Grown(new[i - 1], i)]
    BY <2>2, <2>3
  <2>5. FlatUpTo(n + 1, new, seqs)
    BY <2>4 DEF FlatUpTo
  <2>6. QED BY <2>5
<1> HIDE DEF T
<1>3. m \in T
  <2>1. \A n \in 0..m : n \in T
    BY <1>1, <1>2, UpTo
  <2>2. QED BY <2>1
<1>4. QED BY <1>3 DEF T

LEMMA FlattenIs ==
  ASSUME NEW seqs, Len(seqs) \in Nat \ {0}
  PROVE  \E flat : FlatUpTo(Len(seqs), flat, seqs) /\ FlattenSeq(seqs) = flat[Len(seqs)]
<1>1. FlattenSeq(seqs) = (CHOOSE flat : FlatUpTo(Len(seqs), flat, seqs))[Len(seqs)]
  BY DEF FlattenSeq, FlatUpTo
<1>2. FlatUpTo(Len(seqs), CHOOSE flat : FlatUpTo(Len(seqs), flat, seqs), seqs)
  BY FlatExists
<1>3. QED BY <1>1, <1>2

\* The tiles of the sprites in range, from the last one to the first.
LEMMA TilesStacked ==
  ASSUME NEW objs \in Oams, NEW first \in SpriteNo, NEW ln, NEW v, Ranged(v, objs, first, ln)
  PROVE  Stacked(TilesOf(objs, v), -1, objs, first, ln)
<1> DEFINE m == Len(v)
           rows == [k \in 1..m |-> RowOf(objs, Reverse(v)[k])]
           F(q) == InFront(objs, first, ln, q)
           I(q) == InRange(objs, first, ln, q)
           St(s, p) == Stacked(s, p, objs, first, ln)
<1>1. /\ v \in Seq(SpriteNo) /\ m \in Nat
      /\ \A q \in SpriteNo : I(q) => F(q) + 1 \in 1..m /\ v[F(q) + 1] = At(first, q)
      /\ \A j \in 1..m : \E q \in SpriteNo : I(q) /\ F(q) = j - 1
  BY DEF Ranged
<1>2. TilesOf(objs, v) = FlattenSeq(rows)
  BY DEF TilesOf
<1>3. \A k \in 1..m : rows[k] = RowOf(objs, v[(m - k) + 1])
  BY <1>1 DEF Reverse
<1>4. Len(rows) = m
  BY <1>1
<1>5. \A q \in SpriteNo : q \in -1..Sprite /\ q - 1 \in -1..Sprite /\ q \in Nat
  BY SpriteSizes DEF SpriteNo
<1>6. \A p, q \in SpriteNo : I(p) /\ p < q => F(p) < F(q)
  BY <1>5, FrontOrder DEF InRange, On
<1>7. \A q \in SpriteNo : F(q) \in Nat
  BY <1>5, FrontCount
<1>8. St(<<>>, Sprite - 1) /\ -1 \in -1..Sprite /\ Sprite - 1 \in -1..Sprite /\ -1 <= Sprite - 1
  BY StackedNone, SpriteSizes
<1>9. \A q \in SpriteNo : q <= Sprite - 1 /\ -1 < q /\ q - 1 <= Sprite - 1
  BY SpriteSizes DEF SpriteNo
<1>10. \A s, p, r : p \in -1..Sprite /\ r \in -1..Sprite /\ p <= r /\ St(s, r)
                    /\ (\A q \in SpriteNo : p < q /\ q <= r => ~I(q)) => St(s, p)
  BY StackedSkip
<1>11. \A s, r : r \in SpriteNo /\ I(r) /\ St(s, r) => St(s \o RowOf(objs, At(first, r)), r - 1)
  BY StackedMore
<1> HIDE DEF rows, F, I, St, m
<1>12. CASE m = 0
  <2>1. \A q \in SpriteNo : ~I(q)
    BY <1>1, <1>12
  <2>2. St(<<>>, -1)
    BY <1>8, <1>10, <2>1
  <2>3. rows = <<>>
    BY <1>1, <1>12 DEF rows
  <2>4. FlattenSeq(rows) = rows
    BY <1>4, <1>12 DEF FlattenSeq
  <2>5. QED BY <1>2, <2>2, <2>3, <2>4 DEF St
<1>13. CASE m # 0
  <2>1. PICK flat : FlatUpTo(m, flat, rows) /\ FlattenSeq(rows) = flat[m]
    BY <1>1, <1>4, <1>13, FlattenIs
  <2>2. \A k \in 1..m : flat[k] = IF k = 1 THEN rows[k] ELSE flat[k - 1] \o rows[k]
    BY <2>1 DEF FlatUpTo
  <2> DEFINE Holds(k) == \A r \in SpriteNo : I(r) /\ F(r) = m - k => St(flat[k], r - 1)
             T == {k \in 0..m : k = 0 \/ Holds(k)}
  <2>3. \A k \in 0..(m - 1) : k \in T => k + 1 \in T
    <3>a. \A k \in 0..(m - 1) : k + 1 \in 0..m
      BY <1>1
    <3>b. SUFFICES ASSUME NEW k \in 0..(m - 1), k = 0 \/ Holds(k) PROVE Holds(k + 1)
      <4> HIDE DEF Holds
      <4>1. QED BY <3>a, <3>b
    <3> SUFFICES ASSUME NEW r \in SpriteNo, I(r), F(r) = m - (k + 1)
                 PROVE  St(flat[k + 1], r - 1)
      OBVIOUS
    <3>1. k + 1 \in 1..m /\ (m - (k + 1)) + 1 = F(r) + 1 /\ (k + 1) - 1 = k
      BY <1>1
    <3>2. rows[k + 1] = RowOf(objs, At(first, r))
      BY <1>1, <1>3, <3>1
    <3>3. CASE k = 0
      <4>1. \A q \in SpriteNo : r < q /\ q <= Sprite - 1 => ~I(q)
        <5> SUFFICES ASSUME NEW q \in SpriteNo, r < q, I(q) PROVE FALSE
          OBVIOUS
        <5>1. F(r) < F(q) /\ F(q) + 1 \in 1..m
          BY <1>1, <1>6
        <5>2. F(r) \in Nat /\ F(q) \in Nat /\ F(r) = m - 1
          BY <1>7, <3>3
        <5>3. QED BY <1>1, <5>1, <5>2
      <4>2. St(<<>>, r)
        <5>1. r \in -1..Sprite /\ r <= Sprite - 1
          BY <1>5, <1>9
        <5>2. QED BY <1>8, <1>10, <4>1, <5>1
      <4>3. St(<<>> \o RowOf(objs, At(first, r)), r - 1)
        BY <1>11, <4>2
      <4>4. <<>> \o RowOf(objs, At(first, r)) = RowOf(objs, At(first, r))
        <5>1. At(first, r) \in SpriteNo
          BY <1>5, AtIs
        <5>2. RowOf(objs, At(first, r)) \in Seq(TileType)
          BY <5>1, RowIs
        <5>3. QED BY <5>2
      <4>5. flat[k + 1] = RowOf(objs, At(first, r))
        BY <2>2, <3>1, <3>2, <3>3
      <4>6. QED BY <4>3, <4>4, <4>5
    <3>4. CASE k # 0
      <4>1. (m - k) + 1 \in 1..m /\ ((m - k) + 1) - 1 = m - k
        BY <1>1, <3>4
      <4>2. PICK c \in SpriteNo : I(c) /\ F(c) = m - k
        BY <1>1, <4>1
      <4>3. St(flat[k], c - 1)
        BY <3>b, <3>4, <4>2
      <4>4. r < c
        <5> SUFFICES ASSUME ~(r < c) PROVE FALSE
          OBVIOUS
        <5>1. c = r \/ c < r
          BY <1>5
        <5>2. F(c) = F(r) \/ F(c) < F(r)
          BY <1>6, <4>2, <5>1
        <5>3. QED BY <1>1, <4>2, <5>2
      <4>5. \A q \in SpriteNo : r < q /\ q <= c - 1 => ~I(q)
        <5> SUFFICES ASSUME NEW q \in SpriteNo, r < q, q <= c - 1, I(q) PROVE FALSE
          OBVIOUS
        <5>1. q < c
          BY <1>5
        <5>2. F(r) < F(q) /\ F(q) < F(c)
          BY <1>6, <5>1
        <5>3. F(r) \in Nat /\ F(q) \in Nat /\ F(c) = F(r) + 1
          BY <1>1, <1>7, <4>2
        <5>4. QED BY <5>2, <5>3
      <4>6. St(flat[k], r)
        <5>1. r \in -1..Sprite /\ c - 1 \in -1..Sprite /\ r <= c - 1
          BY <1>5, <4>4
        <5>2. QED BY <1>10, <4>3, <4>5, <5>1
      <4>7. St(flat[k] \o RowOf(objs, At(first, r)), r - 1)
        BY <1>11, <4>6
      <4>8. flat[k + 1] = flat[k] \o RowOf(objs, At(first, r))
        <5>1. k + 1 # 1
          BY <3>4
        <5>2. QED BY <2>2, <3>1, <3>2, <5>1
      <4>9. QED BY <4>7, <4>8
    <3>5. QED BY <3>3, <3>4
  <2>4. 0 \in T
    BY <1>1
  <2> HIDE DEF T
  <2>5. m \in T
    <3>1. \A k \in 0..m : k \in T
      BY <1>1, <2>3, <2>4, UpTo
    <3>2. QED BY <1>1, <3>1
  <2>6. Holds(m)
    BY <1>13, <2>5 DEF T
  <2>7. PICK r \in SpriteNo : I(r) /\ F(r) = 0
    <3>1. 1 \in 1..m /\ 1 - 1 = 0
      BY <1>1, <1>13
    <3>2. QED BY <1>1, <3>1
  <2>8. St(flat[m], r - 1)
    <3>1. m - m = 0
      BY <1>1
    <3>2. QED BY <2>6, <2>7, <3>1
  <2>9. \A q \in SpriteNo : -1 < q /\ q <= r - 1 => ~I(q)
    <3> SUFFICES ASSUME NEW q \in SpriteNo, q <= r - 1, I(q) PROVE FALSE
      OBVIOUS
    <3>1. q < r
      BY <1>5
    <3>2. F(q) < 0
      BY <1>6, <2>7, <3>1
    <3>3. QED BY <1>7, <3>2
  <2>10. St(flat[m], -1)
    <3>1. r - 1 \in -1..Sprite /\ -1 <= r - 1
      BY <1>5, <1>9
    <3>2. QED BY <1>8, <1>10, <2>8, <2>9, <3>1
  <2>11. QED BY <1>2, <2>1, <2>10 DEF St
<1>14. QED BY <1>12, <1>13

\* And so is the quotient.
LEMMA QuotientIs ==
  ASSUME NEW d \in Nat \ {0}, NEW q \in Nat, NEW r \in 0..(d - 1)
  PROVE  (d * q + r) \div d = q
<1> DEFINE n == d * q + r
           p == n \div d
<1>1. d * q \in Nat /\ n \in Nat /\ n % d = r
  BY RemainderIs
<1>2. p \in Nat /\ n = d * p + (n % d)
  <2> HIDE DEF n
  <2>1. QED BY <1>1, Division
<1>3. d * p = d * q /\ d * p \in Nat
  <2>1. d * p + r = d * q + r
    BY <1>1, <1>2
  <2> HIDE DEF p
  <2>2. d * p \in Nat /\ d * q \in Nat
    BY <1>2
  <2>3. QED BY <2>1, <2>2
<1> HIDE DEF p, n
<1>4. ASSUME NEW i \in Nat, NEW j \in Nat, i < j PROVE d * i + d <= d * j
  <2>1. (i + 1) * d <= j * d
    BY <1>4, ProductLeq
  <2>2. (i + 1) * d = d * i + d /\ j * d = d * j
    OBVIOUS
  <2>3. QED BY <2>1, <2>2
<1>5. p = q
  <2>1. CASE p < q
    <3>1. d * p + d <= d * q
      BY <1>2, <1>4, <2>1
    <3>2. QED BY <1>3, <3>1
  <2>2. CASE q < p
    <3>1. d * q + d <= d * p
      BY <1>2, <1>4, <2>2
    <3>2. QED BY <1>3, <3>1
  <2>3. QED BY <1>2, <2>1, <2>2
<1>6. QED BY <1>5 DEF p, n

-----------------------------------------------------------------------------
(* A dot.                                                                  *)

\* The dot of the sprite the definition by places asks for.
Column(s, c) == IF s.hflip THEN SpriteWidth(s) - 1 - (c - s.x) ELSE c - s.x
RowNo(s, ln) == IF s.vflip THEN SpriteHeight(s) - 1 - (ln - s.y) ELSE ln - s.y

LEMMA RowFlipped ==
  ASSUME NEW s \in SpriteType, NEW ln \in Nat, SpriteOnScanline(s, ln), NEW t, NEW off
  PROVE  DotOf(s, t, off, ln)[2] = RowNo(s, ln)
<1> DEFINE d == ln - s.y
           h == SpriteHeight(s)
           a == d \div TileSize
           b == d % TileSize
<1>1. h \in Nat \ {0} /\ h % TileSize = 0 /\ TileSize \in Nat \ {0}
  BY SizesAre, SpriteSizes
<1>2. d \in 0..(h - 1) /\ d \in Nat
  <2>1. s.y \in Nat
    BY DEF SpriteType
  <2>2. s.y <= ln /\ ln < s.y + h
    BY DEF SpriteOnScanline
  <2>3. QED BY <1>1, <2>1, <2>2
<1>3. DotOf(s, t, off, ln)[2] =
        TileSize * (IF s.vflip THEN (h - d - 1) \div TileSize ELSE a) + (IF s.vflip THEN TileSize - b - 1 ELSE b)
  BY DEF DotOf
<1>4. RowNo(s, ln) = IF s.vflip THEN h - 1 - d ELSE d
  BY DEF RowNo
<1> HIDE DEF d, h
<1>5. a \in Nat /\ b \in 0..(TileSize - 1) /\ d = TileSize * a + b
  BY <1>1, <1>2, Division
<1> DEFINE k == h \div TileSize
<1>6. k \in Nat /\ h = TileSize * k
  <2>1. k \in Nat /\ h = TileSize * k + (h % TileSize)
    BY <1>1, Division
  <2> HIDE DEF k
  <2>2. TileSize * k \in Nat
    BY <1>1, <2>1
  <2>3. QED BY <1>1, <2>1, <2>2
<1> HIDE DEF a, b, k
<1>7. a + 1 <= k
  <2> SUFFICES ASSUME k <= a PROVE FALSE
    BY <1>5, <1>6
  <2>1. k * TileSize <= a * TileSize
    BY <1>1, <1>5, <1>6, ProductLeq
  <2>2. k * TileSize = TileSize * k /\ a * TileSize = TileSize * a /\ TileSize * a \in Nat
    BY <1>1, <1>5, <1>6
  <2>3. QED BY <1>1, <1>2, <1>5, <1>6, <2>1, <2>2
<1>8. h - d - 1 = TileSize * (k - a - 1) + (TileSize - b - 1) /\ k - a - 1 \in Nat /\ TileSize - b - 1 \in 0..(TileSize - 1)
  <2>1. k - a - 1 \in Nat /\ TileSize - b - 1 \in 0..(TileSize - 1)
    BY <1>1, <1>5, <1>6, <1>7
  <2>2. \A x1, x2, x3 \in Nat : x1 * (x2 - x3 - 1) = x1 * x2 - x1 * x3 - x1
    OBVIOUS
  <2>3. TileSize * (k - a - 1) = TileSize * k - TileSize * a - TileSize
    BY <1>1, <1>5, <1>6, <2>2
  <2>4. TileSize * k \in Nat /\ TileSize * a \in Nat
    BY <1>1, <1>5, <1>6
  <2>5. QED BY <1>1, <1>5, <1>6, <2>1, <2>3, <2>4
<1>9. (h - d - 1) \div TileSize = k - a - 1
  BY <1>1, <1>8, QuotientIs
<1>10. CASE s.vflip
  <2>1. DotOf(s, t, off, ln)[2] = TileSize * (k - a - 1) + (TileSize - b - 1)
    BY <1>3, <1>9, <1>10 DEF b
  <2>2. DotOf(s, t, off, ln)[2] = h - d - 1
    BY <1>8, <2>1
  <2>3. h - d - 1 = h - 1 - d
    BY <1>1, <1>2
  <2>4. QED BY <1>4, <1>10, <2>2, <2>3
<1>11. CASE ~s.vflip
  <2>1. DotOf(s, t, off, ln)[2] = TileSize * a + b
    BY <1>3, <1>11 DEF a, b
  <2>2. QED BY <1>4, <1>5, <1>11, <2>1
<1>12. QED BY <1>10, <1>11

LEMMA ColumnFlipped ==
  ASSUME NEW s \in SpriteType, NEW c \in Nat, NEW t \in 0..(TilesWide(s) - 1), NEW ln
  PROVE  LET off == c - TileX(s, t)
         IN  /\ off \in 0..(TileSize - 1) <=>
                  Column(s, c) \in 0..(SpriteWidth(s) - 1) /\ t = Column(s, c) \div TileSize
             /\ DotOf(s, t, off, ln)[1] = Column(s, c)
<1> DEFINE off == c - TileX(s, t)
           e == Column(s, c)
           w == TilesWide(s)
           W == SpriteWidth(s)
<1>1. w \in Nat \ {0} /\ W \in Nat /\ W = TileSize * w /\ TileSize \in Nat \ {0} /\ s.x \in Int
  BY SizesAre, SpriteSizes DEF SpriteType
<1>2. off = c - (s.x + TileSize * (IF s.hflip THEN w - t - 1 ELSE t))
  BY DEF TileX
<1>3. e = IF s.hflip THEN W - 1 - (c - s.x) ELSE c - s.x
  BY DEF Column
<1>4. DotOf(s, t, off, ln)[1] = TileSize * t + IF s.hflip THEN TileSize - off - 1 ELSE off
  BY DEF DotOf
<1> HIDE DEF off, e, w, W
<1>5. t \in Nat /\ t < w
  BY <1>1 DEF w
<1>6. TileSize * (w - t - 1) = W - TileSize * t - TileSize
  <2>1. \A x1, x2, x3 \in Nat : x1 * (x2 - x3 - 1) = x1 * x2 - x1 * x3 - x1
    OBVIOUS
  <2>2. QED BY <1>1, <1>5, <2>1
<1>7. TileSize * t \in Nat
  BY <1>1, <1>5
<1>8. e \in Int /\ off \in Int /\ e = TileSize * t + IF s.hflip THEN TileSize - off - 1 ELSE off
  <2>1. CASE s.hflip
    <3>1. off = c - (s.x + (W - TileSize * t - TileSize)) /\ e = W - 1 - (c - s.x)
      BY <1>2, <1>3, <1>6, <2>1
    <3>2. QED BY <1>1, <1>7, <2>1, <3>1
  <2>2. CASE ~s.hflip
    <3>1. off = c - (s.x + TileSize * t) /\ e = c - s.x
      BY <1>2, <1>3, <2>2
    <3>2. QED BY <1>1, <1>7, <2>2, <3>1
  <2>3. QED BY <2>1, <2>2
<1>9. off \in 0..(TileSize - 1) <=> e - TileSize * t \in 0..(TileSize - 1)
  BY <1>1, <1>7, <1>8
<1>10. ASSUME e - TileSize * t \in 0..(TileSize - 1)
       PROVE  e \in 0..(W - 1) /\ t = e \div TileSize
  <2> DEFINE r == e - TileSize * t
  <2>1. r \in 0..(TileSize - 1) /\ e = TileSize * t + r
    BY <1>1, <1>7, <1>8, <1>10
  <2> HIDE DEF r
  <2>2. e \div TileSize = t
    BY <1>1, <1>5, <2>1, QuotientIs
  <2>3. TileSize * t + TileSize <= W
    <3>1. (t + 1) * TileSize <= w * TileSize
      BY <1>1, <1>5, ProductLeq
    <3>2. (t + 1) * TileSize = TileSize * t + TileSize /\ w * TileSize = TileSize * w
      BY <1>1, <1>5
    <3>3. QED BY <1>1, <3>1, <3>2
  <2>4. e \in 0..(W - 1)
    BY <1>1, <1>7, <2>1, <2>3
  <2>5. QED BY <2>2, <2>4
<1>11. ASSUME e \in 0..(W - 1), t = e \div TileSize
       PROVE  e - TileSize * t \in 0..(TileSize - 1)
  <2>1. e \in Nat
    BY <1>1, <1>11
  <2>2. e % TileSize \in 0..(TileSize - 1) /\ e = TileSize * t + (e % TileSize)
    BY <1>1, <1>11, <2>1, Division
  <2>3. QED BY <1>1, <1>7, <2>1, <2>2
<1>12. off \in 0..(TileSize - 1) <=> e \in 0..(W - 1) /\ t = e \div TileSize
  BY <1>9, <1>10, <1>11
<1>13. QED BY <1>4, <1>8, <1>12 DEF off, e, W

\* A tile has a dot where the sprite has one, in the tile that dot is in.
LEMMA CoversIs ==
  ASSUME NEW objs \in Oams, NEW i \in SpriteNo, NEW t \in 0..(TilesWide(objs[i]) - 1), NEW c \in Nat,
         NEW ln \in Nat, SpriteOnScanline(objs[i], ln)
  PROVE  Covers(objs, [sprite |-> i, tile |-> t], ln, c) <=>
           /\ Column(objs[i], c) \in 0..(SpriteWidth(objs[i]) - 1) /\ t = Column(objs[i], c) \div TileSize
           /\ <<Column(objs[i], c), RowNo(objs[i], ln)>> \notin objs[i].clear
<1> DEFINE s == objs[i]
           off == c - TileX(s, t)
<1>1. s \in SpriteType
  BY DEF Oams
<1>2. Covers(objs, [sprite |-> i, tile |-> t], ln, c) <=>
        off \in 0..(TileSize - 1) /\ DotOf(s, t, off, ln) \notin s.clear
  BY DEF Covers
<1>3. DotOf(s, t, off, ln) = <<DotOf(s, t, off, ln)[1], DotOf(s, t, off, ln)[2]>>
  BY DEF DotOf
<1>4. DotOf(s, t, off, ln) = <<Column(s, c), RowNo(s, ln)>>
  BY <1>1, <1>3, RowFlipped, ColumnFlipped
<1>5. off \in 0..(TileSize - 1) <=> Column(s, c) \in 0..(SpriteWidth(s) - 1) /\ t = Column(s, c) \div TileSize
  BY <1>1, ColumnFlipped
<1>6. QED BY <1>2, <1>4, <1>5

LEMMA LeastPlace ==
  ASSUME NEW P \in SUBSET Nat, P # {}
  PROVE  \E p \in P : \A q \in P : p <= q
<1> DEFINE Less == {ss \in Nat \X Nat : ss[1] < ss[2]}
<1>1. IsWellFoundedOn(Less, Nat)
  BY NatLessThanWellFounded DEF OpToRel
<1>2. \A m, n \in Nat : m < n => <<m, n>> \in Less
  OBVIOUS
<1> HIDE DEF Less
<1>3. \E p \in P : \A q \in P : ~(<<q, p>> \in Less)
  BY <1>1, WFMin
<1>4. PICK p \in P : \A q \in P : ~(<<q, p>> \in Less)
  BY <1>3
<1>5. ASSUME NEW q \in P PROVE p <= q
  <2> SUFFICES ASSUME ~(p <= q) PROVE FALSE
    OBVIOUS
  <2>1. p \in Nat /\ q \in Nat /\ q < p
    OBVIOUS
  <2>2. QED BY <1>2, <1>4, <2>1
<1>6. QED BY <1>5

\* The place of the tile that has a dot of place p at c.
TilePlace(objs, first, ln, c, p) ==
  TilesBehind(objs, first, ln, p) + Column(objs[At(first, p)], c) \div TileSize + 1

LEMMA DotIs ==
  ASSUME NEW objs \in Oams, NEW first \in SpriteNo, NEW ln \in Nat, NEW c \in Nat, NEW p \in SpriteNo
  PROVE  HasDot(objs, first, ln, c, p) <=>
           LET s == objs[At(first, p)]
           IN  /\ InRange(objs, first, ln, p)
               /\ Column(s, c) \in 0..(SpriteWidth(s) - 1) /\ <<Column(s, c), RowNo(s, ln)>> \notin s.clear
               /\ TilesBehind(objs, first, ln, p) + Column(s, c) \div TileSize < TimeMax
BY DEF HasDot, Column, RowNo

\* A column of a sprite is in one of its tiles.
LEMMA TileOfColumn ==
  ASSUME NEW s \in SpriteType, NEW e \in 0..(SpriteWidth(s) - 1)
  PROVE  e \div TileSize \in 0..(TilesWide(s) - 1)
<1>1. SpriteWidth(s) \in Nat /\ TilesWide(s) \in Nat \ {0} /\ SpriteWidth(s) = TileSize * TilesWide(s)
      /\ TileSize \in Nat \ {0}
  BY SizesAre, SpriteSizes
<1> DEFINE a == e \div TileSize
           b == e % TileSize
           w == TilesWide(s)
<1>2. e \in Nat /\ e < TileSize * w
  BY <1>1
<1>3. a \in Nat /\ b \in 0..(TileSize - 1) /\ e = TileSize * a + b
  BY <1>1, <1>2, Division
<1>4. w \in Nat \ {0}
  BY <1>1
<1> HIDE DEF a, b, w
<1>5. a < w
  <2> SUFFICES ASSUME w <= a PROVE FALSE
    BY <1>3, <1>4
  <2>1. w * TileSize <= a * TileSize
    BY <1>1, <1>3, <1>4, ProductLeq
  <2>2. w * TileSize = TileSize * w /\ a * TileSize = TileSize * a /\ TileSize * a \in Nat /\ TileSize * w \in Nat
    BY <1>1, <1>3, <1>4
  <2>3. QED BY <1>1, <1>2, <1>3, <2>1, <2>2
<1>6. QED BY <1>3, <1>4, <1>5 DEF a, w

\* The tiles that are loaded are the first TimeMax of them.
LEMMA LoadedIs ==
  ASSUME NEW objs \in Oams, NEW first \in SpriteNo, NEW ln
  PROVE  LET tiles == TilesOf(objs, Visible(objs, first, ln))
             loaded == LoadedTiles(objs, first, ln)
         IN  /\ Stacked(tiles, -1, objs, first, ln)
             /\ DOMAIN loaded = 1..Len(loaded) /\ Len(loaded) \in Nat
             /\ \A k \in Nat : k \in 1..Len(loaded) <=> k \in 1..Len(tiles) /\ k <= TimeMax
             /\ \A k \in 1..Len(loaded) : loaded[k] = tiles[k]
<1> DEFINE tiles == TilesOf(objs, Visible(objs, first, ln))
           loaded == LoadedTiles(objs, first, ln)
<1>1. Stacked(tiles, -1, objs, first, ln)
  BY VisibleRanged, TilesStacked
<1>2. tiles \in Seq(TileType)
  BY <1>1 DEF Stacked
<1>3. loaded = Prefix(tiles, TimeMax)
  BY DEF LoadedTiles
<1> HIDE DEF tiles, loaded
<1>4. /\ loaded \in Seq(TileType) /\ Len(loaded) = (IF Len(tiles) < TimeMax THEN Len(tiles) ELSE TimeMax)
      /\ \A j \in 1..Len(loaded) : loaded[j] = tiles[j]
  BY <1>2, <1>3, PrefixIs, SpriteSizes
<1>5. Len(tiles) \in Nat /\ Len(loaded) \in Nat /\ TimeMax \in Nat /\ DOMAIN loaded = 1..Len(loaded)
  BY <1>2, <1>4, SpriteSizes
<1>6. \A k \in Nat : k \in 1..Len(loaded) <=> k \in 1..Len(tiles) /\ k <= TimeMax
  BY <1>4, <1>5
<1>7. QED BY <1>1, <1>4, <1>5, <1>6 DEF tiles, loaded

\* The loaded tiles that have a dot at c.
Covering(objs, first, ln, c) ==
  {k \in DOMAIN LoadedTiles(objs, first, ln) : Covers(objs, LoadedTiles(objs, first, ln)[k], ln, c)}

LEMMA CoveringIs ==
  ASSUME NEW objs \in Oams, NEW first \in SpriteNo, NEW ln \in Nat, NEW c \in Nat
  PROVE  /\ \A k \in Covering(objs, first, ln, c) :
              \E p \in SpriteNo : /\ HasDot(objs, first, ln, c, p) /\ k = TilePlace(objs, first, ln, c, p)
                                  /\ LoadedTiles(objs, first, ln)[k].sprite = At(first, p)
         /\ \A p \in SpriteNo : HasDot(objs, first, ln, c, p) =>
              TilePlace(objs, first, ln, c, p) \in Covering(objs, first, ln, c)
<1> DEFINE tiles == TilesOf(objs, Visible(objs, first, ln))
           loaded == LoadedTiles(objs, first, ln)
           T(p) == TilesBehind(objs, first, ln, p)
           Sp(p) == objs[At(first, p)]
           w(p) == Wide(objs, first, p)
           I(p) == InRange(objs, first, ln, p)
           Col(p) == Column(Sp(p), c)
           Clear(p) == <<Col(p), RowNo(Sp(p), ln)>> \in Sp(p).clear
<1>1. /\ DOMAIN loaded = 1..Len(loaded) /\ Len(loaded) \in Nat
      /\ \A k \in Nat : k \in 1..Len(loaded) <=> k \in 1..Len(tiles) /\ k <= TimeMax
      /\ \A k \in 1..Len(loaded) : loaded[k] = tiles[k]
  BY LoadedIs
<1>2. Stacked(tiles, -1, objs, first, ln)
  BY LoadedIs
<1>3. \A q \in SpriteNo : q \in Nat /\ -1 < q /\ q \in -1..Sprite
  BY SpriteSizes DEF SpriteNo
<1>4. /\ Len(tiles) \in Nat
      /\ \A q \in SpriteNo : I(q) => \A t \in 1..w(q) :
           T(q) + t \in 1..Len(tiles) /\ tiles[T(q) + t] = [sprite |-> At(first, q), tile |-> t - 1]
      /\ \A l \in 1..Len(tiles) : \E q \in SpriteNo : \E t \in 1..w(q) : I(q) /\ l = T(q) + t
  <2> HIDE DEF tiles
  <2>1. Len(tiles) \in Nat
    BY <1>2 DEF Stacked
  <2>2. QED BY <1>2, <1>3, <2>1, Zenon DEF Stacked
<1>5. \A p \in SpriteNo : /\ Sp(p) \in SpriteType /\ At(first, p) \in SpriteNo /\ T(p) \in Nat
                          /\ w(p) \in Nat \ {0} /\ w(p) = TilesWide(Sp(p))
  BY <1>3, SpriteIs, AtIs, BehindFinite, WideIs DEF Wide
<1>6. \A p \in SpriteNo : HasDot(objs, first, ln, c, p) <=>
        I(p) /\ Col(p) \in 0..(SpriteWidth(Sp(p)) - 1) /\ ~Clear(p) /\ T(p) + Col(p) \div TileSize < TimeMax
  BY DotIs
<1>7. \A p \in SpriteNo : I(p) => \A t \in 1..w(p) :
        Covers(objs, [sprite |-> At(first, p), tile |-> t - 1], ln, c) <=>
          Col(p) \in 0..(SpriteWidth(Sp(p)) - 1) /\ t - 1 = Col(p) \div TileSize /\ ~Clear(p)
  <2> SUFFICES ASSUME NEW p \in SpriteNo, I(p), NEW t \in 1..w(p)
               PROVE  Covers(objs, [sprite |-> At(first, p), tile |-> t - 1], ln, c) <=>
                        Col(p) \in 0..(SpriteWidth(Sp(p)) - 1) /\ t - 1 = Col(p) \div TileSize /\ ~Clear(p)
    OBVIOUS
  <2>1. t - 1 \in 0..(TilesWide(objs[At(first, p)]) - 1)
    BY <1>5
  <2>2. SpriteOnScanline(objs[At(first, p)], ln)
    BY DEF InRange
  <2>3. At(first, p) \in SpriteNo
    BY <1>5
  <2>4. QED BY <2>1, <2>2, <2>3, CoversIs
<1>8. \A p : TilePlace(objs, first, ln, c, p) = T(p) + Col(p) \div TileSize + 1
  BY DEF TilePlace
<1>9. \A p \in SpriteNo : Col(p) \in 0..(SpriteWidth(Sp(p)) - 1) => Col(p) \div TileSize \in 0..(w(p) - 1)
  BY <1>5, TileOfColumn
<1>10. \A k : k \in Covering(objs, first, ln, c) <=> k \in 1..Len(loaded) /\ Covers(objs, loaded[k], ln, c)
  BY <1>1 DEF Covering
<1> HIDE DEF tiles, loaded, T, Sp, w, I, Col, Clear
<1>11. ASSUME NEW k \in Covering(objs, first, ln, c)
       PROVE  \E p \in SpriteNo : /\ HasDot(objs, first, ln, c, p) /\ k = TilePlace(objs, first, ln, c, p)
                                  /\ loaded[k].sprite = At(first, p)
  <2>1. k \in 1..Len(loaded) /\ Covers(objs, loaded[k], ln, c) /\ k \in Nat
    BY <1>1, <1>10
  <2>2. k \in 1..Len(tiles) /\ k <= TimeMax /\ loaded[k] = tiles[k]
    BY <1>1, <2>1
  <2>3. PICK p \in SpriteNo : \E t \in 1..w(p) : I(p) /\ k = T(p) + t
    BY <1>4, <2>2
  <2>4. PICK t \in 1..w(p) : I(p) /\ k = T(p) + t
    BY <2>3
  <2>5. loaded[k] = [sprite |-> At(first, p), tile |-> t - 1]
    BY <1>4, <2>2, <2>4
  <2>6. Col(p) \in 0..(SpriteWidth(Sp(p)) - 1) /\ t - 1 = Col(p) \div TileSize /\ ~Clear(p)
    BY <1>7, <2>1, <2>4, <2>5
  <2>7. T(p) \in Nat /\ w(p) \in Nat /\ t \in Nat /\ TimeMax \in Nat
    BY <1>5, SpriteSizes
  <2>8. k = T(p) + Col(p) \div TileSize + 1 /\ T(p) + Col(p) \div TileSize < TimeMax
    <3>1. k = T(p) + (t - 1) + 1 /\ T(p) + (t - 1) < TimeMax
      BY <2>2, <2>4, <2>7
    <3>2. QED BY <2>6, <3>1
  <2>9. HasDot(objs, first, ln, c, p) /\ k = TilePlace(objs, first, ln, c, p)
    BY <1>6, <1>8, <2>4, <2>6, <2>8
  <2>10. loaded[k].sprite = At(first, p)
    BY <2>5
  <2>11. QED BY <2>9, <2>10
<1>12. ASSUME NEW p \in SpriteNo, HasDot(objs, first, ln, c, p)
       PROVE  TilePlace(objs, first, ln, c, p) \in Covering(objs, first, ln, c)
  <2>1. I(p) /\ Col(p) \in 0..(SpriteWidth(Sp(p)) - 1) /\ ~Clear(p) /\ T(p) + Col(p) \div TileSize < TimeMax
    BY <1>6, <1>12
  <2> DEFINE t == Col(p) \div TileSize + 1
             k == T(p) + t
  <2>2. t \in 1..w(p) /\ t - 1 = Col(p) \div TileSize /\ t \in Nat
    <3>1. Col(p) \div TileSize \in 0..(w(p) - 1) /\ w(p) \in Nat
      BY <1>5, <1>9, <2>1
    <3>2. QED BY <3>1
  <2>3. T(p) \in Nat /\ TimeMax \in Nat
    BY <1>5, SpriteSizes
  <2>4. TilePlace(objs, first, ln, c, p) = k
    <3>1. T(p) + Col(p) \div TileSize + 1 = T(p) + (Col(p) \div TileSize + 1)
      BY <2>2, <2>3
    <3>2. QED BY <1>8, <3>1
  <2>5. T(p) + (t - 1) < TimeMax
    BY <2>1, <2>2
  <2> HIDE DEF t
  <2>6. k \in Nat /\ k <= TimeMax
    BY <2>2, <2>3, <2>5
  <2>7. k \in 1..Len(tiles) /\ tiles[k] = [sprite |-> At(first, p), tile |-> t - 1]
    BY <1>4, <2>1, <2>2
  <2>8. k \in 1..Len(loaded) /\ loaded[k] = [sprite |-> At(first, p), tile |-> t - 1]
    BY <1>1, <2>6, <2>7
  <2>9. Covers(objs, loaded[k], ln, c)
    BY <1>7, <2>1, <2>2, <2>8
  <2>10. QED BY <1>10, <2>4, <2>8, <2>9
<1>13. QED BY <1>11, <1>12 DEF loaded

\* Tiles of sprites in front are loaded later.
LEMMA PlacesApart ==
  ASSUME NEW objs \in Oams, NEW first \in SpriteNo, NEW ln \in Nat, NEW c \in Nat,
         NEW p \in SpriteNo, NEW q \in SpriteNo, p < q,
         HasDot(objs, first, ln, c, p), HasDot(objs, first, ln, c, q)
  PROVE  TilePlace(objs, first, ln, c, q) < TilePlace(objs, first, ln, c, p)
<1> DEFINE T(r) == TilesBehind(objs, first, ln, r)
           D(r) == Column(objs[At(first, r)], c) \div TileSize
<1>1. \A r \in SpriteNo : HasDot(objs, first, ln, c, r) =>
        /\ InRange(objs, first, ln, r) /\ D(r) \in 0..(Wide(objs, first, r) - 1)
        /\ Wide(objs, first, r) \in Nat /\ T(r) \in Nat
  <2> SUFFICES ASSUME NEW r \in SpriteNo, HasDot(objs, first, ln, c, r)
               PROVE  /\ InRange(objs, first, ln, r) /\ D(r) \in 0..(Wide(objs, first, r) - 1)
                      /\ Wide(objs, first, r) \in Nat /\ T(r) \in Nat
    OBVIOUS
  <2>1. InRange(objs, first, ln, r)
        /\ Column(objs[At(first, r)], c) \in 0..(SpriteWidth(objs[At(first, r)]) - 1)
    BY DotIs
  <2>2. D(r) \in 0..(Wide(objs, first, r) - 1)
    BY <2>1, SpriteIs, TileOfColumn DEF Wide
  <2>3. r \in -1..Sprite
    BY SpriteSizes DEF SpriteNo
  <2>4. QED BY <2>1, <2>2, <2>3, WideIs, BehindFinite
<1>2. \A r : TilePlace(objs, first, ln, c, r) = T(r) + D(r) + 1
  BY DEF TilePlace
<1>3. p \in -1..Sprite /\ p \in Nat /\ q \in Nat
  BY SpriteSizes DEF SpriteNo
<1>4. p < q => T(q) + Wide(objs, first, q) <= T(p)
  BY <1>1, <1>3, BehindNext
<1> HIDE DEF T, D
<1>5. T(q) + D(q) + 1 < T(p) + D(p) + 1
  BY <1>1, <1>4
<1>6. QED BY <1>2, <1>5

\* What the loops compute is what the definition by places says.
LEMMA SpriteLineIs ==
  ASSUME NEW objs \in Oams, NEW first \in SpriteNo, NEW ln \in Nat, NEW c \in 0..(Width - 1)
  PROVE  LET dot == SpriteLine(objs, first, ln)[c]
         IN  /\ dot.sprite = FrontSprite(objs, first, ln, c)
             /\ \/ dot = NoSprite
                \/ \E i \in SpriteNo : dot = [sprite |-> i, prio |-> objs[i].prio, opaque |-> objs[i].opaque]
<1> DEFINE dot == SpriteLine(objs, first, ln)[c]
           cov == Covering(objs, first, ln, c)
           P == {p \in 0..(Sprite - 1) : HasDot(objs, first, ln, c, p)}
           K(p) == TilePlace(objs, first, ln, c, p)
           loaded == LoadedTiles(objs, first, ln)
<1>1. c \in Nat
  BY SpriteSizes
<1>2. /\ \A k \in cov : \E p \in P : k = K(p) /\ loaded[k].sprite = At(first, p)
      /\ \A p \in P : K(p) \in cov
  <2>1. P = {p \in SpriteNo : HasDot(objs, first, ln, c, p)}
    BY DEF SpriteNo
  <2>2. QED BY <1>1, <2>1, CoveringIs
<1>3. dot = IF cov = {} THEN NoSprite
            ELSE LET i == loaded[Max(cov)].sprite
                 IN  [sprite |-> i, prio |-> objs[i].prio, opaque |-> objs[i].opaque]
  BY DEF SpriteLine, Covering
<1>4. FrontSprite(objs, first, ln, c) = IF P = {} THEN -1 ELSE At(first, CHOOSE p \in P : \A q \in P : p <= q)
  BY DEF FrontSprite
<1>5. \A p \in P : p \in SpriteNo /\ p \in Nat
  BY SpriteSizes DEF SpriteNo
<1>6. \A p, q \in P : p < q => K(q) < K(p)
  BY <1>1, <1>5, PlacesApart
<1>7. \A k \in cov : k \in Nat
  <2>1. DOMAIN loaded = 1..Len(loaded) /\ Len(loaded) \in Nat
    BY LoadedIs
  <2>2. \A k \in cov : k \in DOMAIN loaded
    BY DEF Covering
  <2> HIDE DEF cov, loaded
  <2>3. QED BY <2>1, <2>2
<1> HIDE DEF dot, cov, P, K, loaded
<1>8. CASE P = {}
  <2>1. cov = {}
    BY <1>2, <1>8
  <2>2. dot = NoSprite
    BY <1>3, <2>1
  <2>3. dot.sprite = -1
    BY <2>2 DEF NoSprite
  <2>4. QED BY <1>4, <1>8, <2>2, <2>3 DEF dot
<1>9. CASE P # {}
  <2>1. P \in SUBSET Nat
    BY <1>5
  <2>2. \E p \in P : \A q \in P : p <= q
    BY <1>9, <2>1, LeastPlace
  <2> DEFINE least == CHOOSE p \in P : \A q \in P : p <= q
  <2>3. least \in P /\ \A q \in P : least <= q
    BY <2>2
  <2> HIDE DEF least
  <2>4. K(least) \in cov /\ \A k \in cov : K(least) >= k
    <3>1. K(least) \in cov
      BY <1>2, <2>3
    <3>2. ASSUME NEW k \in cov PROVE K(least) >= k
      <4>1. PICK q \in P : k = K(q)
        BY <1>2
      <4>2. q = least \/ K(q) < K(least)
        BY <1>5, <1>6, <2>3
      <4>3. QED BY <1>7, <3>1, <4>1, <4>2
    <3>3. QED BY <3>1, <3>2
  <2>5. Max(cov) = K(least)
    <3>1. Max(cov) = CHOOSE k \in cov : \A m \in cov : k >= m
      BY DEF Max
    <3>2. Max(cov) \in cov /\ \A m \in cov : Max(cov) >= m
      BY <2>4, <3>1
    <3>3. Max(cov) >= K(least) /\ K(least) >= Max(cov) /\ Max(cov) \in Nat /\ K(least) \in Nat
      BY <1>7, <2>4, <3>2
    <3>4. QED BY <3>3
  <2>6. loaded[K(least)].sprite = At(first, least)
    <3>1. PICK p \in P : K(least) = K(p) /\ loaded[K(least)].sprite = At(first, p)
      BY <1>2, <2>4
    <3>2. p = least
      <4>1. p = least \/ K(p) < K(least)
        BY <1>5, <1>6, <2>3
      <4>2. K(least) \in Nat
        BY <1>7, <2>4
      <4>3. QED BY <3>1, <4>1, <4>2
    <3>3. QED BY <3>1, <3>2
  <2>7. cov # {}
    BY <2>4
  <2>8. dot = [sprite |-> At(first, least), prio |-> objs[At(first, least)].prio, opaque |-> objs[At(first, least)].opaque]
    BY <1>3, <2>5, <2>6, <2>7
  <2>9. At(first, least) \in SpriteNo
    BY <1>5, <2>3, AtIs
  <2>10. FrontSprite(objs, first, ln, c) = At(first, least)
    BY <1>4, <1>9 DEF least
  <2>11. dot.sprite = FrontSprite(objs, first, ln, c)
    BY <2>8, <2>10
  <2>12. QED BY <2>8, <2>9, <2>11 DEF dot
<1>10. QED BY <1>8, <1>9

LEMMA OverflowIs ==
  ASSUME NEW objs \in Oams, NEW first \in SpriteNo, NEW ln \in Nat
  PROVE  /\ RangeOver(objs, first, ln) <=> InFront(objs, first, ln, Sprite) > RangeMax
         /\ TimeOver(objs, first, ln) <=> TilesBehind(objs, first, ln, -1) > TimeMax
<1>1. Len(OnLine(objs, first, ln)) = InFront(objs, first, ln, Sprite)
  BY OnLineLists DEF Lists
<1>2. Stacked(TilesOf(objs, Visible(objs, first, ln)), -1, objs, first, ln)
  BY LoadedIs
<1>3. Len(TilesOf(objs, Visible(objs, first, ln))) = TilesBehind(objs, first, ln, -1)
  BY <1>2 DEF Stacked
<1>4. QED BY <1>1, <1>3 DEF RangeOver, TimeOver

-----------------------------------------------------------------------------
(* Layers: each mode lists its own from front to back.                     *)

Prios == IF regs.mode = 7 THEN {0} ELSE {0, 1}

DepthOf(entry) == Depth(entry[1], entry[2])

\* An entry of the mode.
Listed(entry) == \/ \E p \in 0..3 : entry = <<OBJ, p>>
                 \/ \E bg \in BgsOfMode, p \in Prios : entry = <<bg, p>>

\* What the order of a mode lists, each behind the one before it.
FrontToBack(order) ==
  /\ \A k \in DOMAIN order : Listed(order[k])
  /\ \A p \in 0..3 : \E k \in DOMAIN order : order[k] = <<OBJ, p>>
  /\ \A bg \in BgsOfMode, p \in Prios : \E k \in DOMAIN order : order[k] = <<bg, p>>
  /\ DOMAIN order \subseteq Nat
  /\ \A j, k \in DOMAIN order : j < k => DepthOf(order[j]) < DepthOf(order[k])

\* Mode 0.
LEMMA FrontToBack0 ==
  ASSUME regs.mode = 0
  PROVE  FrontToBack(Order(regs))
<1> DEFINE o == <<<<5, 3>>, <<1, 1>>, <<2, 1>>, <<5, 2>>, <<1, 0>>, <<2, 0>>,
                  <<5, 1>>, <<3, 1>>, <<4, 1>>, <<5, 0>>, <<3, 0>>, <<4, 0>>>>
           d == <<0, 1, 2, 3, 4, 5, 6, 7, 8, 9, 10, 11>>
<1>1. Order(regs) = o
  BY DEF Order, S, B, OBJ
<1>2. BgsOfMode = 1..4 /\ Prios = {0, 1} /\ BG3First(regs) = <<>>
  BY DEF BgsOfMode, Prios, BG3First
<1>3. /\ DepthOf(<<5, 3>>) = 0 /\ DepthOf(<<5, 2>>) = 3 /\ DepthOf(<<5, 1>>) = 6
      /\ DepthOf(<<5, 0>>) = 9 /\ DepthOf(<<1, 1>>) = 1 /\ DepthOf(<<1, 0>>) = 4
      /\ DepthOf(<<2, 1>>) = 2 /\ DepthOf(<<2, 0>>) = 5 /\ DepthOf(<<3, 1>>) = 7
      /\ DepthOf(<<3, 0>>) = 10 /\ DepthOf(<<4, 1>>) = 8 /\ DepthOf(<<4, 0>>) = 11
  BY <1>2 DEF DepthOf, Depth, OBJ
<1>4. DOMAIN o = 1..12 /\ \A k \in 1..12 : DepthOf(o[k]) = d[k]
  BY <1>3
<1>5. \A j, k \in 1..12 : j < k => d[j] < d[k]
  OBVIOUS
<1>6. \A j, k \in DOMAIN o : j < k => DepthOf(o[j]) < DepthOf(o[k])
  <2> HIDE DEF o, d
  <2>1. QED BY <1>4, <1>5
<1>7. /\ o[1] = <<5, 3>> /\ o[2] = <<1, 1>> /\ o[3] = <<2, 1>> /\ o[4] = <<5, 2>>
      /\ o[5] = <<1, 0>> /\ o[6] = <<2, 0>> /\ o[7] = <<5, 1>> /\ o[8] = <<3, 1>>
      /\ o[9] = <<4, 1>> /\ o[10] = <<5, 0>> /\ o[11] = <<3, 0>> /\ o[12] = <<4, 0>>
  OBVIOUS
<1> HIDE DEF o
<1>8. \A k \in DOMAIN o : Listed(o[k])
  BY <1>2, <1>4, <1>7 DEF Listed, OBJ
<1>9. \A p \in 0..3 : \E k \in DOMAIN o : o[k] = <<OBJ, p>>
  BY <1>4, <1>7 DEF OBJ
<1>10. \A bg \in BgsOfMode, p \in Prios : \E k \in DOMAIN o : o[k] = <<bg, p>>
  BY <1>2, <1>4, <1>7
<1>11. QED BY <1>1, <1>4, <1>6, <1>8, <1>9, <1>10 DEF FrontToBack

\* What has the elements of one sequence and then those of another.
Joins(s, r, t) ==
  /\ Len(t) = Len(s) + Len(r)
  /\ \A k \in 1..Len(s) : t[k] = s[k]
  /\ \A k \in 1..Len(r) : t[Len(s) + k] = r[k]

LEMMA JoinedIs ==
  ASSUME NEW Entries, NEW s \in Seq(Entries), NEW r \in Seq(Entries), NEW t \in Seq(Entries),
         Joins(s, r, t)
  PROVE  s \o r = t
<1> DEFINE j == s \o r
<1>1. /\ j \in Seq(Entries) /\ Len(j) = Len(s) + Len(r)
      /\ \A k \in 1..Len(s) : j[k] = s[k]
      /\ \A k \in 1..Len(r) : j[Len(s) + k] = r[k]
  OBVIOUS
<1> HIDE DEF j
<1>2. \A k \in 1..(Len(s) + Len(r)) : j[k] = t[k]
  <2>1. TAKE k \in 1..(Len(s) + Len(r))
  <2>2. CASE k <= Len(s)
    BY <1>1, <2>2 DEF Joins
  <2>3. CASE ~(k <= Len(s))
    <3>1. k - Len(s) \in 1..Len(r) /\ Len(s) + (k - Len(s)) = k
      BY <2>3
    <3>2. QED BY <1>1, <3>1 DEF Joins
  <2>4. QED BY <2>2, <2>3
<1>3. j = t
  BY <1>1, <1>2 DEF Joins
<1>4. QED BY <1>3 DEF j

\* What is joined of a mode with two places for an entry.
LEMMA Joined ==
  ASSUME NEW a, NEW b1, NEW b2, NEW b3, NEW b4, NEW b5, NEW b6, NEW b7, NEW c1, NEW c2
  PROVE  /\ <<a>> \o <<b1, b2, b3, b4, b5, b6, b7>> \o <<>> \o <<c1, c2>>
              = <<a, b1, b2, b3, b4, b5, b6, b7, c1, c2>>
         /\ <<>> \o <<b1, b2, b3, b4, b5, b6, b7>> \o <<a>> \o <<c1, c2>>
              = <<b1, b2, b3, b4, b5, b6, b7, a, c1, c2>>
<1> DEFINE All == {a, b1, b2, b3, b4, b5, b6, b7, c1, c2}
           one == <<a>>
           seven == <<b1, b2, b3, b4, b5, b6, b7>>
           eight == <<a, b1, b2, b3, b4, b5, b6, b7>>
           back == <<b1, b2, b3, b4, b5, b6, b7, a>>
           two == <<c1, c2>>
           left == <<a, b1, b2, b3, b4, b5, b6, b7, c1, c2>>
           right == <<b1, b2, b3, b4, b5, b6, b7, a, c1, c2>>
<1>1. /\ one \in Seq(All) /\ seven \in Seq(All) /\ two \in Seq(All)
      /\ eight \in Seq(All) /\ back \in Seq(All) /\ left \in Seq(All) /\ right \in Seq(All)
  OBVIOUS
<1>2. Joins(one, seven, eight) /\ Joins(seven, one, back)
  BY DEF Joins
<1>3. Joins(eight, two, left) /\ Joins(back, two, right)
  BY DEF Joins
<1>4. <<>> \o seven = seven /\ eight \o <<>> = eight
  OBVIOUS
<1> HIDE DEF All, one, seven, eight, back, two, left, right
<1>5. one \o seven = eight /\ seven \o one = back
  BY ONLY <1>1, <1>2, JoinedIs
<1>6. eight \o two = left /\ back \o two = right
  BY ONLY <1>1, <1>3, JoinedIs
<1>7. /\ one \o seven \o <<>> \o two = left
      /\ <<>> \o seven \o one \o two = right
  BY <1>4, <1>5, <1>6, Zenon
<1>8. QED BY <1>7, Zenon DEF one, seven, two, left, right

\* Mode 1 with BG 3 in front of everything.
LEMMA FrontToBack1Front ==
  ASSUME regs.mode = 1, regs.front = TRUE
  PROVE  FrontToBack(Order(regs))
<1> DEFINE o == <<<<3, 1>>, <<5, 3>>, <<1, 1>>, <<2, 1>>, <<5, 2>>, <<1, 0>>,
                  <<2, 0>>, <<5, 1>>, <<5, 0>>, <<3, 0>>>>
           d == <<-1, 0, 1, 2, 3, 4, 5, 6, 9, 10>>
<1>1. Order(regs) = o
  <2> DEFINE front == <<<<3, 1>>>>
             seven == <<<<5, 3>>, <<1, 1>>, <<2, 1>>, <<5, 2>>, <<1, 0>>, <<2, 0>>, <<5, 1>>>>
             later == <<>>
             two == <<<<5, 0>>, <<3, 0>>>>
  <2>1. Order(regs) = front \o seven \o later \o two
    BY DEF Order, S, B, OBJ, BG3First, BG3Later
  <2>2. front \o seven \o later \o two = o
    BY Joined
  <2>3. QED BY <2>1, <2>2
<1>2. BgsOfMode = 1..3 /\ Prios = {0, 1} /\ BG3First(regs) # <<>>
  BY DEF BgsOfMode, Prios, BG3First
<1>3. /\ DepthOf(<<5, 3>>) = 0 /\ DepthOf(<<5, 2>>) = 3 /\ DepthOf(<<5, 1>>) = 6
      /\ DepthOf(<<5, 0>>) = 9 /\ DepthOf(<<1, 1>>) = 1 /\ DepthOf(<<1, 0>>) = 4
      /\ DepthOf(<<2, 1>>) = 2 /\ DepthOf(<<2, 0>>) = 5 /\ DepthOf(<<3, 1>>) = -1
      /\ DepthOf(<<3, 0>>) = 10
  BY <1>2 DEF DepthOf, Depth, OBJ
<1>4. DOMAIN o = 1..10 /\ \A k \in 1..10 : DepthOf(o[k]) = d[k]
  BY <1>3
<1>5. \A j, k \in 1..10 : j < k => d[j] < d[k]
  OBVIOUS
<1>6. \A j, k \in DOMAIN o : j < k => DepthOf(o[j]) < DepthOf(o[k])
  <2> HIDE DEF o, d
  <2>1. QED BY <1>4, <1>5
<1>7. /\ o[1] = <<3, 1>> /\ o[2] = <<5, 3>> /\ o[3] = <<1, 1>> /\ o[4] = <<2, 1>>
      /\ o[5] = <<5, 2>> /\ o[6] = <<1, 0>> /\ o[7] = <<2, 0>> /\ o[8] = <<5, 1>>
      /\ o[9] = <<5, 0>> /\ o[10] = <<3, 0>>
  OBVIOUS
<1> HIDE DEF o
<1>8. \A k \in DOMAIN o : Listed(o[k])
  BY <1>2, <1>4, <1>7 DEF Listed, OBJ
<1>9. \A p \in 0..3 : \E k \in DOMAIN o : o[k] = <<OBJ, p>>
  BY <1>4, <1>7 DEF OBJ
<1>10. \A bg \in BgsOfMode, p \in Prios : \E k \in DOMAIN o : o[k] = <<bg, p>>
  BY <1>2, <1>4, <1>7
<1>11. QED BY <1>1, <1>4, <1>6, <1>8, <1>9, <1>10 DEF FrontToBack

\* Mode 1 without.
LEMMA FrontToBack1 ==
  ASSUME regs.mode = 1, regs.front = FALSE
  PROVE  FrontToBack(Order(regs))
<1> DEFINE o == <<<<5, 3>>, <<1, 1>>, <<2, 1>>, <<5, 2>>, <<1, 0>>, <<2, 0>>,
                  <<5, 1>>, <<3, 1>>, <<5, 0>>, <<3, 0>>>>
           d == <<0, 1, 2, 3, 4, 5, 6, 7, 9, 10>>
<1>1. Order(regs) = o
  <2> DEFINE front == <<>>
             seven == <<<<5, 3>>, <<1, 1>>, <<2, 1>>, <<5, 2>>, <<1, 0>>, <<2, 0>>, <<5, 1>>>>
             later == <<<<3, 1>>>>
             two == <<<<5, 0>>, <<3, 0>>>>
  <2>1. Order(regs) = front \o seven \o later \o two
    BY DEF Order, S, B, OBJ, BG3First, BG3Later
  <2>2. front \o seven \o later \o two = o
    BY Joined
  <2>3. QED BY <2>1, <2>2
<1>2. BgsOfMode = 1..3 /\ Prios = {0, 1} /\ BG3First(regs) = <<>>
  BY DEF BgsOfMode, Prios, BG3First
<1>3. /\ DepthOf(<<5, 3>>) = 0 /\ DepthOf(<<5, 2>>) = 3 /\ DepthOf(<<5, 1>>) = 6
      /\ DepthOf(<<5, 0>>) = 9 /\ DepthOf(<<1, 1>>) = 1 /\ DepthOf(<<1, 0>>) = 4
      /\ DepthOf(<<2, 1>>) = 2 /\ DepthOf(<<2, 0>>) = 5 /\ DepthOf(<<3, 1>>) = 7
      /\ DepthOf(<<3, 0>>) = 10
  BY <1>2 DEF DepthOf, Depth, OBJ
<1>4. DOMAIN o = 1..10 /\ \A k \in 1..10 : DepthOf(o[k]) = d[k]
  BY <1>3
<1>5. \A j, k \in 1..10 : j < k => d[j] < d[k]
  OBVIOUS
<1>6. \A j, k \in DOMAIN o : j < k => DepthOf(o[j]) < DepthOf(o[k])
  <2> HIDE DEF o, d
  <2>1. QED BY <1>4, <1>5
<1>7. /\ o[1] = <<5, 3>> /\ o[2] = <<1, 1>> /\ o[3] = <<2, 1>> /\ o[4] = <<5, 2>>
      /\ o[5] = <<1, 0>> /\ o[6] = <<2, 0>> /\ o[7] = <<5, 1>> /\ o[8] = <<3, 1>>
      /\ o[9] = <<5, 0>> /\ o[10] = <<3, 0>>
  OBVIOUS
<1> HIDE DEF o
<1>8. \A k \in DOMAIN o : Listed(o[k])
  BY <1>2, <1>4, <1>7 DEF Listed, OBJ
<1>9. \A p \in 0..3 : \E k \in DOMAIN o : o[k] = <<OBJ, p>>
  BY <1>4, <1>7 DEF OBJ
<1>10. \A bg \in BgsOfMode, p \in Prios : \E k \in DOMAIN o : o[k] = <<bg, p>>
  BY <1>2, <1>4, <1>7
<1>11. QED BY <1>1, <1>4, <1>6, <1>8, <1>9, <1>10 DEF FrontToBack

\* Modes 2 to 5.
LEMMA FrontToBack2 ==
  ASSUME regs.mode \in 2..5
  PROVE  FrontToBack(Order(regs))
<1> DEFINE o == <<<<5, 3>>, <<1, 1>>, <<5, 2>>, <<2, 1>>, <<5, 1>>, <<1, 0>>,
                  <<5, 0>>, <<2, 0>>>>
           d == <<0, 1, 2, 3, 4, 5, 6, 7>>
<1>1. Order(regs) = o
  BY DEF Order, S, B, OBJ
<1>2. BgsOfMode = 1..2 /\ Prios = {0, 1} /\ BG3First(regs) = <<>>
  BY DEF BgsOfMode, Prios, BG3First
<1>3. /\ DepthOf(<<5, 3>>) = 0 /\ DepthOf(<<5, 2>>) = 2 /\ DepthOf(<<5, 1>>) = 4
      /\ DepthOf(<<5, 0>>) = 6 /\ DepthOf(<<1, 1>>) = 1 /\ DepthOf(<<1, 0>>) = 5
      /\ DepthOf(<<2, 1>>) = 3 /\ DepthOf(<<2, 0>>) = 7
  BY <1>2 DEF DepthOf, Depth, OBJ
<1>4. DOMAIN o = 1..8 /\ \A k \in 1..8 : DepthOf(o[k]) = d[k]
  BY <1>3
<1>5. \A j, k \in 1..8 : j < k => d[j] < d[k]
  OBVIOUS
<1>6. \A j, k \in DOMAIN o : j < k => DepthOf(o[j]) < DepthOf(o[k])
  <2> HIDE DEF o, d
  <2>1. QED BY <1>4, <1>5
<1>7. /\ o[1] = <<5, 3>> /\ o[2] = <<1, 1>> /\ o[3] = <<5, 2>> /\ o[4] = <<2, 1>>
      /\ o[5] = <<5, 1>> /\ o[6] = <<1, 0>> /\ o[7] = <<5, 0>> /\ o[8] = <<2, 0>>
  OBVIOUS
<1> HIDE DEF o
<1>8. \A k \in DOMAIN o : Listed(o[k])
  BY <1>2, <1>4, <1>7 DEF Listed, OBJ
<1>9. \A p \in 0..3 : \E k \in DOMAIN o : o[k] = <<OBJ, p>>
  BY <1>4, <1>7 DEF OBJ
<1>10. \A bg \in BgsOfMode, p \in Prios : \E k \in DOMAIN o : o[k] = <<bg, p>>
  BY <1>2, <1>4, <1>7
<1>11. QED BY <1>1, <1>4, <1>6, <1>8, <1>9, <1>10 DEF FrontToBack

\* Mode 6.
LEMMA FrontToBack6 ==
  ASSUME regs.mode = 6
  PROVE  FrontToBack(Order(regs))
<1> DEFINE o == <<<<5, 3>>, <<1, 1>>, <<5, 2>>, <<5, 1>>, <<1, 0>>, <<5, 0>>>>
           d == <<0, 1, 2, 4, 5, 6>>
<1>1. Order(regs) = o
  BY DEF Order, S, B, OBJ
<1>2. BgsOfMode = {1} /\ Prios = {0, 1} /\ BG3First(regs) = <<>>
  BY DEF BgsOfMode, Prios, BG3First
<1>3. /\ DepthOf(<<5, 3>>) = 0 /\ DepthOf(<<5, 2>>) = 2 /\ DepthOf(<<5, 1>>) = 4
      /\ DepthOf(<<5, 0>>) = 6 /\ DepthOf(<<1, 1>>) = 1 /\ DepthOf(<<1, 0>>) = 5
  BY <1>2 DEF DepthOf, Depth, OBJ
<1>4. DOMAIN o = 1..6 /\ \A k \in 1..6 : DepthOf(o[k]) = d[k]
  BY <1>3
<1>5. \A j, k \in 1..6 : j < k => d[j] < d[k]
  OBVIOUS
<1>6. \A j, k \in DOMAIN o : j < k => DepthOf(o[j]) < DepthOf(o[k])
  <2> HIDE DEF o, d
  <2>1. QED BY <1>4, <1>5
<1>7. /\ o[1] = <<5, 3>> /\ o[2] = <<1, 1>> /\ o[3] = <<5, 2>> /\ o[4] = <<5, 1>>
      /\ o[5] = <<1, 0>> /\ o[6] = <<5, 0>>
  OBVIOUS
<1> HIDE DEF o
<1>8. \A k \in DOMAIN o : Listed(o[k])
  BY <1>2, <1>4, <1>7 DEF Listed, OBJ
<1>9. \A p \in 0..3 : \E k \in DOMAIN o : o[k] = <<OBJ, p>>
  BY <1>4, <1>7 DEF OBJ
<1>10. \A bg \in BgsOfMode, p \in Prios : \E k \in DOMAIN o : o[k] = <<bg, p>>
  BY <1>2, <1>4, <1>7
<1>11. QED BY <1>1, <1>4, <1>6, <1>8, <1>9, <1>10 DEF FrontToBack

\* Mode 7.
LEMMA FrontToBack7 ==
  ASSUME regs.mode = 7
  PROVE  FrontToBack(Order(regs))
<1> DEFINE o == <<<<5, 3>>, <<5, 2>>, <<5, 1>>, <<1, 0>>, <<5, 0>>>>
           d == <<0, 2, 4, 5, 6>>
<1>1. Order(regs) = o
  BY DEF Order, S, B, OBJ
<1>2. BgsOfMode = {1} /\ Prios = {0} /\ BG3First(regs) = <<>>
  BY DEF BgsOfMode, Prios, BG3First
<1>3. /\ DepthOf(<<5, 3>>) = 0 /\ DepthOf(<<5, 2>>) = 2 /\ DepthOf(<<5, 1>>) = 4
      /\ DepthOf(<<5, 0>>) = 6 /\ DepthOf(<<1, 0>>) = 5
  BY <1>2 DEF DepthOf, Depth, OBJ
<1>4. DOMAIN o = 1..5 /\ \A k \in 1..5 : DepthOf(o[k]) = d[k]
  BY <1>3
<1>5. \A j, k \in 1..5 : j < k => d[j] < d[k]
  OBVIOUS
<1>6. \A j, k \in DOMAIN o : j < k => DepthOf(o[j]) < DepthOf(o[k])
  <2> HIDE DEF o, d
  <2>1. QED BY <1>4, <1>5
<1>7. /\ o[1] = <<5, 3>> /\ o[2] = <<5, 2>> /\ o[3] = <<5, 1>> /\ o[4] = <<1, 0>>
      /\ o[5] = <<5, 0>>
  OBVIOUS
<1> HIDE DEF o
<1>8. \A k \in DOMAIN o : Listed(o[k])
  BY <1>2, <1>4, <1>7 DEF Listed, OBJ
<1>9. \A p \in 0..3 : \E k \in DOMAIN o : o[k] = <<OBJ, p>>
  BY <1>4, <1>7 DEF OBJ
<1>10. \A bg \in BgsOfMode, p \in Prios : \E k \in DOMAIN o : o[k] = <<bg, p>>
  BY <1>2, <1>4, <1>7
<1>11. QED BY <1>1, <1>4, <1>6, <1>8, <1>9, <1>10 DEF FrontToBack

LEMMA OrderIs ==
  ASSUME regs.mode \in 0..7, regs.front \in BOOLEAN
  PROVE  FrontToBack(Order(regs))
<1>1. \/ regs.mode = 0 \/ (regs.mode = 1 /\ regs.front = TRUE) \/ (regs.mode = 1 /\ regs.front = FALSE)
      \/ regs.mode \in 2..5 \/ regs.mode = 6 \/ regs.mode = 7
  OBVIOUS
<1>2. QED BY <1>1, FrontToBack0, FrontToBack1Front, FrontToBack1, FrontToBack2, FrontToBack6, FrontToBack7

-----------------------------------------------------------------------------
(* The sprites of the line that is drawn: the invariant.                   *)

\* A dot of the line of sprites has none or one of a priority.
DotsInv == \A i \in 0..(Width - 1) : spriteLine[i] = NoSprite \/ spriteLine[i].prio \in 0..3

\* Once collected, the line of sprites is that of the line that is drawn, made
\* from what OAM held at its first dot.
CollectedInv ==
  collected =>
    /\ x # 0
    /\ origin.oam \in Oams /\ origin.first \in SpriteNo /\ origin.line = line
    /\ spriteLine = SpriteLine(origin.oam, origin.first, line)
    /\ RangeOver(origin.oam, origin.first, line) => rangeOver
    /\ TimeOver(origin.oam, origin.first, line) => timeOver

SpriteInv == regs \in Setups /\ DotsInv /\ CollectedInv

LEMMA SetupIs ==
  ASSUME regs \in Setups
  PROVE  /\ regs.oam \in Oams /\ regs.first \in SpriteNo
         /\ regs.mode \in 0..7 /\ regs.front \in BOOLEAN
<1>1. regs \in SetupType
  BY RenderAssumption
<1>2. QED BY <1>1 DEF SetupType, Oams, SpriteNo

\* What is collected at the first dot has dots of the types they have.
LEMMA CollectedDots ==
  ASSUME NEW objs \in Oams, NEW first \in SpriteNo, NEW ln \in Nat, NEW i \in 0..(Width - 1)
  PROVE  LET dot == SpriteLine(objs, first, ln)[i] IN dot = NoSprite \/ dot.prio \in 0..3
<1> DEFINE dot == SpriteLine(objs, first, ln)[i]
<1>1. \/ dot = NoSprite
      \/ \E n \in SpriteNo : dot = [sprite |-> n, prio |-> objs[n].prio, opaque |-> objs[n].opaque]
  BY SpriteLineIs
<1> HIDE DEF dot
<1>2. ASSUME NEW n \in SpriteNo, dot = [sprite |-> n, prio |-> objs[n].prio, opaque |-> objs[n].opaque]
      PROVE  dot.prio \in 0..3
  <2>1. objs[n].prio \in 0..3
    BY DEF Oams, SpriteType
  <2>2. QED BY <1>2, <2>1
<1>3. QED BY <1>1, <1>2 DEF dot

\* A dot that is drawn collects the sprites of the line, if it is the first.
LEMMA CollectingKeeps ==
  ASSUME RenderInv, SpriteInv, RenderPixel, x' = x + 1, line' = line, regs' = regs
  PROVE  SpriteInv'
<1>1. line \in Nat /\ x \in Nat
  BY RenderSizes DEF RenderInv, PositionInv
<1>2. regs.oam \in Oams /\ regs.first \in SpriteNo
  BY SetupIs DEF SpriteInv
<1>3. CASE regs.blank
  <2>1. UNCHANGED <<spriteLine, rangeOver, timeOver, collected, origin>>
    BY <1>3 DEF RenderPixel
  <2>2. QED BY <1>1, <2>1 DEF SpriteInv, DotsInv, CollectedInv
<1>4. CASE ~regs.blank /\ x = 0
  <2>1. /\ spriteLine' = SpriteLine(regs.oam, regs.first, line)
        /\ rangeOver' = (rangeOver \/ RangeOver(regs.oam, regs.first, line))
        /\ timeOver' = (timeOver \/ TimeOver(regs.oam, regs.first, line))
        /\ origin' = [oam |-> regs.oam, first |-> regs.first, line |-> line]
    BY <1>4 DEF RenderPixel
  <2>2. DotsInv'
    BY <1>1, <1>2, <2>1, CollectedDots DEF DotsInv
  <2>3. CollectedInv'
    <3>1. x' # 0 /\ origin'.oam = regs.oam /\ origin'.first = regs.first /\ origin'.line = line
      BY <1>1, <2>1
    <3>2. QED BY <1>2, <2>1, <3>1, Zenon DEF CollectedInv
  <2>4. QED BY <2>2, <2>3 DEF SpriteInv
<1>5. CASE ~regs.blank /\ x # 0
  <2>1. /\ spriteLine' = spriteLine
        /\ rangeOver => rangeOver'
        /\ timeOver => timeOver'
        /\ collected' <=> collected
        /\ origin' = origin
    BY <1>5 DEF RenderPixel
  <2>2. QED BY <1>1, <2>1 DEF SpriteInv, DotsInv, CollectedInv
<1>6. QED BY <1>3, <1>4, <1>5

LEMMA SpriteInitInv == RenderInit => SpriteInv
BY DEF RenderInit, SpriteInv, DotsInv, CollectedInv

LEMMA SpriteStepInv == RenderInv /\ SpriteInv /\ [RenderNext]_renderVars => SpriteInv'
<1> SUFFICES ASSUME RenderInv, SpriteInv, [RenderNext]_renderVars PROVE SpriteInv'
  OBVIOUS
<1>1. CASE Update
  <2>1. /\ x + 1 # Dots => x' = x + 1 /\ line' = line
        /\ x \in Nat
    BY <1>1, UpdatePosition, RenderSizes DEF RenderInv, PositionInv
  <2>2. CASE ~InHBlank /\ ~InVBlank /\ RenderPixel
    <3>1. x + 1 # Dots
      BY <2>1, <2>2, RenderSizes DEF InHBlank
    <3>2. QED BY <1>1, <2>1, <2>2, <3>1, CollectingKeeps DEF Update
  <2>3. CASE ~(~InHBlank /\ ~InVBlank /\ RenderPixel)
    <3>1. /\ UNCHANGED <<spriteLine, rangeOver, timeOver, origin, regs>>
          /\ IF x + 1 = Dots THEN collected' = FALSE ELSE collected' = collected
      BY <1>1, <2>3 DEF Update
    <3>2. QED BY <2>1, <3>1 DEF SpriteInv, DotsInv, CollectedInv
  <2>4. QED BY <2>2, <2>3
<1>2. CASE \E setup \in Setups : Configure(setup)
  BY <1>2 DEF Configure, SpriteInv, DotsInv, CollectedInv
<1>3. CASE UNCHANGED renderVars
  BY <1>3 DEF renderVars, SpriteInv, DotsInv, CollectedInv
<1>4. QED BY <1>1, <1>2, <1>3 DEF RenderNext

LEMMA SpriteInvAlways == RenderSpec => [](RenderInv /\ SpriteInv)
<1>1. RenderSpec => []RenderInv
  BY RenderInvAlways
<1>2. QED BY <1>1, SpriteInitInv, SpriteStepInv, PTL DEF RenderSpec

\* On every line whose sprites were collected, a dot shows the sprite first in
\* priority among those in range whose tile is loaded, and the flags of
\* overflow tell when some are missed (SpriteRenderState::collect_sprites,
\* draw_sprites).
THEOREM SpritesAreInPriority == RenderSpec => []SpritesInPriority
<1>1. RenderInv /\ SpriteInv => SpritesInPriority
  <2> SUFFICES ASSUME RenderInv, SpriteInv, collected
               PROVE  /\ origin.line = line
                      /\ \A i \in 0..(Width - 1) :
                           spriteLine[i].sprite = FrontSprite(origin.oam, origin.first, line, i)
                      /\ InFront(origin.oam, origin.first, line, Sprite) > RangeMax => rangeOver
                      /\ TilesBehind(origin.oam, origin.first, line, -1) > TimeMax => timeOver
    BY DEF SpritesInPriority
  <2>1. /\ origin.oam \in Oams /\ origin.first \in SpriteNo /\ origin.line = line
        /\ spriteLine = SpriteLine(origin.oam, origin.first, line)
        /\ RangeOver(origin.oam, origin.first, line) => rangeOver
        /\ TimeOver(origin.oam, origin.first, line) => timeOver
    BY DEF SpriteInv, CollectedInv
  <2>2. line \in Nat
    BY RenderSizes DEF RenderInv, PositionInv
  <2>3. ASSUME NEW i \in 0..(Width - 1)
        PROVE  spriteLine[i].sprite = FrontSprite(origin.oam, origin.first, line, i)
    <3>1. SpriteLine(origin.oam, origin.first, line)[i].sprite
            = FrontSprite(origin.oam, origin.first, line, i)
      BY <2>1, <2>2, SpriteLineIs
    <3>2. QED BY <2>1, <3>1
  <2>4. /\ RangeOver(origin.oam, origin.first, line)
             <=> InFront(origin.oam, origin.first, line, Sprite) > RangeMax
        /\ TimeOver(origin.oam, origin.first, line)
             <=> TilesBehind(origin.oam, origin.first, line, -1) > TimeMax
    BY <2>1, <2>2, OverflowIs
  <2>5. QED BY <2>1, <2>3, <2>4
<1>2. QED BY <1>1, SpriteInvAlways, PTL

-----------------------------------------------------------------------------
(* What a dot shows.                                                       *)

\* A layer that has a dot, is on the main screen and is not masked.
Seen(c) == c[1] \in regs.tm /\ ~(c[1] \in regs.tmw /\ Masked(regs, c[1]))

\* The places of the order that are hit are those of the layers seen.
LEMMA HitsAreSeen ==
  ASSUME NEW sprites, spriteLine' = sprites, FrontToBack(Order(regs)),
         sprites[x] = NoSprite \/ sprites[x].prio \in 0..3
  PROVE  /\ \A k \in Hits(sprites, regs.tm, regs.tmw) : Order(regs)[k] \in Candidates /\ Seen(Order(regs)[k])
         /\ \A c \in Candidates : Seen(c) => \E k \in Hits(sprites, regs.tm, regs.tmw) : Order(regs)[k] = c
<1> DEFINE o == Order(regs)
           Dot(c) == c[2] = IF c[1] = OBJ THEN sprites[x].prio ELSE Pixel(c[1]).prio
           hits == Hits(sprites, regs.tm, regs.tmw)
<1>1. hits = {k \in DOMAIN o : Dot(o[k]) /\ Seen(o[k])}
  BY DEF Hits, Seen
<1>2. \A bg \in BgsOfMode : bg # OBJ
  BY DEF BgsOfMode, OBJ
<1>3. Candidates = {<<bg, Pixel(bg).prio>> : bg \in {b \in BgsOfMode : Pixel(b).prio \in Prios}}
                     \cup (IF sprites[x] = NoSprite THEN {} ELSE {<<OBJ, sprites[x].prio>>})
  BY DEF Candidates, Prios
<1> HIDE DEF o, hits
<1>4. ASSUME NEW k \in hits PROVE o[k] \in Candidates /\ Seen(o[k])
  <2>1. k \in DOMAIN o /\ Dot(o[k]) /\ Seen(o[k])
    BY <1>1
  <2>2. Listed(o[k])
    BY <2>1 DEF FrontToBack, o
  <2>3. ASSUME NEW p \in 0..3, o[k] = <<OBJ, p>> PROVE o[k] \in Candidates
    <3>1. p = sprites[x].prio
      BY <2>1, <2>3
    <3>2. sprites[x] # NoSprite
      BY <3>1 DEF NoSprite
    <3>3. QED BY <1>3, <2>3, <3>1, <3>2
  <2>4. ASSUME NEW bg \in BgsOfMode, NEW p \in Prios, o[k] = <<bg, p>> PROVE o[k] \in Candidates
    <3>1. p = Pixel(bg).prio
      BY <1>2, <2>1, <2>4
    <3>2. QED BY <1>3, <2>4, <3>1
  <2>5. QED BY <2>1, <2>2, <2>3, <2>4 DEF Listed
<1>5. ASSUME NEW c \in Candidates, Seen(c) PROVE \E k \in hits : o[k] = c
  <2>1. (\E k \in DOMAIN o : o[k] = c) /\ Dot(c)
    <3>1. CASE sprites[x] # NoSprite /\ c = <<OBJ, sprites[x].prio>>
      BY <3>1 DEF FrontToBack, o
    <3>2. CASE \E bg \in BgsOfMode : Pixel(bg).prio \in Prios /\ c = <<bg, Pixel(bg).prio>>
      BY <1>2, <3>2 DEF FrontToBack, o
    <3>3. QED BY <1>3, <3>1, <3>2
  <2>2. QED BY <1>1, <1>5, <2>1
<1>6. QED BY <1>4, <1>5 DEF o, hits

\* What is shown is in front of all that is seen there.
LEMMA FrontmostOf ==
  ASSUME NEW sprites, spriteLine' = sprites, FrontToBack(Order(regs)),
         sprites[x] = NoSprite \/ sprites[x].prio \in 0..3
  PROVE  LET layer == RawPixel(sprites, regs.tm, regs.tmw).layer
             dots == {c \in Candidates : Seen(c)}
         IN  IF dots = {} THEN layer = BACKDROP
             ELSE \E c \in dots : /\ layer = c[1]
                                  /\ \A d \in dots \ {c} : DepthOf(c) < DepthOf(d)
<1> DEFINE o == Order(regs)
           hits == Hits(sprites, regs.tm, regs.tmw)
           dots == {c \in Candidates : Seen(c)}
           layer == RawPixel(sprites, regs.tm, regs.tmw).layer
           front == CHOOSE k \in hits : \A h \in hits : k <= h
<1>1. layer = IF hits = {} THEN BACKDROP ELSE o[front][1]
  BY DEF RawPixel
<1>2. /\ \A k \in hits : o[k] \in dots
      /\ \A c \in dots : \E k \in hits : o[k] = c
  BY HitsAreSeen
<1>3. hits \in SUBSET Nat /\ \A k \in hits : k \in DOMAIN o
  BY DEF Hits, FrontToBack
<1>4. \A j, k \in DOMAIN o : j < k => DepthOf(o[j]) < DepthOf(o[k])
  BY DEF FrontToBack
<1>5. hits # {} => front \in hits /\ \A h \in hits : front <= h
  <2> HIDE DEF hits
  <2>1. QED BY <1>3, LeastPlace
<1> HIDE DEF o, hits, dots, layer, front
<1>6. ASSUME dots = {} PROVE layer = BACKDROP
  BY <1>1, <1>2, <1>6
<1>7. ASSUME dots # {}
      PROVE  \E c \in dots : layer = c[1] /\ \A d \in dots \ {c} : DepthOf(c) < DepthOf(d)
  <2>1. front \in hits /\ \A h \in hits : front <= h
    BY <1>2, <1>5, <1>7
  <2>2. layer = o[front][1] /\ o[front] \in dots
    BY <1>1, <1>2, <2>1
  <2>3. ASSUME NEW d \in dots \ {o[front]} PROVE DepthOf(o[front]) < DepthOf(d)
    <3>1. PICK k \in hits : o[k] = d
      BY <1>2
    <3>2. front < k
      <4>1. front # k /\ front <= k /\ front \in Nat /\ k \in Nat
        BY <1>3, <2>1, <2>3, <3>1
      <4>2. QED BY <4>1
    <3>3. QED BY <1>3, <1>4, <2>1, <3>1, <3>2
  <2>4. QED BY <1>7, <2>2, <2>3
<1>8. QED BY <1>6, <1>7 DEF dots, layer

\* Whatever the program sets between two dots, what a dot shows is in front of
\* every other layer that has one there, in each of the modes (Ppu::get_raw_pixel
\* and its tables of layers).
THEOREM FrontmostIsShown == RenderSpec => FrontmostShown
<1> DEFINE Drawn == x' # x /\ ~InHBlank /\ ~InVBlank /\ ~regs.blank
           dots == {c \in Candidates : /\ c[1] \in regs.tm
                                       /\ ~(c[1] \in regs.tmw /\ Masked(regs, c[1]))}
           Frontmost == IF dots = {} THEN shown'.layer = BACKDROP
                        ELSE \E c \in dots : /\ shown'.layer = c[1]
                                              /\ \A d \in dots \ {c} : Depth(c[1], c[2]) < Depth(d[1], d[2])
<1>1. RenderInv /\ SpriteInv /\ [RenderNext]_renderVars => [Drawn => Frontmost]_renderVars
  <2> SUFFICES ASSUME RenderInv, SpriteInv, RenderNext, Drawn PROVE Frontmost
    BY DEF renderVars
  <2> DEFINE sprites == IF x = 0 THEN SpriteLine(regs.oam, regs.first, line) ELSE spriteLine
  <2>1. Update /\ RenderPixel
    BY DEF RenderNext, Configure, Update
  <2>2. spriteLine' = sprites /\ shown'.layer = RawPixel(sprites, regs.tm, regs.tmw).layer
    BY <2>1 DEF RenderPixel, Draw
  <2>3. x \in 0..(Width - 1) /\ line \in Nat
    BY RenderSizes DEF InHBlank, RenderInv, PositionInv
  <2>4. sprites[x] = NoSprite \/ sprites[x].prio \in 0..3
    <3>1. CASE x = 0
      BY <2>3, <3>1, SetupIs, CollectedDots DEF SpriteInv
    <3>2. CASE x # 0
      BY <2>3, <3>2 DEF SpriteInv, DotsInv
    <3>3. QED BY <3>1, <3>2
  <2>5. FrontToBack(Order(regs))
    BY SetupIs, OrderIs DEF SpriteInv
  <2> HIDE DEF sprites
  <2>6. dots = {c \in Candidates : Seen(c)}
    BY DEF Seen
  <2>7. QED BY <2>2, <2>4, <2>5, <2>6, FrontmostOf DEF DepthOf
<1>2. QED BY <1>1, SpriteInvAlways, PTL DEF RenderSpec, FrontmostShown
=============================================================================
