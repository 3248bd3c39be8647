----------------------------- MODULE CpuProofs -----------------------------
(***************************************************************************)
(* Proofs about Cpu: its type, the page of the stack in emulation mode,    *)
(* the width of the index registers, and what a return restores.  And      *)
(* about Bus, what the addresses of the processor reach.                   *)
(***************************************************************************)
EXTENDS Cpu, Bus, SequenceTheorems, WellFoundedInduction, TLAPS

LEMMA MulMono ==
  ASSUME NEW a \in Nat, NEW x \in Nat, NEW y \in Nat, x <= y
  PROVE  a * x <= a * y
  OBVIOUS

LEMMA Sizes ==
  /\ ByteSize \in Nat /\ ByteSize >= 8
  /\ WordSize \in Nat /\ WordSize >= 64
  /\ 0 \in Byte /\ 1 \in Byte
  <1>1. ByteSize \in Nat /\ ByteSize >= 8
    BY CpuAssumption
  <1>2. 8 * 8 <= 8 * ByteSize /\ ByteSize * 8 <= ByteSize * ByteSize
    BY <1>1, MulMono
  <1> QED
    BY <1>1, <1>2 DEF WordSize, Byte

\* Two bytes are a word, whose bytes they are.
LEMMA WordOfBytes ==
  ASSUME NEW hi \in Byte, NEW lo \in Byte
  PROVE  W(hi, lo) \in Word /\ Hi(W(hi, lo)) = hi /\ Lo(W(hi, lo)) = lo
  <1> DEFINE B == ByteSize
             w == B * hi + lo
  <1>0. B \in Nat \ {0} /\ hi \in 0..(B - 1) /\ lo \in 0..(B - 1)
    BY Sizes DEF Byte
  <1>1. B * hi <= B * (B - 1) /\ B * (B - 1) = B * B - B /\ B * hi \in Nat
    <2>1. B * hi <= B * (B - 1)
      BY <1>0, MulMono
    <2> QED
      BY <1>0, <2>1
  <1>2. w \in 0..(B * B - 1)
    BY <1>0, <1>1
  <1>3. w \div B \in Nat /\ w % B \in 0..(B - 1) /\ w = B * (w \div B) + (w % B)
    BY <1>0, <1>2
  <1>4. w \div B = hi
    <2> DEFINE q == w \div B
               r == w % B
    <2>1. q \in Nat /\ hi \in Nat /\ B \in Nat /\ r \in 0..(B - 1) /\ lo \in 0..(B - 1)
      BY <1>0, <1>3
    <2>2. B * q + r = B * hi + lo
      BY <1>3
    <2> HIDE DEF q, r, w, B
    <2>3. CASE q > hi
      <3>1. B * (hi + 1) <= B * q /\ B * (hi + 1) = B * hi + B
        BY <2>1, <2>3, MulMono
      <3>2. B * hi \in Nat /\ B * q \in Nat
        BY <2>1
      <3> QED
        BY <2>1, <2>2, <3>1, <3>2
    <2>4. CASE q < hi
      <3>1. B * (q + 1) <= B * hi /\ B * (q + 1) = B * q + B
        BY <2>1, <2>4, MulMono
      <3>2. B * hi \in Nat /\ B * q \in Nat
        BY <2>1
      <3> QED
        BY <2>1, <2>2, <3>1, <3>2
    <2>5. CASE q = hi
      BY <2>5 DEF q
    <2> QED
      BY <2>1, <2>3, <2>4, <2>5
  <1>5. w % B = lo
    BY <1>0, <1>1, <1>3, <1>4
  <1> QED
    BY <1>2, <1>4, <1>5 DEF W, Hi, Lo, Word, WordSize

\* The two halves of a word are bytes.
LEMMA BytesOfWord ==
  ASSUME NEW w \in Word
  PROVE  Hi(w) \in Byte /\ Lo(w) \in Byte
  <1> DEFINE B == ByteSize
  <1>0. B \in Nat \ {0} /\ w \in 0..(B * B - 1) /\ B * B \in Nat
    BY Sizes DEF Word, WordSize
  <1>1. w \div B \in Nat /\ w % B \in 0..(B - 1) /\ w = B * (w \div B) + (w % B)
    BY <1>0
  <1>2. w \div B <= B - 1
    <2> SUFFICES ASSUME w \div B >= B  PROVE FALSE
      BY <1>0, <1>1
    <2>1. B * B <= B * (w \div B)
      BY <1>0, <1>1, MulMono
    <2> QED
      BY <1>0, <1>1, <2>1
  <1> QED
    BY <1>0, <1>1, <1>2 DEF Hi, Lo, Byte

\* A number reduced to a byte or to a word is one.
LEMMA Reduced ==
  ASSUME NEW n \in Int
  PROVE  n % ByteSize \in Byte /\ n % WordSize \in Word
  BY Sizes DEF Byte, Word

LEMMA FlagsType_ ==
  /\ \A q \in FlagsType : ByteOf(q) \in Byte
  /\ \A b \in Byte : FlagsOf(b) \in FlagsType
  /\ NoFlags \in FlagsType
  BY Sizes DEF FlagsType, ByteOf, FlagsOf, Bit, Byte, NoFlags

\* In emulation mode the stack pointer moves in its page.
LEMMA MovesInPage ==
  ASSUME TypeOK, NEW n \in Nat
  PROVE  /\ Down(n) \in Word /\ Up(n) \in Word
         /\ emulation => Hi(Down(n)) = Hi(s) /\ Hi(Up(n)) = Hi(s)
  <1>1. s \in Word /\ s \in Int /\ Hi(s) \in Byte /\ Lo(s) \in Byte /\ Lo(s) \in Int
    BY BytesOfWord, Sizes DEF TypeOK, Word, Byte
  <1>2. /\ (Lo(s) - n) % ByteSize \in Byte /\ (Lo(s) + n) % ByteSize \in Byte
        /\ (s - n) % WordSize \in Word /\ (s + n) % WordSize \in Word
    BY <1>1, Reduced
  <1> QED
    BY <1>1, <1>2, WordOfBytes DEF Down, Up

-----------------------------------------------------------------------------
(* The stack operations.                                                   *)

StackType == s \in Word /\ mem \in [Word -> Byte] /\ frames \in Seq(FrameType)

LEMMA PushType ==
  ASSUME TypeOK, NEW bytes \in Seq(Byte), NEW f \in FrameType, Push(bytes, f)
  PROVE  StackType' /\ (emulation => Hi(s') = Hi(s))
  <1>1. Len(bytes) \in Nat /\ s' = Down(Len(bytes))
    BY DEF Push
  <1>2. s' \in Word /\ (emulation => Hi(s') = Hi(s))
    BY <1>1, MovesInPage
  <1>3. mem' \in [Word -> Byte]
    <2> SUFFICES ASSUME NEW a \in Word
                 PROVE  (IF \E k \in 1..Len(bytes) : a = Down(k - 1)
                           THEN bytes[CHOOSE k \in 1..Len(bytes) : a = Down(k - 1)]
                           ELSE mem[a]) \in Byte
      BY DEF Push
    <2>1. CASE \E k \in 1..Len(bytes) : a = Down(k - 1)
      <3>1. (CHOOSE k \in 1..Len(bytes) : a = Down(k - 1)) \in 1..Len(bytes)
        BY <2>1
      <3> QED
        BY <2>1, <3>1
    <2>2. CASE ~ \E k \in 1..Len(bytes) : a = Down(k - 1)
      BY <2>2 DEF TypeOK
    <2> QED
      BY <2>1, <2>2
  <1>4. frames' \in Seq(FrameType)
    BY DEF Push, TypeOK
  <1> QED
    BY <1>2, <1>3, <1>4 DEF StackType

LEMMA PullType ==
  ASSUME TypeOK, NEW kind, NEW n \in Nat, Pull(kind, n)
  PROVE  StackType' /\ (emulation => Hi(s') = Hi(s))
  <1>1. s' \in Word /\ (emulation => Hi(s') = Hi(s))
    BY MovesInPage DEF Pull
  <1>2. mem' \in [Word -> Byte]
    BY Sizes DEF Pull, TypeOK
  <1>3. frames' \in Seq(FrameType)
    <2>1. frames \in Seq(FrameType) /\ frames # <<>> /\ Len(frames) \in Nat \ {0}
      BY EmptySeq DEF Pull, TypeOK
    <2> QED
      BY <2>1, SubSeqProperties DEF Pull
  <1> QED
    BY <1>1, <1>2, <1>3 DEF StackType

\* What is pulled is bytes, and words of them.
LEMMA PulledType ==
  ASSUME TypeOK, NEW k \in Nat
  PROVE  Pulled(k) \in Byte /\ PulledWord(k) \in Word
  <1>1. \A j \in Nat : Pulled(j) \in Byte
    BY MovesInPage DEF Pulled, TypeOK
  <1> QED
    BY <1>1, WordOfBytes DEF PulledWord

LEMMA MoveStackType ==
  ASSUME TypeOK, NEW to \in Word, MoveStack(to)
  PROVE  StackType' /\ s' = to
  BY Sizes DEF MoveStack, StackType

\* The values TXS and TCS give the stack pointer.
LEMMA SetStackType ==
  ASSUME TypeOK, NEW to \in Word, Txs(Lo(to)) \/ Tcs(to)
  PROVE  StackType' /\ (emulation => Hi(s') = 1)
  <1>1. Lo(to) \in Byte /\ Hi(to) \in Byte /\ x_hi \in Byte /\ 1 \in Byte
    BY BytesOfWord, Sizes DEF TypeOK
  <1>2. \A hi \in Byte : W(hi, Lo(to)) \in Word /\ Hi(W(hi, Lo(to))) = hi
    BY <1>1, WordOfBytes
  <1> QED
    BY <1>1, <1>2, MoveStackType DEF Txs, Tcs

-----------------------------------------------------------------------------
(* Every step.                                                             *)

IInv == TypeOK /\ StackInPage

LEMMA StackAfter ==
  ASSUME IInv, StackType', emulation' = emulation, emulation => Hi(s') = Hi(s)
  PROVE  StackInPage'
  BY DEF IInv, StackInPage, Hi

LEMMA GoOnType ==
  ASSUME TypeOK, GoOn
  PROVE  pc' \in Word
  BY CpuAssumption DEF GoOn, Instruction

LEMMA SetPType ==
  ASSUME TypeOK, NEW new \in FlagsType, SetP(new)
  PROVE  p' \in FlagsType /\ x_hi' \in Byte
  BY Sizes DEF TypeOK, SetP

LEMMA FrameIs ==
  ASSUME TypeOK, NEW kind \in Kinds, NEW size \in 1..4, NEW back \in Word, NEW bank \in Byte,
         NEW q \in FlagsType
  PROVE  Frame(kind, size, back, bank, q) \in FrameType
  BY DEF TypeOK, Frame, FrameType

LEMMA DataIs ==
  ASSUME TypeOK
  PROVE  /\ Data("data", 1) \in FrameType /\ Data("data", 2) \in FrameType
         /\ Data("flags", 1) \in FrameType
  <1>1. 0 \in Word /\ 0 \in Byte /\ NoFlags \in FlagsType
    BY FlagsType_, Sizes DEF Word
  <1>2. "data" \in Kinds /\ "flags" \in Kinds
    BY DEF Kinds
  <1>3. ASSUME NEW kind \in Kinds, NEW size \in 1..4  PROVE Data(kind, size) \in FrameType
    BY <1>1, FrameIs DEF Data
  <1> QED
    BY <1>2, <1>3

\* Type correctness and the page of the stack are kept by every step.
LEMMA NextInv == IInv /\ [Next]_vars => IInv'
  <1> SUFFICES ASSUME IInv, [Next]_vars  PROVE IInv'
    OBVIOUS
  <1>0. TypeOK /\ instr' \in InstrKinds
    BY DEF IInv, TypeOK, Next, vars, InstrKinds
  <1>1. CASE Compute
    BY <1>1, <1>0, GoOnType DEF Compute, IInv, TypeOK, StackInPage, stack, Hi
  <1>2. CASE Jml
    BY <1>2, <1>0, GoOnType, CpuAssumption DEF Jml, IInv, TypeOK, StackInPage, stack, Hi
  <1>3. CASE Wai
    BY <1>3, <1>0, GoOnType DEF Wai, IInv, TypeOK, StackInPage, stack, Hi
  <1>4. CASE SetFlags
    BY <1>4, <1>0, GoOnType, SetPType, CpuAssumption
    DEF SetFlags, IInv, TypeOK, StackInPage, stack, Hi
  <1>5. CASE Xce
    <2>1. s \in Word /\ Hi(s) \in Byte /\ Lo(s) \in Byte /\ 1 \in Byte
      BY <1>0, BytesOfWord, Sizes DEF TypeOK
    <2>2. pc' \in Word /\ pbr' = pbr /\ wai' = wai
      BY <1>0, <1>5, GoOnType DEF Xce
    <2>3. CASE EnterEmulation
      <3>1. W(1, Lo(s)) \in Word /\ Hi(W(1, Lo(s))) = 1
        BY <2>1, WordOfBytes
      <3>2. StackType' /\ s' = W(1, Lo(s))
        BY <1>0, <2>3, <3>1, MoveStackType DEF EnterEmulation
      <3>3. p' \in FlagsType /\ emulation' = TRUE /\ x_hi' \in Byte
        BY <1>0, <2>3, Sizes DEF EnterEmulation, TypeOK, FlagsType
      <3> QED
        BY <1>0, <2>2, <3>1, <3>2, <3>3 DEF IInv, TypeOK, StackInPage, StackType, Hi
    <2>4. CASE emulation' = FALSE /\ MoveStack(s) /\ UNCHANGED <<p, x_hi>>
      <3>1. StackType'
        BY <1>0, <2>1, <2>4, MoveStackType
      <3> QED
        BY <1>0, <2>2, <2>4, <3>1 DEF IInv, TypeOK, StackInPage, StackType
    <2>5. CASE UNCHANGED <<emulation, stack, p, x_hi>>
      BY <1>0, <2>2, <2>5 DEF IInv, TypeOK, StackInPage, stack, Hi
    <2> QED
      BY <1>5, <2>3, <2>4, <2>5 DEF Xce
  <1>6. CASE ComputeX
    BY <1>6, <1>0, GoOnType, CpuAssumption DEF ComputeX, IInv, TypeOK, StackInPage, stack, Hi
  <1>7. CASE TransferToX
    <2>1. Hi(s) \in Byte /\ 0 \in Byte
      BY <1>0, BytesOfWord, Sizes DEF TypeOK
    <2> QED
      BY <1>7, <1>0, <2>1, GoOnType, CpuAssumption
      DEF TransferToX, IInv, TypeOK, StackInPage, stack, Hi
  <1>8. CASE BlockMove
    BY <1>8, <1>0, GoOnType, CpuAssumption DEF BlockMove, IInv, TypeOK, StackInPage, stack, Hi
  <1>9. CASE SetStack
    <2>1. PICK to \in Stacks : Txs(Lo(to)) \/ Tcs(to)
      BY <1>9 DEF SetStack
    <2>2. StackType' /\ (emulation => Hi(s') = 1)
      BY <1>0, <2>1, SetStackType, CpuAssumption
    <2> QED
      BY <1>9, <1>0, <2>2, GoOnType DEF SetStack, IInv, TypeOK, StackInPage, StackType, Hi
  <1>10. CASE PushData
    <2>1. StackType' /\ (emulation => Hi(s') = Hi(s))
      <3>1. CASE Push(<<0>>, Data("data", 1))
        <4>1. <<0>> \in Seq(Byte)
          BY Sizes
        <4> QED
          BY <1>0, <3>1, <4>1, PushType, DataIs
      <3>2. CASE \E hi \in HighBytes : Push(<<hi, 0>>, Data("data", 2))
        <4>1. PICK hi \in HighBytes : Push(<<hi, 0>>, Data("data", 2))
          BY <3>2
        <4>2. <<hi, 0>> \in Seq(Byte)
          BY Sizes, CpuAssumption
        <4> QED
          BY <1>0, <4>1, <4>2, PushType, DataIs
      <3> QED
        BY <1>10, <3>1, <3>2 DEF PushData
    <2>2. StackInPage'
      BY <1>10, <2>1, StackAfter DEF PushData
    <2> QED
      BY <1>10, <1>0, <2>1, <2>2, GoOnType DEF PushData, IInv, TypeOK, StackType
  <1>11. CASE PullData
    <2>1. StackType' /\ (emulation => Hi(s') = Hi(s))
      BY <1>0, <1>11, PullType DEF PullData
    <2>2. StackInPage'
      BY <1>11, <2>1, StackAfter DEF PullData
    <2> QED
      BY <1>11, <1>0, <2>1, <2>2, GoOnType DEF PullData, IInv, TypeOK, StackType
  <1>12. CASE PullX
    <2>1. StackType' /\ (emulation => Hi(s') = Hi(s)) /\ x_hi' \in Byte
      BY <1>0, <1>12, PullType, PulledType, Sizes DEF PullX
    <2>2. StackInPage'
      BY <1>12, <2>1, StackAfter DEF PullX
    <2> QED
      BY <1>12, <1>0, <2>1, <2>2, GoOnType DEF PullX, IInv, TypeOK, StackType
  <1>13. CASE Php
    <2>1. <<ByteOf(p)>> \in Seq(Byte)
      BY <1>0, FlagsType_ DEF TypeOK
    <2>2. StackType' /\ (emulation => Hi(s') = Hi(s))
      BY <1>0, <1>13, <2>1, PushType, DataIs DEF Php
    <2>3. StackInPage'
      BY <1>13, <2>2, StackAfter DEF Php
    <2> QED
      BY <1>13, <1>0, <2>2, <2>3, GoOnType DEF Php, IInv, TypeOK, StackType
  <1>14. CASE Plp
    <2>1. StackType' /\ (emulation => Hi(s') = Hi(s))
      BY <1>0, <1>14, PullType DEF Plp
    <2>2. FlagsOf(Pulled(1)) \in FlagsType
      BY <1>0, PulledType, FlagsType_
    <2>3. p' \in FlagsType /\ x_hi' \in Byte
      BY <1>0, <1>14, <2>2, SetPType DEF Plp
    <2>4. StackInPage'
      BY <1>14, <2>1, StackAfter DEF Plp
    <2> QED
      BY <1>14, <1>0, <2>1, <2>3, <2>4, GoOnType DEF Plp, IInv, TypeOK, StackType
  <1>15. After(2) \in Word /\ After(3) \in Word /\ After(4) \in Word
    <2>1. pc + 2 \in Int /\ pc + 3 \in Int /\ pc + 4 \in Int
      BY <1>0, Sizes DEF TypeOK, Word
    <2> QED
      BY <2>1, Reduced DEF After
  <1>16. CASE Jsr
    <2>1. <<Hi(After(2)), Lo(After(2))>> \in Seq(Byte)
      BY <1>15, BytesOfWord
    <2>2. Frame("jsr", 2, After(3), 0, NoFlags) \in FrameType
      BY <1>0, <1>15, FrameIs, FlagsType_, Sizes DEF Kinds
    <2>3. StackType' /\ (emulation => Hi(s') = Hi(s))
      BY <1>0, <1>16, <2>1, <2>2, PushType DEF Jsr
    <2>4. StackInPage'
      BY <1>16, <2>3, StackAfter DEF Jsr
    <2> QED
      BY <1>16, <1>0, <2>3, <2>4, GoOnType DEF Jsr, IInv, TypeOK, StackType
  <1>17. CASE Jsl
    <2>1. <<pbr, Hi(After(3)), Lo(After(3))>> \in Seq(Byte)
      BY <1>0, <1>15, BytesOfWord DEF TypeOK
    <2>2. Frame("jsl", 3, After(4), pbr, NoFlags) \in FrameType
      BY <1>0, <1>15, FrameIs, FlagsType_, SMTT(30) DEF Kinds, TypeOK
    <2>3. StackType' /\ (emulation => Hi(s') = Hi(s))
      BY <1>0, <1>17, <2>1, <2>2, PushType DEF Jsl
    <2>4. StackInPage'
      BY <1>17, <2>3, StackAfter DEF Jsl
    <2> QED
      BY <1>17, <1>0, <2>3, <2>4, GoOnType, CpuAssumption DEF Jsl, IInv, TypeOK, StackType
  <1>18. CASE Rts
    <2>1. StackType' /\ (emulation => Hi(s') = Hi(s))
      BY <1>0, <1>18, PullType DEF Rts
    <2>2. PulledWord(1) \in Word /\ pc' = (PulledWord(1) + 1) % WordSize
      BY <1>0, <1>18, PulledType DEF Rts, Instruction
    <2>3. pc' \in Word
      BY <2>2, Reduced DEF Word
    <2>4. StackInPage'
      BY <1>18, <2>1, StackAfter DEF Rts
    <2> QED
      BY <1>18, <1>0, <2>1, <2>3, <2>4 DEF Rts, IInv, TypeOK, StackType
  <1>19. CASE Rtl
    <2>1. StackType' /\ (emulation => Hi(s') = Hi(s))
      BY <1>0, <1>19, PullType DEF Rtl
    <2>2. PulledWord(1) \in Word /\ pc' = (PulledWord(1) + 1) % WordSize /\ pbr' \in Byte
      BY <1>0, <1>19, PulledType DEF Rtl, Instruction
    <2>3. pc' \in Word
      BY <2>2, Reduced DEF Word
    <2>4. StackInPage'
      BY <1>19, <2>1, StackAfter DEF Rtl
    <2> QED
      BY <1>19, <1>0, <2>1, <2>2, <2>3, <2>4 DEF Rtl, IInv, TypeOK, StackType
  <1>20. CASE Rti
    <2>1. StackType' /\ (emulation => Hi(s') = Hi(s))
      BY <1>0, <1>20, PullType DEF Rti
    <2>2. pc' \in Word /\ pbr' \in Byte
      BY <1>0, <1>20, PulledType DEF Rti, Instruction, TypeOK
    <2>3. p' \in FlagsType
      BY <1>0, <1>20, PulledType, FlagsType_ DEF Rti
    <2>4. StackInPage'
      BY <1>20, <2>1, StackAfter DEF Rti
    <2> QED
      BY <1>20, <1>0, <2>1, <2>2, <2>3, <2>4 DEF Rti, IInv, TypeOK, StackType
  <1>21. CASE Interrupt
    <2>0. pc \in Word /\ pbr \in Byte /\ p \in FlagsType /\ Hi(pc) \in Byte /\ Lo(pc) \in Byte
          /\ ByteOf(p) \in Byte
      BY <1>0, BytesOfWord, FlagsType_ DEF TypeOK
    <2>1. StackType' /\ (emulation => Hi(s') = Hi(s))
      <3>1. CASE emulation
        <4>1. <<Hi(pc), Lo(pc), ByteOf(p)>> \in Seq(Byte)
          BY <2>0
        <4>2. Frame("interrupt", 3, pc, 0, p) \in FrameType
          BY <1>0, <2>0, FrameIs, Sizes DEF Kinds
        <4> QED
          BY <1>0, <1>21, <3>1, <4>1, <4>2, PushType DEF Interrupt
      <3>2. CASE ~emulation
        <4>1. <<pbr, Hi(pc), Lo(pc), ByteOf(p)>> \in Seq(Byte)
          BY <2>0
        <4>2. Frame("interrupt", 4, pc, pbr, p) \in FrameType
          BY <1>0, <2>0, FrameIs DEF Kinds
        <4> QED
          BY <1>0, <1>21, <3>2, <4>1, <4>2, PushType DEF Interrupt
      <3> QED
        BY <3>1, <3>2
    <2>2. p' \in FlagsType /\ pbr' \in Byte /\ pc' \in Word /\ wai' = FALSE
      BY <1>0, <1>21, Sizes, CpuAssumption DEF Interrupt, TypeOK, FlagsType
    <2>3. StackInPage'
      BY <1>21, <2>1, StackAfter DEF Interrupt
    <2> QED
      BY <1>21, <1>0, <2>1, <2>2, <2>3 DEF Interrupt, IInv, TypeOK, StackType
  <1>22. CASE UNCHANGED vars
    BY <1>22 DEF IInv, TypeOK, StackInPage, vars, Hi
  <1> QED
    BY <1>1, <1>2, <1>3, <1>4, <1>5, <1>6, <1>7, <1>8, <1>9, <1>10, <1>11, <1>12, <1>13,
       <1>14, <1>16, <1>17, <1>18, <1>19, <1>20, <1>21, <1>22
    DEF Next, Other, TriggerNmi, TriggerIrq

LEMMA InitInv == Init => IInv
  <1> SUFFICES ASSUME Init  PROVE IInv
    OBVIOUS
  <1>1. W(1, 0) \in Word /\ Hi(W(1, 0)) = 1
    BY Sizes, WordOfBytes
  <1>2. frames \in Seq(FrameType)
    BY DEF Init
  <1> QED
    BY <1>1, <1>2, Sizes, CpuAssumption DEF Init, IInv, TypeOK, StackInPage, FlagsType, InstrKinds

\* The type of the registers and the page of the stack are kept together.
THEOREM CpuInvariance == Spec => []IInv
  BY InitInv, NextInv, PTL DEF Spec

\* Every register and every byte of the stack keeps its width.
THEOREM CpuTypeCorrect == Spec => []TypeOK
  <1>1. IInv => TypeOK
    BY DEF IInv
  <1> QED
    BY <1>1, CpuInvariance, PTL

\* In emulation mode the stack pointer never leaves page 1, whatever the
\* program, its interrupts and its mode switches: what pushb and popb assert.
THEOREM StackStaysInPage == Spec => []StackInPage
  <1>1. IInv => StackInPage
    BY DEF IInv
  <1> QED
    BY <1>1, CpuInvariance, PTL

-----------------------------------------------------------------------------
(* The width of the index registers.                                       *)

LEMMA NextNarrow ==
  TypeOK /\ NarrowIndex /\ (Other \/ UNCHANGED vars) => NarrowIndex'
  <1> SUFFICES ASSUME TypeOK, NarrowIndex, Other \/ UNCHANGED vars  PROVE NarrowIndex'
    OBVIOUS
  <1>1. CASE UNCHANGED <<p, x_hi>>
    BY <1>1 DEF NarrowIndex
  <1>2. ASSUME NEW new, SetP(new)  PROVE NarrowIndex'
    BY <1>2 DEF SetP, NarrowIndex
  <1>3. CASE SetFlags \/ Plp
    BY <1>2, <1>3 DEF SetFlags, Plp
  <1>4. CASE Xce
    BY <1>1, <1>4 DEF Xce, EnterEmulation, NarrowIndex
  <1>5. CASE ComputeX \/ TransferToX \/ PullX
    BY <1>5 DEF ComputeX, TransferToX, PullX, NarrowIndex
  <1>6. CASE Interrupt
    BY <1>6 DEF Interrupt, NarrowIndex, TypeOK, FlagsType
  <1>7. CASE Compute \/ Jml \/ Wai \/ SetStack \/ PushData \/ PullData \/ Php
             \/ Jsr \/ Jsl \/ Rts \/ Rtl
    BY <1>1, <1>7 DEF Compute, Jml, Wai, SetStack, PushData, PullData, Php, Jsr, Jsl, Rts, Rtl
  <1>8. CASE UNCHANGED vars
    BY <1>1, <1>8 DEF vars
  <1> QED
    BY <1>3, <1>4, <1>5, <1>6, <1>7, <1>8 DEF Other, TriggerNmi, TriggerIrq

\* A step that gives a narrow index register a high byte is an RTI or a block
\* move; no other instruction does, whatever it computes, loads or transfers.
THEOREM IndexStaysNarrow == Spec => NarrowIndexKept
  <1>1. TypeOK /\ [Next]_vars =>
          [NarrowIndex /\ ~NarrowIndex' => instr' \in {"rti", "block move"}]_vars
    BY NextNarrow DEF Next
  <1> QED
    BY <1>1, CpuTypeCorrect, PTL DEF Spec, NarrowIndexKept

-----------------------------------------------------------------------------
(* Returns.  Every frame still lies where it was pushed, one below the     *)
(* other from the base of the stack, and no push reaches around the page,  *)
(* or the bank, to overwrite it.                                           *)

\* A remainder is what is left of a whole number of divisors.
LEMMA RemainderIs ==
  ASSUME NEW n \in Nat \ {0}, NEW x \in Int, NEW q \in Int, NEW r \in 0..(n - 1),
         x = n * q + r
  PROVE  x % n = r
  <1> DEFINE d == x \div n
             e == x % n
  <1>1. d \in Int /\ e \in 0..(n - 1) /\ n * d + e = n * q + r
    OBVIOUS
  <1> HIDE DEF d, e
  <1>2. CASE d > q
    <2>1. n * (d - q) >= n /\ n * (d - q) = n * d - n * q
      BY <1>1, <1>2
    <2> QED
      BY <1>1, <2>1
  <1>3. CASE d < q
    <2>1. n * (q - d) >= n /\ n * (q - d) = n * q - n * d
      BY <1>1, <1>3
    <2> QED
      BY <1>1, <2>1
  <1>4. CASE d = q
    BY <1>1, <1>4 DEF e
  <1> QED
    BY <1>1, <1>2, <1>3, <1>4

\* A step can be taken after reducing, or before.
LEMMA StepReduced ==
  ASSUME NEW n \in Nat \ {0}, NEW x \in Int, NEW i \in Int
  PROVE  ((x % n) - i) % n = (x - i) % n
  <1> DEFINE a == x \div n
             b == x % n
             c == (b - i) \div n
             r == (b - i) % n
  <1>1. a \in Int /\ b \in 0..(n - 1) /\ x = n * a + b
    OBVIOUS
  <1>2. c \in Int /\ r \in 0..(n - 1) /\ b - i = n * c + r
    BY <1>1
  <1> HIDE DEF a, b, c, r
  <1>3. a + c \in Int /\ x - i \in Int /\ x - i = n * (a + c) + r
    BY <1>1, <1>2
  <1> DEFINE q == a + c
             y == x - i
  <1> HIDE DEF q, y
  <1>4. y % n = r
    <2>1. q \in Int /\ y \in Int /\ y = n * q + r
      BY <1>3 DEF q, y
    <2> QED
      BY <1>2, <2>1, RemainderIs
  <1> QED
    BY <1>4 DEF b, r, y

\* Fewer steps than n lead to different remainders.
LEMMA StepsDiffer ==
  ASSUME NEW n \in Nat \ {0}, NEW x \in Int, NEW i \in 0..(n - 1), NEW j \in 0..(n - 1),
         (x - i) % n = (x - j) % n
  PROVE  i = j
  <1> DEFINE a == (x - i) \div n
             b == (x - j) \div n
             r == (x - i) % n
  <1>1. a \in Int /\ r \in Int /\ x - i = n * a + r
    OBVIOUS
  <1>2. b \in Int /\ x - j = n * b + r
    OBVIOUS
  <1> HIDE DEF a, b, r
  <1>3. j - i = n * a - n * b
    BY <1>1, <1>2
  <1>4. CASE a > b
    <2>1. n * (a - b) >= n /\ n * (a - b) = n * a - n * b
      BY <1>1, <1>2, <1>4
    <2> QED
      BY <1>3, <2>1
  <1>5. CASE a < b
    <2>1. n * (b - a) >= n /\ n * (b - a) = n * b - n * a
      BY <1>1, <1>2, <1>5
    <2>2. n * a \in Int /\ n * b \in Int
      BY <1>1, <1>2
    <2>3. i - j >= n
      BY <1>3, <2>1, <2>2
    <2> QED
      BY <2>3
  <1>6. CASE a = b
    <2>1. n * a - n * b = 0
      BY <1>1, <1>2, <1>6
    <2>2. j - i = 0
      BY <1>3, <2>1
    <2> QED
      BY <2>2
  <1> QED
    BY <1>1, <1>2, <1>4, <1>5, <1>6

\* The address n bytes below t, in emulation mode (e) or not.
Below(e, t, n) == IF e THEN W(Hi(t), (Lo(t) - n) % ByteSize) ELSE (t - n) % WordSize

Limit(e) == IF e THEN ByteSize ELSE WordSize

LEMMA LimitIs ==
  ASSUME NEW e \in BOOLEAN
  PROVE  Limit(e) \in Nat \ {0}
  BY Sizes DEF Limit

LEMMA BelowParts ==
  ASSUME NEW e \in BOOLEAN, NEW t \in Word, NEW n \in Int
  PROVE  /\ Below(e, t, n) \in Word
         /\ e => /\ Hi(Below(e, t, n)) = Hi(t)
                 /\ Lo(Below(e, t, n)) = (Lo(t) - n) % ByteSize
  <1>1. t \in Int /\ Hi(t) \in Byte /\ Lo(t) \in Byte /\ Lo(t) \in Int
    BY BytesOfWord, Sizes DEF Word, Byte
  <1>2. (Lo(t) - n) % ByteSize \in Byte /\ (t - n) % WordSize \in Word
    BY <1>1, Reduced
  <1> QED
    BY <1>1, <1>2, WordOfBytes DEF Below

\* Steps down the stack add up.
LEMMA BelowBelow ==
  ASSUME NEW e \in BOOLEAN, NEW t \in Word, NEW m \in Int, NEW n \in Int
  PROVE  Below(e, Below(e, t, m), n) = Below(e, t, m + n)
  <1>1. t \in Int /\ Lo(t) \in Int
    BY BytesOfWord, Sizes DEF Word, Byte
  <1>2. CASE e
    <2>1. Lo(t) - m \in Int /\ (Lo(t) - m) - n = Lo(t) - (m + n)
      BY <1>1
    <2>2. (((Lo(t) - m) % ByteSize) - n) % ByteSize = (Lo(t) - (m + n)) % ByteSize
      BY <2>1, StepReduced, Sizes
    <2> QED
      BY <1>2, <2>2, BelowParts DEF Below
  <1>3. CASE ~e
    <2>1. t - m \in Int /\ (t - m) - n = t - (m + n)
      BY <1>1
    <2>2. (((t - m) % WordSize) - n) % WordSize = (t - (m + n)) % WordSize
      BY <2>1, StepReduced, Sizes
    <2> QED
      BY <1>3, <2>2 DEF Below
  <1> QED
    BY <1>2, <1>3

\* Different places of one stack are different addresses.
LEMMA BelowDiffers ==
  ASSUME NEW e \in BOOLEAN, NEW t \in Word, NEW m \in 0..(Limit(e) - 1), NEW n \in 0..(Limit(e) - 1),
         Below(e, t, m) = Below(e, t, n)
  PROVE  m = n
  <1>1. t \in Int /\ Lo(t) \in Int
    BY BytesOfWord, Sizes DEF Word, Byte
  <1>2. m \in Int /\ n \in Int
    BY LimitIs
  <1>3. CASE e
    <2>1. (Lo(t) - m) % ByteSize = (Lo(t) - n) % ByteSize
      <3>1. /\ Lo(Below(e, t, m)) = (Lo(t) - m) % ByteSize
            /\ Lo(Below(e, t, n)) = (Lo(t) - n) % ByteSize
        BY <1>2, <1>3, BelowParts
      <3> QED
        BY <3>1
    <2>2. m \in 0..(ByteSize - 1) /\ n \in 0..(ByteSize - 1)
      BY <1>3 DEF Limit
    <2> QED
      <3>1. ByteSize \in Nat \ {0}
        BY Sizes
      <3> QED
        BY <1>1, <2>1, <2>2, <3>1, StepsDiffer
  <1>4. CASE ~e
    <2>1. (t - m) % WordSize = (t - n) % WordSize
      BY <1>4 DEF Below
    <2>2. m \in 0..(WordSize - 1) /\ n \in 0..(WordSize - 1)
      BY <1>4 DEF Limit
    <2> QED
      <3>1. WordSize \in Nat \ {0}
        BY Sizes
      <3> QED
        BY <1>1, <2>1, <2>2, <3>1, StepsDiffer
  <1> QED
    BY <1>3, <1>4

LEMMA BelowNone ==
  ASSUME NEW e \in BOOLEAN, NEW t \in Word
  PROVE  Below(e, t, 0) = t
  <1>1. t \in Int /\ t \in 0..(WordSize - 1) /\ WordSize \in Nat \ {0}
    BY Sizes DEF Word
  <1>2. Lo(t) \in Int /\ Lo(t) \in 0..(ByteSize - 1) /\ ByteSize \in Nat \ {0}
    BY BytesOfWord, Sizes DEF Byte
  <1>3. \A n \in Nat \ {0} : \A r \in 0..(n - 1) : r % n = r
    <2> SUFFICES ASSUME NEW n \in Nat \ {0}, NEW r \in 0..(n - 1)  PROVE r % n = r
      OBVIOUS
    <2>1. r = n * 0 + r
      OBVIOUS
    <2> QED
      BY <2>1, RemainderIs
  <1>4. (t - 0) % WordSize = t /\ (Lo(t) - 0) % ByteSize = Lo(t)
    BY <1>1, <1>2, <1>3
  <1>5. W(Hi(t), Lo(t)) = t
    <2>1. t = ByteSize * (t \div ByteSize) + (t % ByteSize)
      BY <1>1, <1>2
    <2> QED
      BY <2>1 DEF W, Hi, Lo
  <1> QED
    BY <1>4, <1>5 DEF Below

LEMMA DownIsBelow ==
  ASSUME TypeOK, NEW n \in Int
  PROVE  Down(n) = Below(emulation, s, n) /\ Up(n) = Below(emulation, s, 0 - n)
  <1>1. s \in Int /\ Lo(s) \in Int
    BY BytesOfWord, Sizes DEF TypeOK, Word, Byte
  <1>2. s - (0 - n) = s + n /\ Lo(s) - (0 - n) = Lo(s) + n
    BY <1>1
  <1> QED
    BY <1>2 DEF Down, Up, Below

-----------------------------------------------------------------------------
\* What a return makes of the bytes b that were pushed for the frame f.
Holds(f, b) ==
  /\ f.kind = "jsr" /\ f.size = 2 => (W(b[1], b[2]) + 1) % WordSize = f.pc
  /\ f.kind = "jsl" /\ f.size = 3 => b[1] = f.pbr /\ (W(b[2], b[3]) + 1) % WordSize = f.pc
  /\ f.kind = "interrupt" /\ f.size = 3 => W(b[1], b[2]) = f.pc /\ FlagsOf(b[3]) = f.p
  /\ f.kind = "interrupt" /\ f.size = 4 =>
       b[1] = f.pbr /\ W(b[2], b[3]) = f.pc /\ FlagsOf(b[4]) = f.p

\* The bytes of f are still in m.
BytesIn(e, m, f) == [k \in 1..f.size |-> m[Below(e, f.s, k - 1)]]

\* The frames lie below each other from the base b; t[k] bytes are used by the
\* first k of them.
Totals(fs, t) ==
  /\ t \in [0..Len(fs) -> Nat]
  /\ t[0] = 0
  /\ \A k \in 1..Len(fs) : t[k] = t[k - 1] + fs[k].size
  /\ \A j, k \in 0..Len(fs) : j <= k => t[j] <= t[k]

Laid(e, st, m, fs, b, t) ==
  /\ Totals(fs, t)
  /\ t[Len(fs)] <= Limit(e)
  /\ st = Below(e, b, t[Len(fs)])
  /\ \A k \in 1..Len(fs) : fs[k].s = Below(e, b, t[k - 1]) /\ Holds(fs[k], BytesIn(e, m, fs[k]))

StackInv == \E b \in Word, t \in [0..Len(frames) -> Nat] : Laid(emulation, s, mem, frames, b, t)

\* The bytes the program counts on are those of all its frames.
LEMMA UsedIs ==
  ASSUME TypeOK, NEW t, Totals(frames, t)
  PROVE  Used = t[Len(frames)]
  <1> DEFINE n == Len(frames)
             F(g) == [k \in 0..n |-> IF k = 0 THEN 0 ELSE g[k - 1] + frames[k].size]
             total == CHOOSE g : g = F(g)
  <1>1. Used = total[n]
    BY DEF Used
  <1>2. n \in Nat /\ t \in [0..n -> Nat] /\ t[0] = 0
        /\ \A k \in 1..n : t[k] = t[k - 1] + frames[k].size
    BY DEF Totals, TypeOK
  <1>3. t = F(t)
    BY <1>2
  <1>4. total = F(total)
    BY <1>3
  <1> HIDE DEF total
  <1>5. \A k \in 0..n : total[k] = IF k = 0 THEN 0 ELSE total[k - 1] + frames[k].size
    BY <1>4
  <1> DEFINE R == {ss \in Nat \X Nat : ss[1] < ss[2]}
             D == {k \in 0..n : total[k] # t[k]}
  <1>6. IsWellFoundedOn(R, Nat)
    BY NatLessThanWellFounded DEF OpToRel
  <1>7. \A x, y \in Nat : x < y => <<x, y>> \in R
    OBVIOUS
  <1> HIDE DEF R
  <1>8. D = {}
    <2> SUFFICES ASSUME D # {}  PROVE FALSE
      OBVIOUS
    <2>1. D \subseteq Nat
      BY <1>2
    <2>2. PICK k \in D : \A j \in D : ~ (<<j, k>> \in R)
      BY <1>6, <2>1, WFMin
    <2>3. k \in 0..n /\ total[k] # t[k]
      OBVIOUS
    <2>4. k # 0
      BY <1>2, <1>5, <2>3
    <2>5. k - 1 \in 0..n /\ k - 1 \in Nat /\ k \in Nat /\ k - 1 < k /\ k \in 1..n
      BY <1>2, <2>3, <2>4
    <2>6. k - 1 \notin D
      BY <1>7, <2>2, <2>5
    <2>7. total[k - 1] = t[k - 1]
      BY <2>5, <2>6
    <2> QED
      BY <1>2, <1>5, <2>3, <2>4, <2>5, <2>7
  <1> QED
    BY <1>1, <1>2, <1>8

LEMMA FrameParts ==
  ASSUME NEW fs \in Seq(FrameType), NEW k \in 1..Len(fs)
  PROVE  /\ fs[k] \in FrameType /\ fs[k].size \in 1..4 /\ fs[k].s \in Word
         /\ k - 1 \in 0..Len(fs) /\ k \in 0..Len(fs) /\ Len(fs) \in Nat
  <1>1. Len(fs) \in Nat /\ fs[k] \in FrameType
    OBVIOUS
  <1>2. fs[k].size \in 1..4 /\ fs[k].s \in Word
    BY <1>1 DEF FrameType
  <1>3. k - 1 \in 0..Len(fs) /\ k \in 0..Len(fs)
    BY <1>1
  <1> QED
    BY <1>1, <1>2, <1>3

\* The first q bytes below the base are the same in m and in m2.
SameTo(e, b, m, m2, q) == \A r \in 0..(q - 1) : m2[Below(e, b, r)] = m[Below(e, b, r)]

\* A frame is not touched by a change above or below it.
LEMMA FrameKept ==
  ASSUME NEW e \in BOOLEAN, NEW st, NEW m, NEW fs \in Seq(FrameType), NEW b \in Word, NEW t,
         Laid(e, st, m, fs, b, t), NEW k \in 1..Len(fs), NEW m2, NEW q \in Nat, t[k] <= q,
         SameTo(e, b, m, m2, q)
  PROVE  Holds(fs[k], BytesIn(e, m2, fs[k]))
  <1> DEFINE f == fs[k]
  <1>1. /\ f.size \in 1..4 /\ f.s \in Word /\ f.s = Below(e, b, t[k - 1])
        /\ t[k - 1] \in Nat /\ t[k] = t[k - 1] + f.size /\ Holds(f, BytesIn(e, m, f))
    BY FrameParts DEF Laid, Totals
  <1> HIDE DEF f
  <1>2. ASSUME NEW j \in 1..f.size
        PROVE  m2[Below(e, f.s, j - 1)] = m[Below(e, f.s, j - 1)]
    <2> DEFINE a == t[k - 1]
               c == t[k]
               z == f.size
    <2>0. a \in Nat /\ c = a + z /\ c <= q /\ z \in 1..4 /\ j \in 1..z
      BY <1>1
    <2> HIDE DEF a, c, z
    <2>1. j - 1 \in Int /\ a + (j - 1) \in 0..(q - 1) /\ a \in Int
      BY <2>0
    <2> USE DEF a
    <2>2. Below(e, f.s, j - 1) = Below(e, b, t[k - 1] + (j - 1))
      BY <1>1, <2>1, BelowBelow
    <2> QED
      BY <2>1, <2>2 DEF SameTo
  <1>3. BytesIn(e, m2, f) = BytesIn(e, m, f)
    BY <1>2 DEF BytesIn
  <1> QED
    BY <1>1, <1>3 DEF f

\* What is pushed lies below the frames there are, and next to the last of them.
LEMMA PushLays ==
  ASSUME TypeOK, NEW b \in Word, NEW t, Laid(emulation, s, mem, frames, b, t),
         NEW bytes \in Seq(Byte), NEW f \in FrameType, Len(bytes) = f.size, f.s = s,
         Holds(f, bytes), Push(bytes, f)
  PROVE  \E u \in [0..Len(frames') -> Nat] : Laid(emulation, s', mem', frames', b, u)
  <1> DEFINE n == Len(frames)
             T == t[n]
             e == emulation
             u == [k \in 0..(n + 1) |-> IF k <= n THEN t[k] ELSE T + f.size]
  <1>0. n \in Nat /\ frames \in Seq(FrameType) /\ e \in BOOLEAN /\ s \in Word
        /\ f.size \in 1..4
    BY DEF TypeOK, FrameType
  <1>1. /\ t \in [0..n -> Nat] /\ T \in Nat /\ t[0] = 0 /\ T <= Limit(e) /\ Limit(e) \in Nat
        /\ \A k \in 1..n : t[k] = t[k - 1] + frames[k].size
        /\ \A j, k \in 0..n : j <= k => t[j] <= t[k]
        /\ s = Below(e, b, T)
    BY <1>0, LimitIs DEF Laid, Totals
  <1>2. Totals(frames, t)
    BY DEF Laid
  <1>3. T + f.size <= Limit(e)
    BY <1>2, UsedIs DEF Push, Room, Limit
  <1>4. \A i \in 0..f.size : Down(i) = Below(e, b, T + i)
    <2> SUFFICES ASSUME NEW i \in 0..f.size  PROVE Down(i) = Below(e, b, T + i)
      OBVIOUS
    <2>1. i \in Int /\ T \in Int
      BY <1>0, <1>1
    <2> QED
      BY <1>0, <1>1, <2>1, DownIsBelow, BelowBelow
  <1>5. s' = Below(e, b, T + f.size)
    BY <1>0, <1>4 DEF Push
  <1>6. frames' = Append(frames, f) /\ Len(frames') = n + 1 /\ frames' \in Seq(FrameType)
    BY <1>0 DEF Push
  <1>7. u \in [0..(n + 1) -> Nat] /\ u[0] = 0 /\ u[n + 1] = T + f.size
        /\ \A k \in 0..n : u[k] = t[k]
    BY <1>0, <1>1
  <1> HIDE DEF u, T, n, e
  <1>8. \A k \in 1..n : frames'[k] = frames[k] /\ u[k] = t[k] /\ u[k - 1] = t[k - 1]
    <2> SUFFICES ASSUME NEW k \in 1..n
                 PROVE  frames'[k] = frames[k] /\ u[k] = t[k] /\ u[k - 1] = t[k - 1]
      OBVIOUS
    <2>1. k \in 0..n /\ k - 1 \in 0..n
      BY <1>0
    <2>2. frames'[k] = frames[k]
      BY <1>0, <1>6 DEF n
    <2> QED
      BY <1>7, <2>1, <2>2
  <1>9. frames'[n + 1] = f /\ u[n] = T /\ n + 1 - 1 = n
    BY <1>0, <1>6, <1>7 DEF n, T
  <1>10. Totals(frames', u)
    <2>1. \A k \in 1..(n + 1) : u[k] = u[k - 1] + frames'[k].size
      <3> SUFFICES ASSUME NEW k \in 1..(n + 1)  PROVE u[k] = u[k - 1] + frames'[k].size
        OBVIOUS
      <3>1. CASE k \in 1..n
        BY <1>1, <1>8, <3>1
      <3>2. CASE k = n + 1
        <4>1. k - 1 = n /\ frames'[k] = f /\ u[k] = T + f.size
          BY <1>0, <1>7, <1>9, <3>2
        <4> QED
          BY <1>9, <4>1
      <3> QED
        BY <1>0, <3>1, <3>2
    <2>2. \A j, k \in 0..(n + 1) : j <= k => u[j] <= u[k]
      <3> SUFFICES ASSUME NEW j \in 0..(n + 1), NEW k \in 0..(n + 1), j <= k
                   PROVE  u[j] <= u[k]
        OBVIOUS
      <3>1. CASE k \in 0..n
        <4>1. j \in 0..n
          BY <1>0, <3>1
        <4> QED
          BY <1>1, <1>7, <3>1, <4>1
      <3>2. CASE k = n + 1 /\ j = n + 1
        BY <1>0, <1>1, <1>7, <3>2
      <3>3. CASE k = n + 1 /\ j \in 0..n
        <4>1. n \in 0..n /\ j <= n
          BY <1>0, <3>3
        <4>2. t[j] <= T /\ t[j] \in Nat
          BY <1>1, <3>3, <4>1 DEF T
        <4> QED
          BY <1>0, <1>1, <1>7, <3>3, <4>1, <4>2
      <3> QED
        BY <1>0, <3>1, <3>2, <3>3
    <2> QED
      BY <1>6, <1>7, <2>1, <2>2 DEF Totals
  <1>11. ASSUME NEW r \in 0..(T - 1)  PROVE mem'[Below(e, b, r)] = mem[Below(e, b, r)]
    <2>1. Below(e, b, r) \in Word
      BY <1>0, <1>1, BelowParts
    <2>2. ASSUME NEW k \in 1..Len(bytes), Below(e, b, r) = Down(k - 1)  PROVE FALSE
      <3>1. k - 1 \in 0..f.size /\ T + (k - 1) \in 0..(Limit(e) - 1) /\ r \in 0..(Limit(e) - 1)
        <4>1. k \in 1..f.size /\ f.size \in Nat /\ T \in Nat /\ Limit(e) \in Nat
          BY <1>0, <1>1
        <4>2. k - 1 \in 0..f.size /\ k - 1 \in Nat /\ k - 1 < f.size
          BY <4>1
        <4> QED
          BY <4>1, <4>2, <1>3
      <3>2. Below(e, b, r) = Below(e, b, T + (k - 1))
        BY <1>4, <2>2, <3>1
      <3>3. r = T + (k - 1)
        BY <1>0, <3>1, <3>2, BelowDiffers
      <3> QED
        BY <1>1, <3>3
    <2> QED
      BY <2>1, <2>2 DEF Push
  <1>12. ASSUME NEW k \in 1..n
         PROVE  frames'[k].s = Below(e, b, u[k - 1]) /\ Holds(frames'[k], BytesIn(e, mem', frames'[k]))
    <2>1. k \in 1..Len(frames) /\ t[k] <= T /\ frames[k].s = Below(e, b, t[k - 1])
      BY <1>0, <1>1 DEF n, T, e, Laid
    <2>2. Laid(e, s, mem, frames, b, t)
      BY DEF e
    <2>3. SameTo(e, b, mem, mem', T)
      BY <1>11 DEF SameTo
    <2>4. Holds(frames[k], BytesIn(e, mem', frames[k]))
      BY <1>0, <1>1, <2>1, <2>2, <2>3, FrameKept
    <2> QED
      BY <1>8, <2>1, <2>4
  <1>13. Holds(f, BytesIn(e, mem', f))
    <2>1. ASSUME NEW j \in 1..f.size  PROVE mem'[Below(e, f.s, j - 1)] = bytes[j]
      <3>1. Below(e, f.s, j - 1) = Down(j - 1) /\ j - 1 \in Int
        BY <1>0, DownIsBelow DEF e
      <3>2. Down(j - 1) \in Word
        BY <1>0, <3>1, BelowParts
      <3>3. ASSUME NEW k \in 1..Len(bytes), Down(j - 1) = Down(k - 1)  PROVE k = j
        <4>1. /\ k - 1 \in 0..f.size /\ j - 1 \in 0..f.size
              /\ T + (k - 1) \in 0..(Limit(e) - 1) /\ T + (j - 1) \in 0..(Limit(e) - 1)
          <5>1. k \in 1..f.size
            OBVIOUS
          <5> QED
            BY <1>0, <1>1, <1>3, <5>1
        <4>2. Below(e, b, T + (j - 1)) = Below(e, b, T + (k - 1))
          BY <1>4, <3>3, <4>1
        <4>3. T + (j - 1) = T + (k - 1)
          BY <1>0, <4>1, <4>2, BelowDiffers
        <4> QED
          BY <1>0, <1>1, <4>3
      <3>4. (CHOOSE k \in 1..Len(bytes) : Down(j - 1) = Down(k - 1)) = j
        BY <3>3
      <3> QED
        BY <3>1, <3>2, <3>4 DEF Push
    <2>2. bytes \in [1..f.size -> Byte]
      OBVIOUS
    <2>3. BytesIn(e, mem', f) = bytes
      BY <2>1, <2>2 DEF BytesIn
    <2> QED
      BY <2>3
  <1>14. f.s = Below(e, b, u[n])
    BY <1>1, <1>9
  <1> QED
    <2>1. \A k \in 1..(n + 1) : /\ frames'[k].s = Below(e, b, u[k - 1])
                               /\ Holds(frames'[k], BytesIn(e, mem', frames'[k]))
      <3> SUFFICES ASSUME NEW k \in 1..(n + 1)
                   PROVE  /\ frames'[k].s = Below(e, b, u[k - 1])
                          /\ Holds(frames'[k], BytesIn(e, mem', frames'[k]))
        OBVIOUS
      <3>1. CASE k \in 1..n
        BY <1>12, <3>1
      <3>2. CASE k = n + 1
        <4>1. frames'[k] = f /\ k - 1 = n
          BY <1>0, <1>9, <3>2
        <4> QED
          BY <1>13, <1>14, <4>1
      <3> QED
        BY <1>0, <3>1, <3>2
    <2>2. Laid(e, s', mem', frames', b, u)
      BY <1>3, <1>5, <1>6, <1>7, <1>10, <2>1 DEF Laid
    <2> QED
      BY <1>6, <1>7, <2>2 DEF e

\* What is pulled is the frame pushed last, byte by byte.
LEMMA PullFinds ==
  ASSUME TypeOK, NEW b \in Word, NEW t, Laid(emulation, s, mem, frames, b, t),
         NEW kind, NEW n \in Nat, Pull(kind, n)
  PROVE  /\ Top \in FrameType /\ s' = Top.s /\ Top.kind = kind /\ Top.size = n
         /\ Holds(Top, BytesIn(emulation, mem, Top))
         /\ \A k \in 1..n : BytesIn(emulation, mem, Top)[n + 1 - k] = Pulled(k)
  <1> DEFINE l == Len(frames)
             T == t[l]
             e == emulation
  <1>0. /\ l \in Nat \ {0} /\ l - 1 \in 0..l /\ l \in 1..l
        /\ e \in BOOLEAN /\ s \in Word /\ frames \in Seq(FrameType)
    BY EmptySeq DEF TypeOK, Pull
  <1>1. Top = frames[l] /\ Top.kind = kind /\ Top.size = n
    BY DEF Top, Pull
  <1>2. Top \in FrameType /\ Top.s \in Word /\ n \in 1..4
    BY <1>0, <1>1, FrameParts
  <1>3. /\ T \in Nat /\ t[l - 1] \in Nat /\ T = t[l - 1] + n
        /\ s = Below(e, b, T) /\ Top.s = Below(e, b, t[l - 1])
        /\ Holds(Top, BytesIn(e, mem, Top))
    BY <1>0, <1>1 DEF Laid, Totals
  <1> HIDE DEF l, T
  <1>4. \A i \in 0..n : Up(i) = Below(e, b, T - i)
    <2> SUFFICES ASSUME NEW i \in 0..n  PROVE Up(i) = Below(e, b, T - i)
      OBVIOUS
    <2>1. i \in Int /\ T \in Int /\ 0 - i \in Int /\ T + (0 - i) = T - i
      BY <1>3
    <2> QED
      BY <1>0, <1>3, <2>1, DownIsBelow, BelowBelow
  <1>5. s' = Top.s
    <2>1. T - n = t[l - 1] /\ n \in 0..n
      BY <1>2, <1>3
    <2> QED
      BY <1>3, <1>4, <2>1 DEF Pull
  <1>6. ASSUME NEW k \in 1..n  PROVE BytesIn(e, mem, Top)[n + 1 - k] = Pulled(k)
    <2> DEFINE j == n + 1 - k
    <2>1. j \in 1..n /\ k \in 0..n /\ j - 1 \in Int /\ t[l - 1] \in Int
          /\ t[l - 1] + (j - 1) = T - k
      BY <1>2, <1>3
    <2> HIDE DEF j
    <2>2. Below(e, Top.s, j - 1) = Below(e, b, T - k)
      BY <1>0, <1>3, <2>1, BelowBelow
    <2> QED
      BY <1>1, <1>4, <2>1, <2>2 DEF BytesIn, Pulled, j
  <1> QED
    BY <1>1, <1>2, <1>3, <1>5, <1>6

\* What is pulled leaves the frames above it as they were.
LEMMA PullLeaves ==
  ASSUME TypeOK, NEW b \in Word, NEW t, Laid(emulation, s, mem, frames, b, t),
         NEW kind, NEW n \in Nat, Pull(kind, n)
  PROVE  \E u \in [0..Len(frames') -> Nat] : Laid(emulation, s', mem', frames', b, u)
  <1> DEFINE l == Len(frames)
             T == t[l]
             S == t[l - 1]
             e == emulation
             u == [k \in 0..(l - 1) |-> t[k]]
  <1>0. /\ l \in Nat \ {0} /\ l - 1 \in 0..l /\ l - 1 \in Nat /\ l \in 1..l
        /\ e \in BOOLEAN /\ s \in Word /\ frames \in Seq(FrameType)
    BY EmptySeq DEF TypeOK, Pull
  <1>1. /\ Top = frames[l] /\ Top.size = n /\ s' = Top.s /\ Top \in FrameType
    BY PullFinds DEF Top
  <1>2. n \in 1..4
    BY <1>1 DEF FrameType
  <1>3. /\ t \in [0..l -> Nat] /\ t[0] = 0 /\ T <= Limit(e) /\ Limit(e) \in Nat
        /\ \A k \in 1..l : t[k] = t[k - 1] + frames[k].size
        /\ \A j, k \in 0..l : j <= k => t[j] <= t[k]
        /\ s = Below(e, b, T) /\ Top.s = Below(e, b, S)
    BY <1>0, <1>1, LimitIs DEF Laid, Totals
  <1>4. T \in Nat /\ S \in Nat /\ T = S + n
    BY <1>0, <1>1, <1>3
  <1>5. /\ frames' = SubSeq(frames, 1, l - 1)
        /\ frames' \in Seq(FrameType) /\ Len(frames') = l - 1
        /\ \A k \in 1..(l - 1) : frames'[k] = frames[k]
    <2>1. frames' = SubSeq(frames, 1, l - 1)
      BY DEF Pull
    <2>2. 1 \in 1..(Len(frames) + 1) /\ l - 1 \in 0..Len(frames)
      BY <1>0
    <2> HIDE DEF l
    <2>3. /\ SubSeq(frames, 1, l - 1) \in Seq(FrameType)
          /\ Len(SubSeq(frames, 1, l - 1)) = (l - 1) - 1 + 1
          /\ \A k \in 1..((l - 1) - 1 + 1) : SubSeq(frames, 1, l - 1)[k] = frames[1 + k - 1]
      BY <1>0, <2>2, SubSeqProperties
    <2> QED
      BY <1>0, <2>1, <2>3
  <1>6. u \in [0..(l - 1) -> Nat] /\ u[0] = 0 /\ u[l - 1] = S /\ \A k \in 0..(l - 1) : u[k] = t[k]
    BY <1>0, <1>3
  <1> HIDE DEF l, T, S, u, e
  <1>7. Totals(frames', u)
    <2>1. ASSUME NEW k \in 1..(l - 1)  PROVE u[k] = u[k - 1] + frames'[k].size
      <3>1. k \in 0..(l - 1) /\ k - 1 \in 0..(l - 1) /\ k \in 1..l
        BY <1>0
      <3> QED
        BY <1>3, <1>5, <1>6, <3>1
    <2>2. ASSUME NEW j \in 0..(l - 1), NEW k \in 0..(l - 1), j <= k  PROVE u[j] <= u[k]
      <3>1. j \in 0..l /\ k \in 0..l
        BY <1>0
      <3> QED
        BY <1>3, <1>6, <2>2, <3>1
    <2> QED
      BY <1>5, <1>6, <2>1, <2>2 DEF Totals
  <1>8. \A i \in 0..n : Up(i) = Below(e, b, T - i)
    <2> SUFFICES ASSUME NEW i \in 0..n  PROVE Up(i) = Below(e, b, T - i)
      OBVIOUS
    <2>1. i \in Int /\ T \in Int /\ 0 - i \in Int /\ T + (0 - i) = T - i
      BY <1>4
    <2> QED
      BY <1>0, <1>3, <2>1, DownIsBelow, BelowBelow DEF e
  <1>9. SameTo(e, b, mem, mem', S)
    <2> SUFFICES ASSUME NEW r \in 0..(S - 1)
                 PROVE  mem'[Below(e, b, r)] = mem[Below(e, b, r)]
      BY DEF SameTo
    <2>1. Below(e, b, r) \in Word
      BY <1>0, <1>4, BelowParts
    <2>2. ASSUME NEW k \in 1..n, Below(e, b, r) = Up(k)  PROVE FALSE
      <3>1. k \in 0..n /\ T - k \in 0..(Limit(e) - 1) /\ r \in 0..(Limit(e) - 1) /\ r # T - k
        BY <1>2, <1>3, <1>4
      <3>2. Below(e, b, r) = Below(e, b, T - k)
        BY <1>8, <2>2, <3>1
      <3> QED
        BY <1>0, <3>1, <3>2, BelowDiffers
    <2> QED
      BY <2>1, <2>2 DEF Pull
  <1>10. ASSUME NEW k \in 1..Len(frames')
         PROVE  frames'[k].s = Below(e, b, u[k - 1]) /\ Holds(frames'[k], BytesIn(e, mem', frames'[k]))
    <2>1. k \in 1..(l - 1) /\ k \in 1..Len(frames) /\ k \in 0..(l - 1) /\ k - 1 \in 0..(l - 1)
          /\ k \in 0..l /\ l - 1 \in 0..l
      BY <1>0, <1>5 DEF l
    <2>2. t[k] <= S /\ frames[k].s = Below(e, b, t[k - 1])
      BY <1>3, <2>1 DEF S, e, Laid
    <2>3. Laid(e, s, mem, frames, b, t)
      BY DEF e
    <2>4. Holds(frames[k], BytesIn(e, mem', frames[k]))
      BY <1>0, <1>4, <1>9, <2>1, <2>2, <2>3, FrameKept
    <2> QED
      BY <1>5, <1>6, <2>1, <2>2, <2>4
  <1> QED
    <2>1. Laid(e, s', mem', frames', b, u)
      <3>1. Len(frames') = l - 1 /\ u[Len(frames')] = S
        BY <1>5, <1>6
      <3>2. S <= Limit(e)
        BY <1>2, <1>3, <1>4
      <3>3. s' = Below(e, b, S)
        BY <1>1, <1>3
      <3> QED
        BY <1>7, <1>10, <3>1, <3>2, <3>3 DEF Laid
    <2> QED
      BY <1>5, <1>6, <2>1 DEF e

-----------------------------------------------------------------------------
(* Every step keeps the frames where they are.                             *)

\* What is pushed comes back: flags, words, and the address after a call.
LEMMA PushedBack ==
  /\ \A q \in FlagsType : FlagsOf(ByteOf(q)) = q
  /\ \A w \in Word : W(Hi(w), Lo(w)) = w
  <1>1. ASSUME NEW q \in FlagsType  PROVE FlagsOf(ByteOf(q)) = q
    <2> DEFINE r == FlagsOf(ByteOf(q))
    <2>1. q.x \in BOOLEAN /\ q.i \in BOOLEAN /\ q.d \in BOOLEAN /\ q = [x |-> q.x, i |-> q.i, d |-> q.d]
      BY DEF FlagsType
    <2>2. ASSUME NEW a \in 0..1, NEW b \in 0..1, NEW c \in 0..1
          PROVE  LET v == 4 * a + 2 * b + c
                 IN  (v \div 4) % 2 = a /\ (v \div 2) % 2 = b /\ v % 2 = c
      OBVIOUS
    <2>3. Bit(q.x) \in 0..1 /\ Bit(q.i) \in 0..1 /\ Bit(q.d) \in 0..1
      BY DEF Bit
    <2>4. r = [x |-> Bit(q.x) = 1, i |-> Bit(q.i) = 1, d |-> Bit(q.d) = 1]
      BY <2>2, <2>3 DEF FlagsOf, ByteOf
    <2>5. (Bit(q.x) = 1) = q.x /\ (Bit(q.i) = 1) = q.i /\ (Bit(q.d) = 1) = q.d
      BY <2>1 DEF Bit
    <2> QED
      BY <2>1, <2>4, <2>5
  <1>2. ASSUME NEW w \in Word  PROVE W(Hi(w), Lo(w)) = w
    <2>1. w \in Int /\ ByteSize \in Nat \ {0}
      BY Sizes DEF Word
    <2>2. w = ByteSize * (w \div ByteSize) + (w % ByteSize)
      BY <2>1
    <2> QED
      BY <2>2 DEF W, Hi, Lo
  <1> QED
    BY <1>1, <1>2

LEMMA AfterIs ==
  ASSUME TypeOK, NEW n \in Nat
  PROVE  After(n) \in Word /\ (After(n) + 1) % WordSize = After(n + 1)
  <1>1. pc \in Int /\ WordSize \in Nat \ {0}
    BY Sizes DEF TypeOK, Word
  <1>2. ((pc + n) % WordSize) \in Int
    BY <1>1
  <1>3. /\ ((pc + n) % WordSize) - (0 - 1) = ((pc + n) % WordSize) + 1
        /\ (pc + n) - (0 - 1) = pc + (n + 1)
        /\ 0 - 1 \in Int /\ pc + n \in Int
    BY <1>1, <1>2
  <1>4. (((pc + n) % WordSize) - (0 - 1)) % WordSize = ((pc + n) - (0 - 1)) % WordSize
    BY <1>1, <1>3, StepReduced
  <1> QED
    BY <1>1, <1>3, <1>4, Reduced DEF After

LEMMA StackKept == StackInv /\ UNCHANGED <<stack, emulation>> => StackInv'
  BY DEF StackInv, stack

LEMMA StackMoved ==
  ASSUME TypeOK, NEW to \in Word, MoveStack(to), emulation' \in BOOLEAN
  PROVE  StackInv'
  <1> DEFINE t == [k \in 0..0 |-> 0]
  <1>1. s' = to /\ frames' = <<>> /\ Len(frames') = 0
    BY DEF MoveStack
  <1>2. t \in [0..Len(frames') -> Nat] /\ t[0] = 0
    BY <1>1
  <1>3. Laid(emulation', s', mem', frames', to, t)
    <2>1. Totals(frames', t)
      BY <1>1, <1>2 DEF Totals
    <2>2. t[Len(frames')] <= Limit(emulation')
      BY <1>1, <1>2, LimitIs
    <2>3. s' = Below(emulation', to, t[Len(frames')])
      BY <1>1, <1>2, BelowNone
    <2> QED
      BY <1>1, <2>1, <2>2, <2>3 DEF Laid
  <1> QED
    BY <1>2, <1>3 DEF StackInv

LEMMA StackPushed ==
  ASSUME TypeOK, StackInv, emulation' = emulation,
         NEW bytes \in Seq(Byte), NEW f \in FrameType, Len(bytes) = f.size, f.s = s,
         Holds(f, bytes), Push(bytes, f)
  PROVE  StackInv'
  <1>1. PICK b \in Word, t \in [0..Len(frames) -> Nat] : Laid(emulation, s, mem, frames, b, t)
    BY DEF StackInv
  <1>2. \E u \in [0..Len(frames') -> Nat] : Laid(emulation, s', mem', frames', b, u)
    BY <1>1, PushLays
  <1> QED
    BY <1>2 DEF StackInv

LEMMA StackPulled ==
  ASSUME TypeOK, StackInv, emulation' = emulation, NEW kind, NEW n \in Nat, Pull(kind, n)
  PROVE  StackInv'
  <1>1. PICK b \in Word, t \in [0..Len(frames) -> Nat] : Laid(emulation, s, mem, frames, b, t)
    BY DEF StackInv
  <1>2. \E u \in [0..Len(frames') -> Nat] : Laid(emulation, s', mem', frames', b, u)
    BY <1>1, PullLeaves
  <1> QED
    BY <1>2 DEF StackInv

LEMMA InitStack == Init => StackInv
  <1> SUFFICES ASSUME Init  PROVE StackInv
    OBVIOUS
  <1> DEFINE t == [k \in 0..0 |-> 0]
  <1>1. s \in Word /\ frames = <<>> /\ Len(frames) = 0 /\ emulation = TRUE
    BY WordOfBytes, Sizes DEF Init
  <1>2. t \in [0..Len(frames) -> Nat] /\ t[0] = 0
    BY <1>1
  <1>3. Laid(emulation, s, mem, frames, s, t)
    <2>1. Totals(frames, t)
      BY <1>1, <1>2 DEF Totals
    <2>2. t[Len(frames)] <= Limit(emulation)
      <3>1. Limit(emulation) \in Nat
        BY <1>1, LimitIs
      <3>2. t[Len(frames)] = 0
        BY <1>1, <1>2
      <3> HIDE DEF t
      <3> QED
        BY <3>1, <3>2
    <2>3. s = Below(emulation, s, t[Len(frames)])
      BY <1>1, <1>2, BelowNone
    <2> QED
      BY <1>1, <2>1, <2>2, <2>3 DEF Laid
  <1> QED
    BY <1>1, <1>2, <1>3 DEF StackInv

\* Data and flags mean nothing to a return.
LEMMA DataHolds ==
  ASSUME TypeOK, NEW kind \in {"data", "flags"}, NEW n \in 1..2, NEW b
  PROVE  /\ Data(kind, n) \in FrameType /\ Data(kind, n).size = n /\ Data(kind, n).s = s
         /\ Holds(Data(kind, n), b)
  <1>1. 0 \in Word /\ 0 \in Byte /\ NoFlags \in FlagsType
    BY FlagsType_, Sizes DEF Word
  <1>2. kind \in Kinds /\ n \in 1..4
    BY DEF Kinds
  <1>3. Data(kind, n) \in FrameType
    BY <1>1, <1>2, FrameIs DEF Data
  <1> QED
    BY <1>3 DEF Data, Frame, Holds

LEMMA DataPushed ==
  ASSUME TypeOK, StackInv, emulation' = emulation, NEW kind \in {"data", "flags"},
         NEW bytes \in Seq(Byte), NEW n \in 1..2, Len(bytes) = n, Push(bytes, Data(kind, n))
  PROVE  StackInv'
  <1> DEFINE f == Data(kind, n)
  <1>1. f \in FrameType /\ f.size = n /\ f.s = s /\ Holds(f, bytes)
    BY DataHolds
  <1>2. Push(bytes, f)
    OBVIOUS
  <1> HIDE DEF f
  <1> QED
    BY <1>1, <1>2, StackPushed

LEMMA StepStack == TypeOK /\ StackInv /\ [Next]_vars => StackInv'
  <1> SUFFICES ASSUME TypeOK, StackInv, [Next]_vars  PROVE StackInv'
    OBVIOUS
  <1>0. /\ s \in Word /\ Lo(s) \in Byte /\ Hi(s) \in Byte /\ pc \in Word /\ pbr \in Byte
        /\ p \in FlagsType /\ Hi(pc) \in Byte /\ Lo(pc) \in Byte /\ ByteOf(p) \in Byte
        /\ 0 \in Byte /\ 1 \in Byte /\ 0 \in Word /\ NoFlags \in FlagsType /\ x_hi \in Byte
        /\ emulation \in BOOLEAN
    BY BytesOfWord, FlagsType_, Sizes DEF TypeOK, Word
  <1>1. CASE Compute \/ Jml \/ Wai \/ SetFlags \/ ComputeX \/ TransferToX \/ BlockMove
    BY <1>1, StackKept DEF Compute, Jml, Wai, SetFlags, ComputeX, TransferToX, BlockMove, stack
  <1>2. CASE Xce
    <2>1. CASE EnterEmulation
      BY <1>0, <2>1, WordOfBytes, StackMoved DEF EnterEmulation
    <2>2. CASE emulation' = FALSE /\ MoveStack(s)
      BY <1>0, <2>2, StackMoved
    <2>3. CASE UNCHANGED <<emulation, stack>>
      BY <2>3, StackKept
    <2> QED
      BY <1>2, <2>1, <2>2, <2>3 DEF Xce
  <1>3. CASE SetStack
    <2>1. PICK to \in Stacks : Txs(Lo(to)) \/ Tcs(to)
      BY <1>3 DEF SetStack
    <2>2. Lo(to) \in Byte /\ Hi(to) \in Byte /\ emulation' \in BOOLEAN
      BY <1>0, <1>3, BytesOfWord, CpuAssumption DEF SetStack
    <2> QED
      BY <1>0, <2>1, <2>2, WordOfBytes, StackMoved DEF Txs, Tcs
  <1>4. CASE PushData
    <2>0. emulation' = emulation
      BY <1>4 DEF PushData
    <2>1. CASE Push(<<0>>, Data("data", 1))
      <3> DEFINE bytes == <<0>>
      <3>1. bytes \in Seq(Byte) /\ Len(bytes) = 1
        BY <1>0
      <3>2. Push(bytes, Data("data", 1))
        BY <2>1
      <3> HIDE DEF bytes
      <3> QED
        BY <2>0, <3>1, <3>2, DataPushed
    <2>2. CASE \E hi \in HighBytes : Push(<<hi, 0>>, Data("data", 2))
      <3>0. PICK hi \in HighBytes : Push(<<hi, 0>>, Data("data", 2))
        BY <2>2
      <3> DEFINE bytes == <<hi, 0>>
      <3>1. bytes \in Seq(Byte) /\ Len(bytes) = 2
        BY <1>0, CpuAssumption
      <3>2. Push(bytes, Data("data", 2))
        BY <3>0
      <3> HIDE DEF bytes
      <3> QED
        BY <2>0, <3>1, <3>2, DataPushed
    <2> QED
      BY <1>4, <2>1, <2>2 DEF PushData
  <1>5. CASE PullData \/ PullX \/ Plp
    BY <1>5, StackPulled DEF PullData, PullX, Plp
  <1>6. CASE Php
    <2> DEFINE bytes == <<ByteOf(p)>>
    <2>1. bytes \in Seq(Byte) /\ Len(bytes) = 1
      BY <1>0
    <2>2. Push(bytes, Data("flags", 1)) /\ emulation' = emulation
      BY <1>6 DEF Php
    <2> HIDE DEF bytes
    <2> QED
      BY <2>1, <2>2, DataPushed
  <1>7. CASE Jsr
    <2> DEFINE a == After(2)
               bytes == <<Hi(a), Lo(a)>>
               f == Frame("jsr", 2, After(3), 0, NoFlags)
    <2>1. a \in Word /\ After(3) \in Word /\ (a + 1) % WordSize = After(3)
      BY AfterIs
    <2>2. bytes \in Seq(Byte) /\ Len(bytes) = 2 /\ W(bytes[1], bytes[2]) = a
      BY <2>1, BytesOfWord, PushedBack
    <2>3. f \in FrameType
      BY <1>0, <2>1, FrameIs DEF Kinds
    <2>4. f.kind = "jsr" /\ f.size = 2 /\ f.s = s /\ f.pc = After(3)
      BY DEF Frame
    <2>5. Push(bytes, f) /\ emulation' = emulation
      BY <1>7 DEF Jsr
    <2> HIDE DEF a, bytes, f
    <2>6. Holds(f, bytes)
      BY <2>1, <2>2, <2>4 DEF Holds
    <2> QED
      BY <2>2, <2>3, <2>4, <2>5, <2>6, StackPushed
  <1>8. CASE Jsl
    <2> DEFINE a == After(3)
               bytes == <<pbr, Hi(a), Lo(a)>>
               f == Frame("jsl", 3, After(4), pbr, NoFlags)
    <2>1. a \in Word /\ After(4) \in Word /\ (a + 1) % WordSize = After(4)
      BY AfterIs
    <2>2. bytes \in Seq(Byte) /\ Len(bytes) = 3 /\ W(bytes[2], bytes[3]) = a /\ bytes[1] = pbr
      BY <1>0, <2>1, BytesOfWord, PushedBack
    <2>3. f \in FrameType
      BY <1>0, <2>1, FrameIs DEF Kinds
    <2>4. f.kind = "jsl" /\ f.size = 3 /\ f.s = s /\ f.pc = After(4) /\ f.pbr = pbr
      BY DEF Frame
    <2>5. Push(bytes, f) /\ emulation' = emulation
      BY <1>8 DEF Jsl
    <2> HIDE DEF a, bytes, f
    <2>6. Holds(f, bytes)
      BY <2>1, <2>2, <2>4 DEF Holds
    <2> QED
      BY <2>2, <2>3, <2>4, <2>5, <2>6, StackPushed
  <1>9. CASE Interrupt /\ emulation
    <2> DEFINE bytes == <<Hi(pc), Lo(pc), ByteOf(p)>>
               f == Frame("interrupt", 3, pc, 0, p)
    <2>1. /\ bytes \in Seq(Byte) /\ Len(bytes) = 3
          /\ W(bytes[1], bytes[2]) = pc /\ FlagsOf(bytes[3]) = p
      BY <1>0, PushedBack
    <2>2. f \in FrameType
      BY <1>0, FrameIs DEF Kinds
    <2>3. f.kind = "interrupt" /\ f.size = 3 /\ f.s = s /\ f.pc = pc /\ f.p = p
      BY DEF Frame
    <2>4. Push(bytes, f) /\ emulation' = emulation
      BY <1>9 DEF Interrupt
    <2> HIDE DEF bytes, f
    <2>5. Holds(f, bytes)
      BY <2>1, <2>3 DEF Holds
    <2> QED
      BY <2>1, <2>2, <2>3, <2>4, <2>5, StackPushed
  <1>10. CASE Interrupt /\ ~emulation
    <2> DEFINE bytes == <<pbr, Hi(pc), Lo(pc), ByteOf(p)>>
               f == Frame("interrupt", 4, pc, pbr, p)
    <2>1. /\ bytes \in Seq(Byte) /\ Len(bytes) = 4 /\ bytes[1] = pbr
          /\ W(bytes[2], bytes[3]) = pc /\ FlagsOf(bytes[4]) = p
      BY <1>0, PushedBack
    <2>2. f \in FrameType
      BY <1>0, FrameIs DEF Kinds
    <2>3. f.kind = "interrupt" /\ f.size = 4 /\ f.s = s /\ f.pc = pc /\ f.pbr = pbr /\ f.p = p
      BY DEF Frame
    <2>4. Push(bytes, f) /\ emulation' = emulation
      BY <1>10 DEF Interrupt
    <2> HIDE DEF bytes, f
    <2>5. Holds(f, bytes)
      BY <2>1, <2>3 DEF Holds
    <2> QED
      BY <2>1, <2>2, <2>3, <2>4, <2>5, StackPushed
  <1>11. CASE Rts \/ Rtl \/ Rti
    BY <1>11, StackPulled DEF Rts, Rtl, Rti
  <1>12. CASE UNCHANGED vars
    BY <1>12, StackKept DEF vars, stack
  <1> QED
    BY <1>1, <1>2, <1>3, <1>4, <1>5, <1>6, <1>7, <1>8, <1>9, <1>10, <1>11, <1>12
    DEF Next, Other, TriggerNmi, TriggerIrq

\* Every frame lies where it was pushed, whatever was pushed and pulled since.
THEOREM FramesStay == Spec => []StackInv
  <1>1. TypeOK /\ TypeOK' /\ StackInv /\ [Next]_vars => StackInv'
    BY StepStack
  <1> QED
    BY <1>1, InitStack, CpuTypeCorrect, PTL DEF Spec

-----------------------------------------------------------------------------
(* What a return pulls.                                                    *)

LEMMA TopHolds ==
  ASSUME TypeOK, StackInv, NEW kind, NEW n \in Nat, Pull(kind, n)
  PROVE  \E b : /\ Holds(Top, b) /\ s' = Top.s /\ Top.kind = kind /\ Top.size = n
                /\ \A k \in 1..n : b[n + 1 - k] = Pulled(k)
  <1>1. PICK b \in Word, t \in [0..Len(frames) -> Nat] : Laid(emulation, s, mem, frames, b, t)
    BY DEF StackInv
  <1> QED
    BY <1>1, PullFinds

LEMMA ReturnIs ==
  ASSUME TypeOK, StackInv, Return
  PROVE  /\ pc' = Top.pc /\ s' = Top.s
         /\ BankPushed(Top) => pbr' = Top.pbr
         /\ Top.kind = "interrupt" => p' = Top.p
  <1>1. CASE Rts
    <2>1. Pull("jsr", 2) /\ pc' = (PulledWord(1) + 1) % WordSize
      BY <1>1 DEF Rts, Instruction
    <2>2. PICK b : /\ Holds(Top, b) /\ s' = Top.s /\ Top.kind = "jsr" /\ Top.size = 2
                   /\ \A k \in 1..2 : b[2 + 1 - k] = Pulled(k)
      BY <2>1, TopHolds
    <2>3. b[2] = Pulled(1) /\ b[1] = Pulled(2)
      BY <2>2
    <2> QED
      BY <2>1, <2>2, <2>3 DEF PulledWord, Holds, BankPushed
  <1>2. CASE Rtl
    <2>1. Pull("jsl", 3) /\ pc' = (PulledWord(1) + 1) % WordSize /\ pbr' = Pulled(3)
      BY <1>2 DEF Rtl, Instruction
    <2>2. PICK b : /\ Holds(Top, b) /\ s' = Top.s /\ Top.kind = "jsl" /\ Top.size = 3
                   /\ \A k \in 1..3 : b[3 + 1 - k] = Pulled(k)
      BY <2>1, TopHolds
    <2>3. b[3] = Pulled(1) /\ b[2] = Pulled(2) /\ b[1] = Pulled(3)
      BY <2>2
    <2> QED
      BY <2>1, <2>2, <2>3 DEF PulledWord, Holds, BankPushed
  <1>3. CASE Rti /\ emulation
    <2>1. Pull("interrupt", 3) /\ p' = FlagsOf(Pulled(1)) /\ pc' = PulledWord(2)
      BY <1>3 DEF Rti, Instruction
    <2>2. PICK b : /\ Holds(Top, b) /\ s' = Top.s /\ Top.kind = "interrupt" /\ Top.size = 3
                   /\ \A k \in 1..3 : b[3 + 1 - k] = Pulled(k)
      BY <2>1, TopHolds
    <2>3. b[3] = Pulled(1) /\ b[2] = Pulled(2) /\ b[1] = Pulled(3)
      BY <2>2
    <2> QED
      BY <2>1, <2>2, <2>3 DEF PulledWord, Holds, BankPushed
  <1>4. CASE Rti /\ ~emulation
    <2>1. Pull("interrupt", 4) /\ p' = FlagsOf(Pulled(1)) /\ pc' = PulledWord(2)
          /\ pbr' = Pulled(4)
      BY <1>4 DEF Rti, Instruction
    <2>2. PICK b : /\ Holds(Top, b) /\ s' = Top.s /\ Top.kind = "interrupt" /\ Top.size = 4
                   /\ \A k \in 1..4 : b[4 + 1 - k] = Pulled(k)
      BY <2>1, TopHolds
    <2>3. b[4] = Pulled(1) /\ b[3] = Pulled(2) /\ b[2] = Pulled(3) /\ b[1] = Pulled(4)
      BY <2>2
    <2> QED
      BY <2>1, <2>2, <2>3 DEF PulledWord, Holds, BankPushed
  <1> QED
    BY <1>1, <1>2, <1>3, <1>4 DEF Return

\* Whatever ran in between, calls, interrupts and their handlers, mode switches
\* and wraps of the stack pointer, a return continues where its frame was made,
\* with the stack, the bank and the flags of then (interrupt and rti, jsr and
\* rts, jsl and rtl).
THEOREM ReturnsAreRight == Spec => ReturnsRestore
  <1>1. TypeOK /\ StackInv /\ [Next]_vars =>
          [Return => /\ pc' = Top.pc /\ s' = Top.s
                     /\ BankPushed(Top) => pbr' = Top.pbr
                     /\ Top.kind = "interrupt" => p' = Top.p]_vars
    BY ReturnIs
  <1> QED
    BY <1>1, FramesStay, CpuTypeCorrect, PTL DEF Spec, ReturnsRestore

-----------------------------------------------------------------------------
(* What an address of the processor reaches (Bus, with Cartridge and        *)
(* Addressing): the bytes of the boards, mirrors and stores, operands, and  *)
(* the header of an image.                                                  *)

BankNo == 0..255
AddrNo == 0..(W16 - 1)

LEMMA AddrIs ==
  ASSUME NEW addr \in AddrNo
  PROVE  addr \in Int /\ 0 <= addr /\ addr <= 65535
  BY DEF AddrNo, W16

\* Load and store decode an address by the same rules below the registers and
\* above them; between the two nothing is memory.
LEMMA LowIsNoRegister ==
  ASSUME NEW addr \in AddrNo, addr <= \h1fff
  PROVE  /\ addr \notin ReadOnly /\ addr \notin WriteOnly
         /\ addr \notin LoadableIo /\ addr \notin StorableIo
         /\ addr \notin \h2140..\h217f /\ addr \notin \h2184..\h21ff
         /\ addr \notin \h4300..\h43ff
  <1>0. addr \in Int /\ 0 <= addr /\ addr <= \h1fff
    BY AddrIs
  <1>1. addr \notin ReadOnly
    BY <1>0 DEF ReadOnly
  <1>2. addr \notin WriteOnly
    BY <1>0 DEF WriteOnly
  <1>3. addr \notin LoadableIo
    BY <1>0 DEF LoadableIo
  <1>4. addr \notin StorableIo
    BY <1>0 DEF StorableIo
  <1>5. /\ addr \notin \h2140..\h217f /\ addr \notin \h2184..\h21ff
        /\ addr \notin \h4300..\h43ff
    BY <1>0
  <1> QED
    BY <1>1, <1>2, <1>3, <1>4, <1>5

LEMMA HighIsNoRegister ==
  ASSUME NEW addr \in AddrNo, addr >= \h8000
  PROVE  /\ addr \notin ReadOnly /\ addr \notin WriteOnly
         /\ addr \notin LoadableIo /\ addr \notin StorableIo
         /\ addr \notin \h2140..\h217f /\ addr \notin \h2184..\h21ff
         /\ addr \notin \h4300..\h43ff /\ ~ addr <= \h1fff
  <1>0. addr \in Int /\ \h8000 <= addr
    BY AddrIs
  <1>1. addr \notin ReadOnly
    BY <1>0 DEF ReadOnly
  <1>2. addr \notin WriteOnly
    BY <1>0 DEF WriteOnly
  <1>3. addr \notin LoadableIo
    BY <1>0 DEF LoadableIo
  <1>4. addr \notin StorableIo
    BY <1>0 DEF StorableIo
  <1>5. /\ addr \notin \h2140..\h217f /\ addr \notin \h2184..\h21ff
        /\ addr \notin \h4300..\h43ff /\ ~ addr <= \h1fff
    BY <1>0
  <1> QED
    BY <1>1, <1>2, <1>3, <1>4, <1>5

LEMMA SystemLow ==
  ASSUME NEW bank \in BankNo, NEW addr \in AddrNo, System(bank), addr <= \h1fff
  PROVE  LoadCell(bank, addr) = Wram(addr) /\ StoreCell(bank, addr) = Wram(addr)
  <1>1. LoadCell(bank, addr) = Wram(addr)
    BY LowIsNoRegister, AddrIs DEF LoadCell
  <1>2. StoreCell(bank, addr) = Wram(addr)
    BY LowIsNoRegister, AddrIs DEF StoreCell
  <1> QED
    BY <1>1, <1>2

LEMMA SystemHigh ==
  ASSUME NEW bank \in BankNo, NEW addr \in AddrNo, System(bank), addr >= \h8000
  PROVE  /\ LoadCell(bank, addr) = Memory(bank, addr)
         /\ StoreCell(bank, addr) = Memory(bank, addr)
  <1>0. addr >= \h6000
    BY AddrIs
  <1>1. LoadCell(bank, addr) = Memory(bank, addr)
    BY <1>0, HighIsNoRegister DEF LoadCell
  <1>2. StoreCell(bank, addr) = Memory(bank, addr)
    BY HighIsNoRegister DEF StoreCell
  <1> QED
    BY <1>1, <1>2

LEMMA SystemBetween ==
  ASSUME NEW bank \in BankNo, NEW addr \in AddrNo, System(bank), ~ addr <= \h1fff, ~ addr >= \h8000
  PROVE  StoreCell(bank, addr).dev \notin Memories
  <1>1. \A a : Reg(a).dev = "reg" /\ DmaReg(a).dev \in {"reg", "stop"} /\ Open.dev = "open" /\ STOP.dev = "stop"
    BY DEF Reg, DmaReg, Open, STOP, Cell
  <1> DEFINE c == StoreCell(bank, addr)
  <1>2. \/ c = Reg(addr) \/ c = Reg(\h2140 + (addr % 4)) \/ c = Open \/ c = DmaReg(addr) \/ c = STOP
    BY DEF StoreCell
  <1> HIDE DEF c
  <1>3. c.dev \in {"reg", "open", "stop"}
    BY <1>1, <1>2
  <1> QED
    BY <1>3 DEF Memories, c

LEMMA MemoryFound ==
  ASSUME NEW bank \in BankNo, NEW addr \in AddrNo, StoreCell(bank, addr).dev \in Memories
  PROVE  LoadCell(bank, addr) = StoreCell(bank, addr)
  <1>1. CASE System(bank)
    BY <1>1, SystemLow, SystemHigh, SystemBetween
  <1>2. CASE ~System(bank)
    BY <1>2 DEF LoadCell, StoreCell
  <1> QED
    BY <1>1, <1>2

-----------------------------------------------------------------------------
(* ROM, and the pairs of the system's banks.                                *)

LEMMA BankModulo ==
  ASSUME NEW bank \in BankNo
  PROVE  /\ bank \in Int /\ 0 <= bank /\ bank <= 255
         /\ bank % 128 = IF bank < 128 THEN bank ELSE bank - 128
         /\ bank % 64 = IF bank < 64 THEN bank ELSE IF bank < 128 THEN bank - 64
                        ELSE IF bank < 192 THEN bank - 128 ELSE bank - 192
  BY DEF BankNo

LEMMA WithinIs ==
  ASSUME NEW c, NEW dev, NEW index, Within(c, dev, index) # STOP
  PROVE  Within(c, dev, index).dev = dev /\ Within(c, dev, index).index = index
  BY DEF Within, Cell

LEMMA StopIs == STOP.dev = "stop"
  BY DEF STOP

LEMMA LoRomWired ==
  ASSUME NEW bank \in BankNo, NEW addr \in AddrNo, NEW c,
         ResolveLoRom(c, bank, addr).dev = "rom"
  PROVE  ResolveLoRom(c, bank, addr).index = (bank % 128) * 32 * KB + (addr % (32 * KB))
  <1>0. /\ addr \in Int /\ 0 <= addr /\ addr <= 65535
        /\ bank \in Int /\ 0 <= bank /\ bank <= 255
        /\ bank % 128 = IF bank < 128 THEN bank ELSE bank - 128
    BY AddrIs, BankModulo
  <1> DEFINE e == ResolveLoRom(c, bank, addr)
  <1>a. \A i : Within(c, "ram", i).dev # "rom"
    BY StopIs DEF Within, Cell
  <1>b. \A i : Within(c, "rom", i).dev = "rom" => Within(c, "rom", i).index = i
    BY StopIs DEF Within, Cell
  <1>1. CASE addr < 32 * KB
    <2>1. \/ \E i : e = Within(c, "ram", i)
          \/ e = STOP
      BY <1>1 DEF ResolveLoRom
    <2> QED
      BY <2>1, <1>a, StopIs
  <1>2. CASE ~(addr < 32 * KB)
    <2>0. addr % (32 * KB) = addr - 32 * KB /\ KB = 1024
      BY <1>2, <1>0 DEF KB
    <2>1. CASE bank = \hfe
      <3>1. e = Within(c, "rom", \h3f0000 + addr - 32 * KB)
        BY <1>2, <2>1 DEF ResolveLoRom
      <3> HIDE DEF e
      <3>2. e.index = \h3f0000 + addr - 32 * KB
        BY <3>1, <1>b DEF e
      <3> QED
        BY <3>2, <2>0, <2>1, <1>0 DEF e
    <2>2. CASE bank = \hff
      <3>1. e = Within(c, "rom", \h3f8000 + addr - 32 * KB)
        BY <1>2, <2>2 DEF ResolveLoRom
      <3> HIDE DEF e
      <3>2. e.index = \h3f8000 + addr - 32 * KB
        BY <3>1, <1>b DEF e
      <3> QED
        BY <3>2, <2>0, <2>2, <1>0 DEF e
    <2>3. CASE bank # \hfe /\ bank # \hff
      <3>1. e = Within(c, "rom", (bank % 128) * 32 * KB + addr - 32 * KB) \/ e = STOP
        BY <1>2, <2>3 DEF ResolveLoRom
      <3> HIDE DEF e
      <3>2. e.index = (bank % 128) * 32 * KB + addr - 32 * KB
        BY <3>1, <1>b, StopIs DEF e
      <3> QED
        BY <3>2, <2>0, <1>0 DEF e
    <2> QED
      BY <2>1, <2>2, <2>3
  <1> QED
    BY <1>1, <1>2

LEMMA HighIsNoSram ==
  ASSUME NEW addr, addr >= 32 * KB
  PROVE  addr \notin \h6000..\h7fff
  <1>1. ASSUME addr \in \h6000..\h7fff PROVE FALSE
    BY <1>1 DEF KB
  <1> QED
    BY <1>1

LEMMA HiRomWired ==
  ASSUME NEW bank \in BankNo, NEW addr \in AddrNo, NEW c,
         ResolveHiRom(c, bank, addr).dev = "rom"
  PROVE  ResolveHiRom(c, bank, addr).index = (bank % 64) * 64 * KB + addr
  <1>0. /\ addr \in Int /\ 0 <= addr /\ addr <= 65535
        /\ bank \in Int /\ 0 <= bank /\ bank <= 255
        /\ bank % 128 = IF bank < 128 THEN bank ELSE bank - 128
        /\ bank % 64 = IF bank < 64 THEN bank ELSE IF bank < 128 THEN bank - 64
                        ELSE IF bank < 192 THEN bank - 128 ELSE bank - 192
    BY AddrIs, BankModulo
  <1> DEFINE e == ResolveHiRom(c, bank, addr)
  <1>a. \A i : Within(c, "ram", i).dev # "rom"
    BY StopIs DEF Within, Cell
  <1>b. \A i : Within(c, "rom", i).dev = "rom" => Within(c, "rom", i).index = i
    BY StopIs DEF Within, Cell
  <1>1. \/ e = Within(c, "rom", (bank % 64) * 64 * KB + addr)
        \/ \E i : e = Within(c, "ram", i)
        \/ e = STOP
        \/ bank \in (\h40..\h7d) \cup (\hc0..\hfd)
             /\ e = Within(c, "rom", ((bank % 128) - 64) * 64 * KB + addr)
        \/ bank \in \hfe..\hff /\ e = Within(c, "rom", (bank - \hfe + \h3e) * 64 * KB + addr)
    <2>1. \/ e = Within(c, "rom", (bank % 64) * 64 * KB + addr)
          \/ e = Within(c, "ram", addr % (8 * KB))
          \/ e = STOP
          \/ bank \in (\h40..\h7d) \cup (\hc0..\hfd)
               /\ e = Within(c, "rom", ((bank % 128) - 64) * 64 * KB + addr)
          \/ bank \in \hfe..\hff /\ e = Within(c, "rom", (bank - \hfe + \h3e) * 64 * KB + addr)
      <3>1. CASE bank \in (0..\h3f) \cup (\h80..\hbf) /\ addr >= 32 * KB
        <4>1. ~ (bank \in (\h20..\h3f) \cup (\ha0..\hbf) /\ addr \in \h6000..\h7fff)
          BY <3>1, HighIsNoSram
        <4>2. bank \notin (\h40..\h7d) \cup (\hc0..\hfd) /\ bank \notin \hfe..\hff
          BY <3>1, <1>0
        <4>3. e = Within(c, "rom", (bank % 64) * 64 * KB + addr)
          BY <3>1, <4>1, <4>2 DEF ResolveHiRom
        <4> HIDE DEF e
        <4> QED
          BY <4>3
      <3>2. CASE ~ (bank \in (0..\h3f) \cup (\h80..\hbf) /\ addr >= 32 * KB)
                 /\ bank \in \hfe..\hff
        <4>1. /\ bank \notin (\h40..\h7d) \cup (\hc0..\hfd)
              /\ bank \notin (\h20..\h3f) \cup (\ha0..\hbf)
          BY <3>2, <1>0
        <4>3. e = Within(c, "rom", (bank - \hfe + \h3e) * 64 * KB + addr)
          BY <3>2, <4>1 DEF ResolveHiRom
        <4> HIDE DEF e
        <4> QED
          BY <4>3, <3>2
      <3>3. CASE ~ (bank \in (0..\h3f) \cup (\h80..\hbf) /\ addr >= 32 * KB)
                 /\ bank \notin \hfe..\hff
        <4>1. CASE bank \in (\h40..\h7d) \cup (\hc0..\hfd)
          <5>1. bank \notin (\h20..\h3f) \cup (\ha0..\hbf)
            BY <4>1, <1>0
          <5>2. e = Within(c, "rom", ((bank % 128) - 64) * 64 * KB + addr)
            BY <3>3, <4>1, <5>1 DEF ResolveHiRom
          <5> HIDE DEF e
          <5> QED
            BY <4>1, <5>2
        <4>2. CASE bank \notin (\h40..\h7d) \cup (\hc0..\hfd)
          <5>1. e = Within(c, "ram", addr % (8 * KB)) \/ e = STOP
            <6> DEFINE sram == bank \in (\h20..\h3f) \cup (\ha0..\hbf) /\ addr \in \h6000..\h7fff
            <6>1. CASE sram
              <7>1. /\ ~ (bank \in (0..\h3f) \cup (\h80..\hbf) /\ addr >= 32 * KB)
                    /\ bank \notin \hfe..\hff /\ bank \notin (\h40..\h7d) \cup (\hc0..\hfd)
                BY <3>3, <4>2
              <7>2. e = Within(c, "ram", addr % (8 * KB))
                BY <6>1, <7>1 DEF ResolveHiRom
              <7> QED
                BY <7>2
            <6>2. CASE ~ sram
              BY <3>3, <4>2, <6>2 DEF ResolveHiRom
            <6> QED
              BY <6>1, <6>2
          <5> HIDE DEF e
          <5> QED
            BY <5>1
        <4> QED
          BY <4>1, <4>2
      <3> QED
        BY <3>1, <3>2, <3>3
    <2> HIDE DEF e
    <2> QED
      BY <2>1
  <1> HIDE DEF e
  <1>2. CASE e = Within(c, "rom", (bank % 64) * 64 * KB + addr)
    BY <1>2, <1>b DEF e
  <1>3. CASE e = STOP \/ \E i : e = Within(c, "ram", i)
    BY <1>3, <1>a, StopIs DEF e
  <1>4. CASE bank \in (\h40..\h7d) \cup (\hc0..\hfd)
             /\ e = Within(c, "rom", ((bank % 128) - 64) * 64 * KB + addr)
    <2>1. (bank % 128) - 64 = bank % 64
      BY <1>4, <1>0
    <2> QED
      BY <2>1, <1>4, <1>b DEF e
  <1>5. CASE bank \in \hfe..\hff /\ e = Within(c, "rom", (bank - \hfe + \h3e) * 64 * KB + addr)
    <2>1. bank - \hfe + \h3e = bank % 64
      BY <1>5, <1>0
    <2> QED
      BY <2>1, <1>5, <1>b DEF e
  <1> QED
    BY <1>1, <1>2, <1>3, <1>4, <1>5

LEMMA RomWired ==
  ASSUME NEW bank \in BankNo, NEW addr \in AddrNo, cart.type \in Types,
         Memory(bank, addr).dev = "rom"
  PROVE  Memory(bank, addr).index = Wired(bank, addr)
  BY LoRomWired, HiRomWired DEF Memory, ResolveAddr, Wired, Types

\* The banks of the system area are in pairs, and in a pair the same is reached.
Opposite(bank) == (bank + 128) % 256

LEMMA OppositeIs ==
  ASSUME NEW bank \in BankNo, System(bank)
  PROVE  /\ Opposite(bank) \in BankNo /\ System(Opposite(bank))
         /\ Opposite(bank) % 128 = bank % 128 /\ Opposite(bank) % 64 = bank % 64
  <1>1. Opposite(bank) = IF bank < 128 THEN bank + 128 ELSE bank - 128
    BY DEF Opposite, BankNo
  <1> QED
    BY <1>1 DEF BankNo, System

LEMMA MemoryMirrored ==
  ASSUME NEW bank \in BankNo, NEW addr \in AddrNo, System(bank)
  PROVE  Memory(Opposite(bank), addr) = Memory(bank, addr)
  <1> DEFINE o == Opposite(bank)
  <1>0. /\ addr \in Int /\ 0 <= addr /\ addr <= 65535
        /\ o \in BankNo /\ System(o) /\ o % 128 = bank % 128 /\ o % 64 = bank % 64
    BY AddrIs, OppositeIs
  <1> HIDE DEF o
  <1>1. ASSUME NEW c, NEW b \in BankNo, System(b)
        PROVE  ResolveLoRom(c, b, addr) =
                 IF addr < 32 * KB THEN STOP
                 ELSE Within(c, "rom", (b % 128) * 32 * KB + addr - 32 * KB)
    <2>1. /\ b \notin \h70..\h7d /\ b \notin \hfe..\hff /\ b # \hfe /\ b # \hff
          /\ b \in (\h80..\hfd) \cup (0..\h7d)
      BY <1>1 DEF System, BankNo
    <2> QED
      BY <2>1 DEF ResolveLoRom
  <1>2. ASSUME NEW c, NEW b \in BankNo, System(b)
        PROVE  ResolveHiRom(c, b, addr) =
                 IF addr >= 32 * KB THEN Within(c, "rom", (b % 64) * 64 * KB + addr)
                 ELSE IF b % 64 >= 32 /\ addr \in \h6000..\h7fff
                 THEN Within(c, "ram", addr % (8 * KB)) ELSE STOP
    <2>1. /\ b \notin (\h40..\h7d) \cup (\hc0..\hfd) /\ b \notin \hfe..\hff
          /\ b \in (0..\h3f) \cup (\h80..\hbf)
          /\ b \in (\h20..\h3f) \cup (\ha0..\hbf) <=> b % 64 >= 32
      BY <1>2, BankModulo DEF System, BankNo
    <2>2. addr >= 32 * KB => addr \notin \h6000..\h7fff
      BY HighIsNoSram
    <2> QED
      BY <2>1, <2>2 DEF ResolveHiRom
  <1>3. ASSUME NEW c PROVE ResolveLoRom(c, o, addr) = ResolveLoRom(c, bank, addr)
    BY <1>0, <1>1
  <1>4. ASSUME NEW c PROVE ResolveHiRom(c, o, addr) = ResolveHiRom(c, bank, addr)
    BY <1>0, <1>2
  <1>5. Memory(o, addr) = Memory(bank, addr)
    BY <1>3, <1>4 DEF Memory, ResolveAddr
  <1> QED
    BY <1>5 DEF o

LEMMA CellsMirrored ==
  ASSUME NEW bank \in BankNo, NEW addr \in AddrNo, System(bank)
  PROVE  /\ LoadCell(Opposite(bank), addr) = LoadCell(bank, addr)
         /\ StoreCell(Opposite(bank), addr) = StoreCell(bank, addr)
  <1>1. /\ System(Opposite(bank)) /\ Memory(Opposite(bank), addr) = Memory(bank, addr)
    BY OppositeIs, MemoryMirrored
  <1>2. LoadCell(Opposite(bank), addr) = LoadCell(bank, addr)
    BY <1>1 DEF LoadCell
  <1>3. StoreCell(Opposite(bank), addr) = StoreCell(bank, addr)
    BY <1>1 DEF StoreCell
  <1> QED
    BY <1>2, <1>3

\* What the two mirrors take: the same, but for FastROM.
LEMMA WaitsMirrored ==
  ASSUME NEW bank \in BankNo, NEW addr \in AddrNo, System(bank)
  PROVE  Wait(bank, addr) = Wait(Opposite(bank), addr) \/ (memsel /\ addr >= \h8000)
  <1>a. ASSUME NEW b \in BankNo, System(b) PROVE ~ b >= \hc0
    BY <1>a DEF System, BankNo
  <1>0. /\ addr \in Int /\ 0 <= addr /\ addr <= 65535 /\ System(Opposite(bank))
        /\ ~ bank >= \hc0 /\ ~ Opposite(bank) >= \hc0
    BY <1>a, AddrIs, OppositeIs
  <1>1. CASE addr >= \h8000
    <2>1. ~(addr <= \h1fff \/ addr \in \h6000..\h7fff) /\ addr \notin \h4000..\h41ff
      BY <1>1, <1>0
    <2>2. ASSUME ~memsel, NEW b, System(b), ~ b >= \hc0 PROVE Wait(b, addr) = 2
      BY <1>1, <2>1, <2>2 DEF Wait
    <2> QED
      BY <2>2, <1>0, <1>1
  <1>2. CASE ~ addr >= \h8000
    BY <1>2, <1>0 DEF Wait
  <1> QED
    BY <1>1, <1>2

\* Memory below bank $80 takes two cycles more, whatever it is.
LEMMA MemoryWaits ==
  ASSUME NEW bank \in BankNo, NEW addr \in AddrNo, bank < 128,
         \/ LoadCell(bank, addr).dev \in Memories
         \/ StoreCell(bank, addr).dev \in Memories
  PROVE  Wait(bank, addr) = 2
  <1>0. /\ addr \in Int /\ 0 <= addr /\ addr <= 65535 /\ ~ bank >= \hc0 /\ ~ bank >= \h80
    BY AddrIs DEF BankNo
  <1>1. CASE ~System(bank)
    BY <1>0, <1>1 DEF Wait
  <1>2. CASE System(bank) /\ (addr <= \h1fff \/ addr \in \h6000..\h7fff)
    <2>1. ASSUME addr >= \h8000 PROVE FALSE
      BY <2>1, <1>2, <1>0
    <2>2. ASSUME addr \in \h4000..\h41ff PROVE FALSE
      BY <2>2, <1>2, <1>0
    <2> QED
      BY <2>1, <2>2, <1>2, <1>0 DEF Wait
  <1>3. CASE System(bank) /\ addr >= \h8000
    <2>1. ~(addr <= \h1fff \/ addr \in \h6000..\h7fff) /\ addr \notin \h4000..\h41ff
      BY <1>3, <1>0
    <2> QED
      BY <1>0, <1>3, <2>1 DEF Wait
  <1>4. CASE System(bank) /\ ~(addr <= \h1fff) /\ addr < \h6000
    <2>0. ~ addr >= \h8000 /\ ~ addr >= \h6000
      BY <1>4, <1>0
    <2>1. StoreCell(bank, addr).dev \notin Memories
      BY <1>4, <2>0, SystemBetween
    <2>2. \A a : Reg(a).dev = "reg" /\ DmaReg(a).dev \in {"reg", "stop"} /\ Open.dev = "open"
      BY DEF Reg, DmaReg, Open, STOP, Cell
    <2> DEFINE c == LoadCell(bank, addr)
    <2>3. \/ c = Reg(addr) \/ c = Reg(\h2140 + (addr % 4)) \/ c = Open \/ c = DmaReg(addr)
      BY <1>4, <2>0 DEF LoadCell
    <2> HIDE DEF c
    <2>4. c.dev \in {"reg", "open", "stop"}
      BY <2>2, <2>3
    <2> QED
      BY <2>1, <2>4 DEF Memories, c
  <1> QED
    BY <1>0, <1>1, <1>2, <1>3, <1>4

-----------------------------------------------------------------------------
(* Operands.                                                                *)

\* Where an access may go.
Spot(at) == at = Stopped \/ \E b \in BankNo, a \in AddrNo : at = At(b, a)
Long == 0..(256 * W16 - 1)
RegisterFile ==
  [d : AddrNo, x : AddrNo, y : AddrNo, s : AddrNo, pc : AddrNo, pbr : BankNo, dbr : BankNo]

LEMMA MemorySize == 256 * W16 \in Int /\ 256 * W16 = 16777216
  BY SMT DEF W16

LEMMA LongIs ==
  ASSUME NEW n
  PROVE  n \in Long <=> n \in Int /\ 0 <= n /\ n < 16777216
  <1>1. 256 * W16 - 1 \in Int
    BY MemorySize, SMT
  <1>2. n \in Long <=> n \in Int /\ 0 <= n /\ n <= 256 * W16 - 1
    BY <1>1, SMT DEF Long
  <1> QED
    BY <1>2, MemorySize, SMT

LEMMA AtIs ==
  ASSUME NEW b \in BankNo, NEW a \in AddrNo
  PROVE  /\ Spot(At(b, a)) /\ At(b, a) # Stopped
         /\ At(b, a).bank = b /\ At(b, a).addr = a /\ Linear(At(b, a)) = b * W16 + a
  <1>1. At(b, a).bank = b /\ At(b, a).addr = a
    BY DEF At
  <1>2. At(b, a) # Stopped
    <2>1. 0 <= b /\ ~ 0 <= Stopped.bank
      BY SMT DEF BankNo, Stopped
    <2> QED
      BY <1>1, <2>1, SMT
  <1>3. Linear(At(b, a)) = b * W16 + a
    BY <1>1 DEF Linear
  <1> QED
    BY <1>1, <1>2, <1>3 DEF Spot

LEMMA ModuloIs ==
  ASSUME NEW n \in Int
  PROVE  n % W16 \in AddrNo
  <1>1. W16 \in Nat \ {0} /\ AddrNo = 0..(W16 - 1)
    BY DEF AddrNo, W16
  <1> QED
    BY <1>1

LEMMA WordIs ==
  ASSUME NEW n \in Long
  PROVE  n \div W16 \in BankNo /\ n % W16 \in AddrNo /\ (n \div W16) * W16 + (n % W16) = n
  <1>1. n \in Int /\ 0 <= n /\ n < 16777216
    BY LongIs, SMT
  <1>2. n \div 65536 \in Int /\ 0 <= n \div 65536 /\ n \div 65536 <= 255
    BY <1>1, SMT
  <1>3. n % 65536 \in Int /\ 0 <= n % 65536 /\ n % 65536 <= 65535
    BY <1>1, SMT
  <1>4. (n \div 65536) * 65536 + (n % 65536) = n
    BY <1>1, SMT
  <1>5. n \div 65536 \in BankNo
    BY <1>2 DEF BankNo
  <1>6. n % W16 \in AddrNo
    BY <1>1, ModuloIs
  <1> QED
    BY <1>4, <1>5, <1>6, SMT DEF W16

LEMMA FromLinearIs ==
  ASSUME NEW l \in Nat
  PROVE  /\ Spot(FromLinear(l))
         /\ FromLinear(l) # Stopped => Linear(FromLinear(l)) = l
  <1>1. CASE l >= 256 * W16
    BY <1>1 DEF FromLinear, Spot
  <1>2. CASE ~ l >= 256 * W16
    <2>1. l \in Long
      BY <1>2, LongIs, MemorySize, SMT
    <2>2. FromLinear(l) = At(l \div W16, l % W16)
      BY <1>2 DEF FromLinear
    <2> QED
      BY <2>1, <2>2, WordIs, AtIs
  <1> QED
    BY <1>1, <1>2

LEMMA IndexedIs ==
  ASSUME NEW b \in BankNo, NEW a \in AddrNo, NEW i \in AddrNo
  PROVE  /\ Spot(Indexed(At(b, a), i))
         /\ Indexed(At(b, a), i) # Stopped =>
              Linear(Indexed(At(b, a), i)) = b * W16 + a + i
  <1>1. Indexed(At(b, a), i) = FromLinear(b * W16 + a + i)
    BY AtIs DEF Indexed
  <1>2. b * W16 + a + i \in Nat
    <2>1. /\ b \in Int /\ 0 <= b /\ a \in Int /\ 0 <= a /\ i \in Int /\ 0 <= i
      BY DEF BankNo, AddrNo
    <2>2. b * 65536 \in Int /\ 0 <= b * 65536
      BY <2>1
    <2> QED
      BY <2>1, <2>2 DEF W16
  <1> HIDE DEF Indexed
  <1> QED
    BY <1>1, <1>2, FromLinearIs

LEMMA PlainIs ==
  ASSUME NEW c, NEW b \in BankNo, NEW sum \in Int
  PROVE  /\ Spot(Plain(c, b, sum))
         /\ Plain(c, b, sum) # Stopped => Plain(c, b, sum).bank = b
  BY ModuloIs, AtIs DEF Plain, Spot

\* The place an operand names, mode by mode: a spot, and in its bank.
LEMMA ArithmeticIs ==
  ASSUME NEW r \in RegisterFile, NEW v \in Long
  PROVE  /\ v % W16 \in AddrNo /\ r.dbr \in BankNo /\ r.pbr \in BankNo /\ 0 \in BankNo
         /\ r.x \in AddrNo /\ r.y \in AddrNo
         /\ (v % W16) + r.x \in Int /\ (v % W16) + r.y \in Int
         /\ r.pc + Signed(v % 256, 8) \in Int /\ r.pc + Signed(v % W16, 16) \in Int
         /\ Direct(r, v % 256) \in AddrNo
         /\ (Direct(r, v % 256) + r.x) % W16 \in AddrNo
         /\ (Direct(r, v % 256) + r.y) % W16 \in AddrNo
         /\ r.s + (v % 256) \in Int
  <1>1. /\ r.d \in AddrNo /\ r.x \in AddrNo /\ r.y \in AddrNo /\ r.s \in AddrNo
        /\ r.pc \in AddrNo /\ r.pbr \in BankNo /\ r.dbr \in BankNo
    BY DEF RegisterFile
  <1>2. v % W16 \in AddrNo /\ v % 256 \in Int /\ v % W16 \in Int /\ 0 \in BankNo
    <2>1. v \in Int
      BY DEF Long
    <2>2. v % 256 \in Int /\ 0 \in BankNo
      BY <2>1 DEF BankNo
    <2>3. v % W16 \in AddrNo /\ v % W16 \in Int
      BY <2>1, ModuloIs DEF AddrNo
    <2> QED
      BY <2>2, <2>3
  <1>3. \A a \in AddrNo : a \in Int
    BY DEF AddrNo
  <1>4. ASSUME NEW n \in Int PROVE Signed(n, 8) \in Int /\ Signed(n, 16) \in Int
    BY DEF Signed
  <1>5. Direct(r, v % 256) \in AddrNo
    BY <1>1, <1>2, <1>3, ModuloIs DEF Direct
  <1>6. /\ r.pc + Signed(v % 256, 8) \in Int /\ r.pc + Signed(v % W16, 16) \in Int
    BY <1>1, <1>2, <1>3, <1>4
  <1>7. \A a \in AddrNo, b \in AddrNo : a + b \in Int /\ (a + b) % W16 \in AddrNo
    BY <1>3, ModuloIs
  <1>8. r.s + (v % 256) \in Int
    BY <1>1, <1>2, <1>3
  <1> QED
    BY <1>1, <1>2, <1>5, <1>6, <1>7, <1>8

\* The condition OperandsInPlace names, of an operand and where it is.
InPlace(mode, r, v, ptr, at) ==
  at # Stopped =>
    /\ at.bank \in BankOf(mode, r)
    /\ mode = "(d),y" => Linear(at) - (r.dbr * W16 + (ptr % W16)) = r.y
    /\ mode = "[d],y" => Linear(at) - ptr = r.y
    /\ mode = "long,x" => Linear(at) - v = r.x

LEMMA EffectiveIs ==
  ASSUME NEW c, NEW mode \in Modes, NEW r \in RegisterFile, NEW v \in Long, NEW ptr \in Long
  PROVE  /\ Spot(Effective(c, mode, r, v, ptr))
         /\ InPlace(mode, r, v, ptr, Effective(c, mode, r, v, ptr))
  <1> DEFINE at == Effective(c, mode, r, v, ptr)
             word == At(r.dbr, ptr % W16)
             long == At(ptr \div W16, ptr % W16)
  <1>0. /\ v % W16 \in AddrNo /\ r.dbr \in BankNo /\ r.pbr \in BankNo /\ 0 \in BankNo
        /\ r.x \in AddrNo /\ r.y \in AddrNo
        /\ (v % W16) + r.x \in Int /\ (v % W16) + r.y \in Int
        /\ r.pc + Signed(v % 256, 8) \in Int /\ r.pc + Signed(v % W16, 16) \in Int
        /\ Direct(r, v % 256) \in AddrNo
        /\ (Direct(r, v % 256) + r.x) % W16 \in AddrNo
        /\ (Direct(r, v % 256) + r.y) % W16 \in AddrNo
        /\ r.s + (v % 256) \in Int
    BY ArithmeticIs
  <1>p. ptr % W16 \in AddrNo /\ ptr \div W16 \in BankNo
        /\ (ptr \div W16) * W16 + (ptr % W16) = ptr /\ ptr \in Int
    BY WordIs DEF Long
  <1>v. v \div W16 \in BankNo /\ (v \div W16) * W16 + (v % W16) = v /\ v \in Nat
    BY WordIs DEF Long
  <1>s. Spot(Stopped) /\ \A m : InPlace(m, r, v, ptr, Stopped)
    BY DEF Spot, InPlace
  <1> HIDE DEF at
  <1> SUFFICES Spot(at) /\ InPlace(mode, r, v, ptr, at)
    BY DEF at
  \* In one bank, at a place of it.
  <1>in. ASSUME NEW b \in BankNo, at = Stopped \/ (Spot(at) /\ at.bank = b),
                b \in BankOf(mode, r), mode \notin {"(d),y", "[d],y", "long,x"}
         PROVE  Spot(at) /\ InPlace(mode, r, v, ptr, at)
    BY <1>in, <1>s DEF InPlace
  <1>a. ASSUME NEW b \in BankNo, NEW a \in AddrNo, at = At(b, a) \/ at = Stopped
        PROVE  at = Stopped \/ (Spot(at) /\ at.bank = b)
    BY <1>a, AtIs
  <1>b. Spot(at) /\ at # Stopped => at.bank \in 0..255
    BY AtIs DEF Spot, BankNo
  <1>1. CASE mode = "abs"
    <2>1. at = At(r.dbr, v % W16)
      BY <1>1 DEF at, Effective
    <2> QED
      BY <2>1, <1>1, <1>0, <1>a, <1>in DEF BankOf
  <1>2. CASE mode = "long"
    <2>1. at = FromLinear(v)
      BY <1>2 DEF at, Effective
    <2> QED
      BY <2>1, <1>2, <1>v, <1>b, FromLinearIs DEF BankOf, InPlace
  <1>3. CASE mode = "long,x"
    <2>1. at = Indexed(FromLinear(v), r.x)
      BY <1>3 DEF at, Effective
    <2>2. FromLinear(v) = At(v \div W16, v % W16)
      <3>1. ~ v >= 256 * W16
        BY LongIs, MemorySize, SMT
      <3> QED
        BY <3>1 DEF FromLinear
    <2>3. Spot(at) /\ (at # Stopped => Linear(at) = v + r.x)
      BY <2>1, <2>2, <1>v, <1>0, IndexedIs
    <2>4. at # Stopped => at.bank \in BankNo
      BY <2>3, AtIs DEF Spot
    <2> HIDE DEF at
    <2>5. at # Stopped => Linear(at) - v = r.x
      BY <2>3, <1>v, <1>0 DEF AddrNo
    <2> QED
      BY <2>3, <2>4, <2>5, <1>3 DEF BankOf, InPlace, BankNo
  <1>4. CASE mode = "abs,x"
    <2>1. at = Plain(c, r.dbr, (v % W16) + r.x)
      BY <1>4 DEF at, Effective
    <2> QED
      BY <2>1, <1>4, <1>0, PlainIs, <1>in DEF BankOf
  <1>5. CASE mode = "abs,y"
    <2>1. at = Plain(c, r.dbr, (v % W16) + r.y)
      BY <1>5 DEF at, Effective
    <2> QED
      BY <2>1, <1>5, <1>0, PlainIs, <1>in DEF BankOf
  <1>6. CASE mode \in {"(abs,x)", "(abs)"}
    <2>1. at = At(r.pbr, ptr % W16) \/ at = Stopped
      BY <1>6 DEF at, Effective
    <2> QED
      BY <2>1, <1>6, <1>0, <1>p, <1>a, <1>in DEF BankOf
  <1>7. CASE mode = "[abs]" \/ mode = "[d]"
    <2>1. at = long \/ at = Stopped
      BY <1>7 DEF at, Effective
    <2> QED
      BY <2>1, <1>7, <1>p, <1>a, <1>in DEF BankOf, BankNo
  <1>8. CASE mode = "rel"
    <2>1. at = At(r.pbr, (r.pc + Signed(v % 256, 8)) % W16)
      BY <1>8 DEF at, Effective
    <2> QED
      BY <2>1, <1>8, <1>0, ModuloIs, <1>a, <1>in DEF BankOf
  <1>9. CASE mode = "rell"
    <2>1. at = At(r.pbr, (r.pc + Signed(v % W16, 16)) % W16)
      BY <1>9 DEF at, Effective
    <2> QED
      BY <2>1, <1>9, <1>0, ModuloIs, <1>a, <1>in DEF BankOf
  <1>10. CASE mode = "d"
    <2>1. at = At(0, Direct(r, v % 256))
      BY <1>10 DEF at, Effective
    <2> QED
      BY <2>1, <1>10, <1>0, <1>a, <1>in DEF BankOf
  <1>11. CASE mode = "d,x"
    <2>1. at = At(0, (Direct(r, v % 256) + r.x) % W16)
      BY <1>11 DEF at, Effective
    <2> QED
      BY <2>1, <1>11, <1>0, <1>a, <1>in DEF BankOf
  <1>12. CASE mode = "d,y"
    <2>1. at = At(0, (Direct(r, v % 256) + r.y) % W16)
      BY <1>12 DEF at, Effective
    <2> QED
      BY <2>1, <1>12, <1>0, <1>a, <1>in DEF BankOf
  <1>13. CASE mode = "(d,x)" \/ mode = "(d)"
    <2>1. at = word \/ at = Stopped
      BY <1>13 DEF at, Effective
    <2> QED
      BY <2>1, <1>13, <1>0, <1>p, <1>a, <1>in DEF BankOf
  <1>14. CASE mode = "(d),y"
    <2>1. at = Indexed(word, r.y) \/ at = Stopped
      BY <1>14 DEF at, Effective
    <2>3. Spot(at) /\ (at # Stopped => Linear(at) = r.dbr * W16 + (ptr % W16) + r.y)
      BY <2>1, <1>p, <1>0, IndexedIs, <1>s
    <2>4. at # Stopped => at.bank \in BankNo
      BY <2>3, AtIs DEF Spot
    <2>5. at # Stopped => Linear(at) - (r.dbr * W16 + (ptr % W16)) = r.y
      <3>0. r.dbr \in Int /\ W16 \in Int /\ ptr % W16 \in Int /\ r.y \in Int
        <4>1. W16 \in Int
          BY DEF W16
        <4> QED
          BY <1>0, <1>p, <4>1 DEF AddrNo, BankNo
      <3>1. r.dbr * W16 \in Int /\ ptr % W16 \in Int /\ r.y \in Int
        BY <3>0
      <3> QED
        BY <2>3, <3>1
    <2> QED
      BY <2>3, <2>4, <2>5, <1>14 DEF BankOf, InPlace, BankNo
  <1>15. CASE mode = "[d],y"
    <2>1. at = Indexed(long, r.y) \/ at = Stopped
      BY <1>15 DEF at, Effective
    <2>3. Spot(at) /\ (at # Stopped => Linear(at) = ptr + r.y)
      BY <2>1, <1>p, <1>0, IndexedIs, <1>s
    <2>4. at # Stopped => at.bank \in BankNo
      BY <2>3, AtIs DEF Spot
    <2>5. at # Stopped => Linear(at) - ptr = r.y
      BY <2>3, <1>p, <1>0 DEF AddrNo
    <2> QED
      BY <2>3, <2>4, <2>5, <1>15 DEF BankOf, InPlace, BankNo
  <1>16. CASE mode = "d,s"
    <2>1. at = Plain(c, 0, r.s + (v % 256))
      BY <1>16 DEF at, Effective
    <2> QED
      BY <2>1, <1>16, <1>0, PlainIs, <1>in DEF BankOf
  <1> QED
    BY <1>1, <1>2, <1>3, <1>4, <1>5, <1>6, <1>7, <1>8, <1>9, <1>10, <1>11, <1>12, <1>13, <1>14,
       <1>15, <1>16 DEF Modes

-----------------------------------------------------------------------------
(* Accesses, and what a record of one keeps.                                *)

LEMMA SpotIs ==
  ASSUME NEW at, Spot(at), at # Stopped
  PROVE  at.bank \in BankNo /\ at.addr \in AddrNo /\ at = At(at.bank, at.addr)
  BY AtIs DEF Spot

LEMMA SecondIs ==
  ASSUME NEW op \in Ops, NEW at, Spot(at), at # Stopped
  PROVE  Spot(Second(op, at))
  <1> DEFINE b == at.bank
             a == at.addr
  <1>0. b \in BankNo /\ a \in AddrNo
    BY SpotIs
  <1>1. CASE a < W16 - 1
    <2>1. a + 1 \in AddrNo
      <3>1. W16 \in Int /\ a \in Int /\ 0 <= a
        BY <1>0, AddrIs DEF W16
      <3>2. a + 1 \in 0..(W16 - 1)
        BY <3>1, <1>1
      <3> QED
        BY <3>2 DEF AddrNo
    <2> QED
      BY <1>0, <1>1, <2>1, AtIs DEF Second
  <1>2. CASE ~ a < W16 - 1
    <2>1. (b + 1) % 256 \in BankNo /\ 0 \in AddrNo
      <3>1. b \in Int /\ 0 \in AddrNo
        <4>1. b \in Int
          BY <1>0 DEF BankNo
        <4>2. 0 \in AddrNo
          BY DEF AddrNo, W16
        <4> QED
          BY <4>1, <4>2
      <3> HIDE DEF b
      <3>2. (b + 1) % 256 \in 0..255
        BY <3>1
      <3> QED
        BY <3>1, <3>2 DEF BankNo
    <2>2. Second(op, at) = Stopped \/ Second(op, at) = At((b + 1) % 256, 0)
      BY <1>2 DEF Second
    <2> HIDE DEF b
    <2> QED
      BY <2>1, <2>2, AtIs DEF Spot
  <1> QED
    BY <1>1, <1>2

\* What an access records.
LEMMA AccessIs ==
  ASSUME NEW op \in Ops, NEW at, Spot(at)
  PROVE  /\ Access(op, at).op = op /\ Access(op, at).at = at
         /\ Access(op, at).places = Places(op, at)
         /\ DOMAIN Access(op, at).cells = DOMAIN Places(op, at)
         /\ \A k \in DOMAIN Places(op, at) :
              /\ Spot(Places(op, at)[k])
              /\ Access(op, at).cells[k] = CellOf(op, Places(op, at)[k])
              /\ Access(op, at).waits[k] = Waits(Places(op, at)[k])
  <1>1. Spot(Stopped)
    BY DEF Spot
  <1>2. ASSUME NEW k \in DOMAIN Places(op, at) PROVE Spot(Places(op, at)[k])
    <2>1. CASE at # Stopped /\ op \in {"loadw", "storew"}
      <3>1. CASE op = "loadw" /\ Second(op, at) = Stopped
        <4>1. Places(op, at) = <<Stopped>>
          BY <2>1, <3>1 DEF Places
        <4> QED
          BY <4>1, <1>1, <1>2
      <3>2. CASE ~(op = "loadw" /\ Second(op, at) = Stopped)
        <4>1. Places(op, at) = <<at, Second(op, at)>>
          BY <2>1, <3>2 DEF Places
        <4>2. Spot(Second(op, at))
          BY <2>1, SecondIs
        <4> QED
          BY <4>1, <4>2, <1>2
      <3> QED
        BY <3>1, <3>2
    <2>2. CASE ~(at # Stopped /\ op \in {"loadw", "storew"})
      <3>1. Places(op, at) = <<at>>
        BY <2>2 DEF Places
      <3> QED
        BY <3>1, <1>2
    <2> QED
      BY <2>1, <2>2
  <1>3. /\ Access(op, at).op = op /\ Access(op, at).at = at
        /\ Access(op, at).places = Places(op, at)
        /\ Access(op, at).cells = [k \in DOMAIN Places(op, at) |-> CellOf(op, Places(op, at)[k])]
        /\ Access(op, at).waits = [k \in DOMAIN Places(op, at) |-> Waits(Places(op, at)[k])]
    BY DEF Access
  <1> QED
    BY <1>2, <1>3

LEMMA AccessIsOne ==
  ASSUME NEW op \in Ops, NEW at
  PROVE  Access(op, at) # None
  <1>1. Access(op, at).op = op /\ None.op = "none"
    BY DEF Access, None
  <1>2. op # "none"
    BY DEF Ops
  <1> QED
    BY <1>1, <1>2

-----------------------------------------------------------------------------
HeaderSet == [checked : BOOLEAN, ascii : BOOLEAN, mode : Nat, rom : Nat, ram : Nat]

\* An access stands until it is the program's turn again, with the cartridge
\* and the speed it was made with.
Recorded ==
  last # None =>
    /\ cart.type \in Types /\ image = NoImage
    /\ \E op, at : op \in Ops /\ Spot(at) /\ last = Access(op, at)

Named ==
  operand # NoOperand =>
    /\ last # None
    /\ \E mode \in Modes, r \in RegisterFile, v \in Long, ptr \in Long :
         /\ operand = [mode |-> mode, r |-> r, v |-> v, ptr |-> ptr]
         /\ last.at = Effective(checks, mode, r, v, ptr)

Inserted ==
  image # NoImage =>
    \E lo \in HeaderSet, hi \in HeaderSet, raw \in Nat :
      image = [lo |-> lo, hi |-> hi, raw |-> raw] /\ cart = Insert(lo, hi, raw)

BusInv == Recorded /\ Named /\ Inserted

LEMMA InputsAre ==
  /\ Headers \subseteq HeaderSet /\ Lengths \subseteq Nat /\ BankSet \subseteq BankNo
  /\ Addrs \subseteq AddrNo /\ Registers \subseteq RegisterFile
  /\ Operands \subseteq Long /\ Pointers \subseteq Long
  BY BusAssumption DEF HeaderSet, BankNo, AddrNo, RegisterFile, Long

\* What an address reaches changes only with these.
LEMMA AccessStays ==
  ASSUME checks' = checks, cart' = cart, memsel' = memsel
  PROVE  \A op, at : Access(op, at)' = Access(op, at)
  <1>1. \A b, a : Memory(b, a)' = Memory(b, a)
    BY DEF Memory
  <1>2. \A b, a : LoadCell(b, a)' = LoadCell(b, a)
    BY <1>1 DEF LoadCell
  <1>3. \A b, a : StoreCell(b, a)' = StoreCell(b, a)
    BY <1>1 DEF StoreCell
  <1>4. \A b, a : Wait(b, a)' = Wait(b, a)
    BY DEF Wait
  <1>5. \A op, at : Second(op, at)' = Second(op, at)
    BY DEF Second
  <1>6. \A op, at : CellOf(op, at)' = CellOf(op, at)
    BY <1>2, <1>3 DEF CellOf
  <1>7. \A op, at : Places(op, at)' = Places(op, at)
    BY <1>5 DEF Places
  <1>8. \A at : Waits(at)' = Waits(at)
    BY <1>4 DEF Waits
  <1> QED
    BY <1>6, <1>7, <1>8 DEF Access

LEMMA BusInvHolds == BusSpec => []BusInv
  <1>1. BusInit => BusInv
    BY DEF BusInit, BusInv, Recorded, Named, Inserted
  <1>2. BusInv /\ [BusNext]_busVars => BusInv'
    <2> SUFFICES ASSUME BusInv, [BusNext]_busVars PROVE BusInv'
      OBVIOUS
    <2>1. ASSUME NEW lo \in Headers, NEW hi \in Headers, NEW raw \in Lengths, cart = NoCart,
                 InsertImage(lo, hi, raw)
          PROVE  BusInv'
      <3>1. last = None
        <4>1. cart.type \notin Types
          BY <2>1 DEF NoCart, Types
        <4> QED
          BY <4>1 DEF BusInv, Recorded
      <3>2. Recorded' /\ Named'
        BY <2>1, <3>1 DEF InsertImage, BusInv, Recorded, Named
      <3>3. Inserted'
        BY <2>1, InputsAre DEF InsertImage, Inserted
      <3> QED
        BY <3>2, <3>3 DEF BusInv
    <2>2. CASE PowerOn
      <3>1. last = None
        BY <2>2 DEF PowerOn, BusInv, Recorded
      <3> QED
        BY <2>2, <3>1 DEF PowerOn, BusInv, Recorded, Named, Inserted
    <2>3. ASSUME NEW fast \in BOOLEAN, SetMemsel(fast) PROVE BusInv'
      BY <2>3 DEF SetMemsel, Ready, BusInv, Recorded, Named, Inserted
    <2>4. ASSUME NEW op \in Ops, NEW bank \in BankSet, NEW addr \in Addrs, Ready,
                 AccessAt(op, bank, addr)
          PROVE  BusInv'
      <3>1. Spot(At(bank, addr))
        BY InputsAre, AtIs
      <3>2. Recorded'
        <4>1. \A o, at : Access(o, at)' = Access(o, at)
          BY <2>4, AccessStays DEF AccessAt
        <4>2. last' = Access(op, At(bank, addr))'
          BY <2>4, <4>1 DEF AccessAt
        <4>3. cart.type \in Types /\ image = NoImage /\ cart' = cart /\ image' = image
          BY <2>4 DEF AccessAt, Ready
        <4> QED
          BY <3>1, <4>2, <4>3 DEF Recorded
      <3>3. Named' /\ Inserted'
        BY <2>4 DEF AccessAt, Ready, Named, Inserted
      <3> QED
        BY <3>2, <3>3 DEF BusInv
    <2>5. ASSUME NEW op \in Ops, NEW mode \in Modes, NEW r \in Registers, NEW v \in Operands,
                 NEW ptr \in Pointers, Ready, AccessOperand(op, mode, r, v, ptr)
          PROVE  BusInv'
      <3> DEFINE to == Effective(checks, mode, r, v, ptr)
      <3>0. r \in RegisterFile /\ v \in Long /\ ptr \in Long
        BY InputsAre
      <3>1. PICK at : Spot(at) /\ at = to
        BY <3>0, EffectiveIs
      <3>2. last' = Access(op, at) /\ last' = Access(op, at)'
        BY <2>5, <3>1, AccessStays DEF AccessOperand
      <3>3. Recorded'
        <4>1. cart.type \in Types /\ image = NoImage /\ cart' = cart /\ image' = image
          BY <2>5 DEF AccessOperand, Ready
        <4> QED
          BY <3>1, <3>2, <4>1 DEF Recorded
      <3>4. Named'
        <4>1. last'.at = to /\ last' # None
          <5>1. Access(op, at).at = at /\ Access(op, at) # None
            BY <3>1, AccessIs, AccessIsOne
          <5>2. last' = Access(op, at) /\ at = to
            BY <3>1, <3>2
          <5> HIDE DEF to
          <5> QED
            BY <5>1, <5>2
        <4>2. operand' = [mode |-> mode, r |-> r, v |-> v, ptr |-> ptr] /\ checks' = checks
          BY <2>5 DEF AccessOperand
        <4> QED
          BY <4>1, <4>2, <3>0 DEF Named
      <3>5. Inserted'
        BY <2>5 DEF AccessOperand, Ready, Inserted
      <3> QED
        BY <3>3, <3>4, <3>5 DEF BusInv
    <2>6. CASE Continue
      BY <2>6 DEF Continue, BusInv, Recorded, Named, Inserted
    <2>7. CASE UNCHANGED busVars
      <3>1. /\ checks' = checks /\ image' = image /\ cart' = cart /\ last' = last
            /\ operand' = operand
            /\ \A o, at : Access(o, at)' = Access(o, at)
        BY <2>7, AccessStays DEF busVars
      <3> QED
        BY <3>1 DEF BusInv, Recorded, Named, Inserted
    <2> QED
      BY <2>1, <2>2, <2>3, <2>4, <2>5, <2>6, <2>7 DEF BusNext, Insertion, Accesses
  <1> QED
    BY <1>1, <1>2, PTL DEF BusSpec

-----------------------------------------------------------------------------
(* What every access keeps.                                                 *)

\* OperandsInPlace: whatever the registers hold, an operand of the direct page,
\* of the stack and of a jump stays in the bank its mode says, and an index
\* added to a long address or a pointer counts to the byte (Effective).
THEOREM OperandsAreInPlace == BusSpec => []OperandsInPlace
  <1>1. BusInv => OperandsInPlace
    <2> SUFFICES ASSUME BusInv, operand # NoOperand, last.at # Stopped
                 PROVE  /\ last.at.bank \in BankOf(operand.mode, operand.r)
                        /\ InPlace(operand.mode, operand.r, operand.v, operand.ptr, last.at)
      BY DEF OperandsInPlace, InPlace
    <2>1. PICK mode \in Modes, r \in RegisterFile, v \in Long, ptr \in Long :
            /\ operand = [mode |-> mode, r |-> r, v |-> v, ptr |-> ptr]
            /\ last.at = Effective(checks, mode, r, v, ptr)
      BY DEF BusInv, Named
    <2>2. InPlace(mode, r, v, ptr, last.at)
      BY <2>1, EffectiveIs
    <2>3. operand.mode = mode /\ operand.r = r /\ operand.v = v /\ operand.ptr = ptr
      BY <2>1
    <2> QED
      BY <2>2, <2>3 DEF InPlace
  <1> QED
    BY <1>1, BusInvHolds, PTL

\* Whatever device it is, what is in memory is found by a load.
LEMMA StopIsNoMemory == STOP.dev \notin Memories
  BY DEF STOP, Memories

\* StoresAreFound: a load from where a store left a byte in memory reaches that
\* byte, though load and store decode addresses in code of their own; and so
\* does the load of a word, if it is not fatal.
THEOREM StoredIsLoaded == BusSpec => []StoresAreFound
  <1>1. BusInv => StoresAreFound
    <2> SUFFICES ASSUME BusInv, last # None, last.op \in {"storeb", "storew"}
                 PROVE  /\ \A k \in DOMAIN last.cells :
                             last.cells[k].dev \in Memories =>
                               LoadCell(last.places[k].bank, last.places[k].addr) = last.cells[k]
                        /\ last.op = "storew" =>
                             LET again == Access("loadw", last.at)
                             IN  \/ STOP \in {again.cells[k] : k \in DOMAIN again.cells}
                                 \/ \A k \in DOMAIN last.cells : last.cells[k].dev \in Memories =>
                                      again.cells[k] = last.cells[k]
      BY DEF StoresAreFound
    <2>1. PICK op, at : op \in Ops /\ Spot(at) /\ last = Access(op, at)
      BY DEF BusInv, Recorded
    <2> DEFINE to == Places(op, at)
    <2>2. /\ last.op = op /\ last.at = at /\ last.places = to /\ DOMAIN last.cells = DOMAIN to
          /\ \A k \in DOMAIN to : Spot(to[k]) /\ last.cells[k] = CellOf(op, to[k])
      BY <2>1, AccessIs
    <2> HIDE DEF to
    <2>3. op \in {"storeb", "storew"}
      BY <2>2
    <2>4. ASSUME NEW k \in DOMAIN to, last.cells[k].dev \in Memories
          PROVE  /\ to[k] # Stopped
                 /\ LoadCell(to[k].bank, to[k].addr) = last.cells[k]
      <3>1. to[k] # Stopped
        BY <2>2, <2>4, StopIsNoMemory DEF CellOf
      <3>2. to[k].bank \in BankNo /\ to[k].addr \in AddrNo
        BY <2>2, <3>1, SpotIs
      <3>3. last.cells[k] = StoreCell(to[k].bank, to[k].addr)
        BY <2>2, <2>3, <3>1 DEF CellOf
      <3> QED
        BY <2>4, <3>1, <3>2, <3>3, MemoryFound
    <2>5. ASSUME last.op = "storew"
          PROVE  \/ STOP \in {Access("loadw", at).cells[k] : k \in DOMAIN Access("loadw", at).cells}
                 \/ \A k \in DOMAIN last.cells : last.cells[k].dev \in Memories =>
                      Access("loadw", at).cells[k] = last.cells[k]
      <3> DEFINE q == Places("loadw", at)
                 again == Access("loadw", at)
      <3>1. /\ DOMAIN again.cells = DOMAIN q
            /\ \A k \in DOMAIN q : again.cells[k] = CellOf("loadw", q[k])
        BY <2>1, AccessIs DEF Ops
      <3>2. CASE q = <<Stopped>>
        <4>1. 1 \in DOMAIN q /\ q[1] = Stopped
          BY <3>2
        <4> HIDE DEF q
        <4>2. 1 \in DOMAIN again.cells /\ again.cells[1] = STOP
          BY <3>1, <4>1 DEF CellOf
        <4> QED
          BY <4>2
      <3>3. CASE q # <<Stopped>>
        <4>1. at # Stopped /\ q = <<at, Second("loadw", at)>> /\ Second("loadw", at) # Stopped
          BY <3>3 DEF Places
        <4>2. Second("loadw", at) = Second("storew", at)
          BY <4>1 DEF Second
        <4>3. to = q
          <5>1. to = <<at, Second("storew", at)>>
            BY <2>2, <2>5, <4>1 DEF to, Places
          <5> QED
            BY <4>1, <4>2, <5>1
        <4> HIDE DEF q
        <4>4. ASSUME NEW k \in DOMAIN to, last.cells[k].dev \in Memories
              PROVE  again.cells[k] = last.cells[k]
          <5>1. again.cells[k] = LoadCell(to[k].bank, to[k].addr)
            BY <3>1, <4>3, <2>4, <4>4 DEF CellOf
          <5> QED
            BY <5>1, <2>4, <4>4
        <4> HIDE DEF again
        <4> QED
          BY <2>2, <4>4 DEF again
      <3> QED
        BY <3>2, <3>3
    <2> QED
      BY <2>2, <2>4, <2>5
  <1> QED
    BY <1>1, BusInvHolds, PTL

\* A cell of ROM, however an access got there.
LEMMA CellWired ==
  ASSUME NEW bank \in BankNo, NEW addr \in AddrNo, cart.type \in Types
  PROVE  /\ LoadCell(bank, addr).dev = "rom" => LoadCell(bank, addr).index = Wired(bank, addr)
         /\ StoreCell(bank, addr).dev = "rom" => StoreCell(bank, addr).index = Wired(bank, addr)
  <1>1. /\ \A a : Wram(a).dev = "wram" /\ Reg(a).dev = "reg" /\ DmaReg(a).dev \in {"reg", "stop"}
        /\ Open.dev = "open" /\ STOP.dev = "stop"
    BY DEF Wram, Reg, DmaReg, Open, STOP, Cell
  <1>2. LoadCell(bank, addr).dev = "rom" => LoadCell(bank, addr) = Memory(bank, addr)
    <2> DEFINE c == LoadCell(bank, addr)
    <2>1. \/ c = Memory(bank, addr) \/ c = Wram(addr) \/ c = Wram((bank - \h7e) * W16 + addr)
          \/ c = Reg(addr) \/ c = Reg(\h2140 + (addr % 4)) \/ c = Open \/ c = DmaReg(addr)
      BY DEF LoadCell
    <2> HIDE DEF c
    <2>2. c.dev = "rom" => c = Memory(bank, addr)
      BY <1>1, <2>1
    <2> QED
      BY <2>2 DEF c
  <1>3. StoreCell(bank, addr).dev = "rom" => StoreCell(bank, addr) = Memory(bank, addr)
    <2> DEFINE c == StoreCell(bank, addr)
    <2>1. \/ c = Memory(bank, addr) \/ c = Wram(addr) \/ c = Wram((bank - \h7e) * W16 + addr)
          \/ c = Reg(addr) \/ c = Reg(\h2140 + (addr % 4)) \/ c = Open \/ c = DmaReg(addr)
          \/ c = STOP
      BY DEF StoreCell
    <2> HIDE DEF c
    <2>2. c.dev = "rom" => c = Memory(bank, addr)
      BY <1>1, <2>1
    <2> QED
      BY <2>2 DEF c
  <1> QED
    BY <1>2, <1>3, RomWired

\* MirrorsAgree: all accesses to ROM reach the byte the board wires to their
\* address, in any bank; the banks of the system area are pairs that reach the
\* same; and the mirrors take the same time, but for FastROM's.
THEOREM MirrorsAreTheSame == BusSpec => []MirrorsAgree
  <1>1. BusInv => MirrorsAgree
    <2> SUFFICES ASSUME BusInv, last # None
                 PROVE  MirrorsAgree
      BY DEF MirrorsAgree
    <2>1. PICK op, at : op \in Ops /\ Spot(at) /\ last = Access(op, at) /\ cart.type \in Types
      BY DEF BusInv, Recorded
    <2> DEFINE to == Places(op, at)
    <2>2. /\ last.op = op /\ last.places = to /\ DOMAIN last.cells = DOMAIN to
          /\ \A k \in DOMAIN to : /\ Spot(to[k]) /\ last.cells[k] = CellOf(op, to[k])
                                 /\ last.waits[k] = Waits(to[k])
      BY <2>1, AccessIs
    <2> HIDE DEF to
    <2>3. ASSUME NEW k \in DOMAIN to, to[k] # Stopped
          PROVE  /\ to[k].bank \in BankNo /\ to[k].addr \in AddrNo
                 /\ last.waits[k] = Wait(to[k].bank, to[k].addr)
                 /\ last.cells[k] = IF op \in {"loadb", "loadw"} THEN LoadCell(to[k].bank, to[k].addr)
                                    ELSE StoreCell(to[k].bank, to[k].addr)
      BY <2>2, <2>3, SpotIs DEF Waits, CellOf
    <2>4. ASSUME NEW k \in DOMAIN to, last.cells[k].dev \in {"rom", "ram", "wram"}
          PROVE  to[k] # Stopped
      BY <2>2, <2>4 DEF CellOf, STOP
    <2>5. ASSUME NEW k \in DOMAIN to, last.cells[k].dev = "rom"
          PROVE  last.cells[k].index = Wired(to[k].bank, to[k].addr)
      BY <2>1, <2>3, <2>4, <2>5, CellWired
    <2>6. ASSUME NEW k \in DOMAIN to, to[k] # Stopped, System(to[k].bank)
          PROVE  LET mirror == At((to[k].bank + 128) % 256, to[k].addr)
                 IN  /\ CellOf(op, mirror) = last.cells[k]
                     /\ last.waits[k] = Waits(mirror) \/ (memsel /\ to[k].addr >= \h8000)
      <3> DEFINE b == to[k].bank
                 a == to[k].addr
                 m == At(Opposite(b), a)
      <3>1. b \in BankNo /\ a \in AddrNo /\ Opposite(b) \in BankNo /\ m # Stopped
            /\ m.bank = Opposite(b) /\ m.addr = a
        BY <2>3, <2>6, OppositeIs, AtIs
      <3>2. CellOf(op, m) = last.cells[k]
        <4> HIDE DEF m
        <4>1. CellOf(op, m) = IF op \in {"loadb", "loadw"} THEN LoadCell(Opposite(b), a)
                              ELSE StoreCell(Opposite(b), a)
          BY <3>1 DEF CellOf
        <4> QED
          BY <3>1, <4>1, <2>3, <2>6, CellsMirrored
      <3>3. last.waits[k] = Waits(m) \/ (memsel /\ a >= \h8000)
        <4> HIDE DEF m
        <4>1. Waits(m) = Wait(Opposite(b), a)
          BY <3>1 DEF Waits
        <4> QED
          BY <3>1, <4>1, <2>3, <2>6, WaitsMirrored
      <3> QED
        BY <3>2, <3>3 DEF Opposite
    <2>7. ASSUME NEW k \in DOMAIN to, to[k] # Stopped, to[k].bank < 128,
                 last.cells[k].dev \in {"rom", "ram", "wram"}
          PROVE  last.waits[k] = 2
      BY <2>3, <2>7, MemoryWaits DEF Memories
    <2> QED
      BY <2>2, <2>5, <2>6, <2>7 DEF MirrorsAgree, Reached
  <1> QED
    BY <1>1, BusInvHolds, PTL

-----------------------------------------------------------------------------
(* Headers.                                                                 *)

\* A size byte counts by its low four bits.
LEMMA SizeIs ==
  ASSUME NEW n \in Nat
  PROVE  2^(n % 16) \in Nat
  <1>1. n % 16 \in 0..15
    OBVIOUS
  <1>2. /\ 2^0 \in Nat /\ 2^1 \in Nat /\ 2^2 \in Nat /\ 2^3 \in Nat /\ 2^4 \in Nat /\ 2^5 \in Nat
        /\ 2^6 \in Nat /\ 2^7 \in Nat /\ 2^8 \in Nat /\ 2^9 \in Nat /\ 2^10 \in Nat
        /\ 2^11 \in Nat /\ 2^12 \in Nat /\ 2^13 \in Nat /\ 2^14 \in Nat /\ 2^15 \in Nat
    OBVIOUS
  <1>3. \/ n % 16 = 0 \/ n % 16 = 1 \/ n % 16 = 2 \/ n % 16 = 3 \/ n % 16 = 4 \/ n % 16 = 5
        \/ n % 16 = 6 \/ n % 16 = 7 \/ n % 16 = 8 \/ n % 16 = 9 \/ n % 16 = 10
        \/ n % 16 = 11 \/ n % 16 = 12 \/ n % 16 = 13 \/ n % 16 = 14 \/ n % 16 = 15
    BY <1>1
  <1> QED
    BY <1>2, <1>3

\* A header there is room for scores 0 if nothing is wrong with it, and less if
\* something is.
LEMMA ScoreIs ==
  ASSUME NEW h \in HeaderSet, NEW type \in Types, NEW len \in Nat
  PROVE  /\ Score(h, type, len) \in Int
         /\ len >= Place(type) /\ Faultless(h, type) => Score(h, type, len) = 0
         /\ ~(len >= Place(type) /\ Faultless(h, type)) => Score(h, type, len) < 0
  <1>0. h.checked \in BOOLEAN /\ h.ascii \in BOOLEAN /\ h.mode \in Nat /\ Place(type) \in Nat
    BY DEF HeaderSet, Types, Place, KB
  <1>1. CASE len < Place(type)
    BY <1>0, <1>1 DEF Score
  <1>2. CASE ~ len < Place(type)
    <2>1. CASE type = "lo"
      BY <1>0, <1>2, <2>1 DEF Score, Faultless, TypeOfMode
    <2>2. CASE type = "hi"
      BY <1>0, <1>2, <2>2 DEF Score, Faultless, TypeOfMode
    <2> QED
      BY <2>1, <2>2 DEF Types
  <1> QED
    BY <1>1, <1>2

LEMMA StrippedIs ==
  ASSUME NEW raw \in Nat
  PROVE  Stripped(raw) \in Nat
  <1>1. raw % KB = 512 => raw >= 512
    BY DEF KB
  <1> QED
    BY <1>1 DEF Stripped

\* RightHeader: an image with one sound header is taken for what that says.  A
\* sound header scores 0 and any other less, so there is no tie to decide.
THEOREM HeaderIsRight == BusSpec => []RightHeader
  <1>1. BusInv => RightHeader
    <2> SUFFICES ASSUME BusInv, image # NoImage, cart.type # "error", NEW type \in Types,
                        {t \in Types : Stripped(image.raw) >= Place(t)
                            /\ Faultless([lo |-> image.lo, hi |-> image.hi][t], t)} = {type}
                 PROVE  LET h == [lo |-> image.lo, hi |-> image.hi]
                        IN  /\ cart.type = type /\ cart.ram = KB * 2^(h[type].ram % 16)
                            /\ cart.rom >= Stripped(image.raw)
                            /\ cart.rom >= KB * 2^(h[type].rom % 16)
      BY DEF RightHeader
    <2>1. PICK lo \in HeaderSet, hi \in HeaderSet, raw \in Nat :
            image = [lo |-> lo, hi |-> hi, raw |-> raw] /\ cart = Insert(lo, hi, raw)
      BY DEF BusInv, Inserted
    <2> DEFINE len == Stripped(raw)
               h == IF type = "lo" THEN lo ELSE hi
               other == IF type = "lo" THEN "hi" ELSE "lo"
               g == IF type = "lo" THEN hi ELSE lo
               sound == {t \in Types : len >= Place(t)
                           /\ Faultless([lo |-> lo, hi |-> hi][t], t)}
    <2>2. len \in Nat /\ h \in HeaderSet /\ g \in HeaderSet /\ other \in Types /\ other # type
      BY StrippedIs DEF Types
    <2>3. [lo |-> lo, hi |-> hi][type] = h /\ [lo |-> lo, hi |-> hi][other] = g
      BY DEF Types
    <2>4. sound = {type}
      BY <2>1
    <2> HIDE DEF len, h, g, other
    <2>5. /\ len >= Place(type) /\ Faultless(h, type)
          /\ ~(len >= Place(other) /\ Faultless(g, other))
      BY <2>2, <2>3, <2>4
    <2>6. Score(h, type, len) = 0 /\ Score(g, other, len) < 0
      BY <2>2, <2>5, ScoreIs
    <2>7. Decoded(h, type, len) =
            [type |-> type, rom |-> KB * 2^(h.rom % 16), ram |-> KB * 2^(h.ram % 16)]
      <3>1. ~ len < Place(type)
        BY <2>2, <2>5 DEF Place, KB
      <3> QED
        BY <3>1 DEF Decoded
    <2> DEFINE header == IF Score(lo, "lo", len) > Score(hi, "hi", len)
                         THEN Decoded(lo, "lo", len) ELSE Decoded(hi, "hi", len)
    <2>8. header = Decoded(h, type, len)
      <3>1. CASE type = "lo"
        <4>1. Score(lo, "lo", len) > Score(hi, "hi", len)
          BY <3>1, <2>6, <2>2, ScoreIs DEF h, g, other, Types
        <4> QED
          BY <4>1, <3>1 DEF h
      <3>2. CASE type = "hi"
        <4>1. ~ Score(lo, "lo", len) > Score(hi, "hi", len)
          BY <3>2, <2>6, <2>2, ScoreIs DEF h, g, other, Types
        <4> QED
          BY <4>1, <3>2 DEF h
      <3> QED
        BY <3>1, <3>2 DEF Types
    <2>9. cart = [header EXCEPT !.rom = IF @ > len THEN @ ELSE len]
      <3>1. raw % KB \in {0, 512}
        BY <2>1 DEF Insert
      <3> QED
        BY <2>1, <3>1 DEF Insert, len
    <2> HIDE DEF header
    <2> DEFINE rom == KB * 2^(h.rom % 16)
               ram == KB * 2^(h.ram % 16)
    <2>10. rom \in Nat
      BY <2>2, SizeIs DEF HeaderSet, KB
    <2> HIDE DEF rom, ram
    <2>11. header = [type |-> type, rom |-> rom, ram |-> ram]
      BY <2>7, <2>8 DEF rom, ram
    <2>12. /\ cart.type = type /\ cart.ram = ram /\ cart.rom = IF rom > len THEN rom ELSE len
      BY <2>9, <2>11
    <2>13. cart.rom >= len /\ cart.rom >= rom
      BY <2>2, <2>10, <2>12
    <2>14. [lo |-> image.lo, hi |-> image.hi][type] = h /\ Stripped(image.raw) = len
      BY <2>1, <2>3 DEF len
    <2> QED
      BY <2>12, <2>13, <2>14 DEF rom, ram
  <1> QED
    BY <1>1, BusInvHolds, PTL
=============================================================================
