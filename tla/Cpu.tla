-------------------------------- MODULE Cpu --------------------------------
(***************************************************************************)
(* The 65816: its stack, its interrupts and the width of its index         *)
(* registers (wdc65816/lib.rs).                                            *)
(*                                                                         *)
(* The program is any sequence of instructions, and an NMI or an IRQ may   *)
(* come between any two of them (see FrameLoop).  What the instructions    *)
(* compute is left out, and with it the data flags, the accumulator, the   *)
(* low bytes of the index registers, and the data they store; what decides *)
(* where the program continues is kept: pc and its bank, the stack, the    *)
(* flags X, I and D, emulation mode and WAI, and the high byte of X, which *)
(* TXS makes the high byte of the stack pointer.  Y is handled like X, but *)
(* for TXS, and is left out.                                               *)
(*                                                                         *)
(* The program nests what it pushes and what it pulls, so that a return    *)
(* finds its own frame on top; once it moves the stack, what lies there is *)
(* no longer counted on.  It changes the mode with nothing on the stack.   *)
(* Additions to addresses wrap, as they do in the release build.           *)
(***************************************************************************)
EXTENDS Integers, Sequences

CONSTANTS
  ByteSize,    \* 256
  HighBytes,   \* the high bytes of index registers the program computes
  Stacks,      \* the words the program makes the stack pointer
  Targets,     \* where its calls are and its jumps go
  Banks,       \* program banks it jumps to
  FlagSets,    \* the flags it sets with SEP, REP and the like
  Handlers,    \* where the interrupt vectors point
  MaxFrames    \* bound of the model: the program's nesting

WordSize == ByteSize * ByteSize
Byte     == 0..(ByteSize - 1)
Word     == 0..(WordSize - 1)
FlagsType == [x : BOOLEAN, i : BOOLEAN, d : BOOLEAN]

ASSUME CpuAssumption ==
  /\ ByteSize \in Nat /\ ByteSize >= 8
  /\ HighBytes \subseteq Byte /\ 0 \in HighBytes
  /\ Stacks \subseteq Word /\ Targets \subseteq Word /\ Handlers \subseteq Word
  /\ Banks \subseteq Byte
  /\ FlagSets \subseteq FlagsType
  /\ MaxFrames \in Nat

VARIABLES
  pc, pbr,      \* the address of the next instruction
  s,            \* stack pointer
  p,            \* the flags X, I and D
  emulation, wai,
  x_hi,         \* the high byte of X
  mem,          \* bank 0, where the stack is
  frames,       \* history: what the program or an interrupt has pushed
  instr         \* history: which instruction the last step was

place == <<pc, pbr>>
stack == <<s, mem, frames>>
vars  == <<pc, pbr, s, p, emulation, wai, x_hi, mem, frames, instr>>

Kinds == {"data", "flags", "jsr", "jsl", "interrupt"}

InstrKinds == {"rti", "block move", "other"}

FrameType == [kind : Kinds, size : 1..4, s : Word, pc : Word, pbr : Byte, p : FlagsType]

TypeOK ==
  /\ pc \in Word /\ pbr \in Byte /\ s \in Word
  /\ p \in FlagsType
  /\ emulation \in BOOLEAN /\ wai \in BOOLEAN
  /\ x_hi \in Byte
  /\ mem \in [Word -> Byte]
  /\ frames \in Seq(FrameType)
  /\ instr \in InstrKinds

Hi(w) == w \div ByteSize
Lo(w) == w % ByteSize
W(hi, lo) == ByteSize * hi + lo

\* The flags as the byte that is pushed, and back.
Bit(b)      == IF b THEN 1 ELSE 0
ByteOf(q)   == 4 * Bit(q.x) + 2 * Bit(q.i) + Bit(q.d)
FlagsOf(b)  == [x |-> (b \div 4) % 2 = 1, i |-> (b \div 2) % 2 = 1, d |-> b % 2 = 1]

\* pc moves on by the n bytes of an instruction.
After(n) == (pc + n) % WordSize

-----------------------------------------------------------------------------
(* The stack.  What lies below the stack pointer is as good as 0: nothing  *)
(* reads it before it is written again.                                    *)

\* In emulation mode the stack pointer wraps in its page.
Down(n) == IF emulation THEN W(Hi(s), (Lo(s) - n) % ByteSize) ELSE (s - n) % WordSize
Up(n)   == IF emulation THEN W(Hi(s), (Lo(s) + n) % ByteSize) ELSE (s + n) % WordSize

\* Bytes already on the stack that the program counts on.
Used ==
  LET total[k \in 0..Len(frames)] == IF k = 0 THEN 0 ELSE total[k - 1] + frames[k].size
  IN  total[Len(frames)]

Room(n) ==
  /\ Len(frames) < MaxFrames
  /\ Used + n <= IF emulation THEN ByteSize ELSE WordSize

\* The bytes are pushed in their order; f is the frame they make.
Push(bytes, f) ==
  /\ Room(Len(bytes))
  /\ mem' = [a \in Word |->
               IF \E k \in 1..Len(bytes) : a = Down(k - 1)
                 THEN bytes[CHOOSE k \in 1..Len(bytes) : a = Down(k - 1)] ELSE mem[a]]
  /\ s' = Down(Len(bytes))
  /\ frames' = Append(frames, f)

NoFlags == [x |-> FALSE, i |-> FALSE, d |-> FALSE]

\* What the frame's return has to restore.
Frame(kind, size, back, bank, flags) ==
  [kind |-> kind, size |-> size, s |-> s, pc |-> back, pbr |-> bank, p |-> flags]

Data(kind, size) == Frame(kind, size, 0, 0, NoFlags)

Top == frames[Len(frames)]

\* The program pulls a frame of this kind.
Pull(kind, n) ==
  /\ frames # <<>> /\ Top.kind = kind /\ Top.size = n
  /\ s' = Up(n)
  /\ mem' = [a \in Word |-> IF \E k \in 1..n : a = Up(k) THEN 0 ELSE mem[a]]
  /\ frames' = SubSeq(frames, 1, Len(frames) - 1)

\* What the k-th byte pulled is.
Pulled(k) == mem[Up(k)]
PulledWord(k) == W(Pulled(k + 1), Pulled(k))

\* The stack pointer is set: what is on the stack no longer counts.
MoveStack(to) ==
  /\ s' = to
  /\ mem' = [a \in Word |-> 0]
  /\ frames' = <<>>

-----------------------------------------------------------------------------
Init ==
  /\ pc \in Targets /\ pbr = 0
  /\ s = W(1, 0)
  /\ p = [x |-> TRUE, i |-> TRUE, d |-> FALSE]
  /\ emulation = TRUE /\ wai = FALSE
  /\ x_hi = 0
  /\ mem = [a \in Word |-> 0]
  /\ frames = <<>>
  /\ instr = "other"

\* While the CPU waits it does nothing.
Instruction(next) == ~wai /\ pc' = next

\* Where the next instruction is, is the program's affair: a jump or a step.
GoOn == \E next \in Targets : Instruction(next)

Compute ==
  /\ GoOn
  /\ UNCHANGED <<pbr, stack, p, emulation, wai, x_hi>>

Jml ==
  /\ GoOn
  /\ pbr' \in Banks
  /\ UNCHANGED <<stack, p, emulation, wai, x_hi>>

\* Bound of the model: it waits with room for the interrupt's frame.
Wai ==
  /\ Room(4)
  /\ GoOn
  /\ wai' = TRUE
  /\ UNCHANGED <<pbr, stack, p, emulation, x_hi>>

-----------------------------------------------------------------------------
(* Flags and modes.                                                        *)

\* set_p: narrow index registers lose their high bytes.
SetP(new) ==
  /\ p' = new
  /\ IF ~p.x /\ new.x THEN x_hi' = 0 ELSE x_hi' = x_hi

\* SEP, REP, SEI, CLI, SED and CLD.
SetFlags ==
  /\ \E new \in FlagSets : SetP(new)
  /\ GoOn
  /\ UNCHANGED <<pbr, stack, emulation, wai>>

\* Mutant: the stack pointer stays where native mode had it.
EnterEmulationHere ==
  /\ emulation' = TRUE
  /\ MoveStack(s)
  /\ p' = [p EXCEPT !.x = TRUE]
  /\ x_hi' = 0

EnterEmulation ==
  /\ emulation' = TRUE
  /\ MoveStack(W(1, Lo(s)))
  /\ p' = [p EXCEPT !.x = TRUE]
  /\ x_hi' = 0

\* XCE, the carry being anything.
Xce ==
  /\ frames = <<>>
  /\ GoOn
  /\ \/ ~emulation /\ EnterEmulation
     \/ emulation /\ emulation' = FALSE /\ MoveStack(s) /\ UNCHANGED <<p, x_hi>>
     \/ UNCHANGED <<emulation, stack, p, x_hi>>
  /\ UNCHANGED <<pbr, wai>>

-----------------------------------------------------------------------------
(* The index registers.                                                    *)

\* LDX, TAX, INX, DEX: of a narrow register the high byte is left alone.
ComputeX ==
  /\ x_hi' \in IF p.x THEN {x_hi} ELSE HighBytes
  /\ GoOn
  /\ UNCHANGED <<pbr, stack, p, emulation, wai>>

\* Mutant: the other register is copied whole, whatever the width of X.
TransferToXWhole ==
  /\ x_hi' \in HighBytes \cup {Hi(s)}
  /\ GoOn
  /\ UNCHANGED <<pbr, stack, p, emulation, wai>>

\* TYX and TSX: a narrow register gets a high byte of 0.
TransferToX ==
  /\ x_hi' \in IF p.x THEN {0} ELSE HighBytes \cup {Hi(s)}
  /\ GoOn
  /\ UNCHANGED <<pbr, stack, p, emulation, wai>>

\* MVN and MVP count X and Y as words, whatever their width.
BlockMove ==
  /\ x_hi' \in HighBytes
  /\ GoOn
  /\ UNCHANGED <<pbr, stack, p, emulation, wai>>

\* Mutant: X is copied in every mode.
TxsWide(lo) == MoveStack(W(x_hi, lo))

Txs(lo) == MoveStack(W(IF emulation THEN 1 ELSE x_hi, lo))

Tcs(to) == MoveStack(W(IF emulation THEN 1 ELSE Hi(to), Lo(to)))

SetStack ==
  /\ \E to \in Stacks : Txs(Lo(to)) \/ Tcs(to)
  /\ GoOn
  /\ UNCHANGED <<pbr, p, emulation, wai, x_hi>>

-----------------------------------------------------------------------------
(* Pushes and pulls.                                                       *)

\* PHA, PHB, PHD, PHK, PEA, PER, and PHX, PHY of a narrow register: a byte or
\* a word of data.
PushData ==
  /\ \/ Push(<<0>>, Data("data", 1))
     \/ \E hi \in HighBytes : Push(<<hi, 0>>, Data("data", 2))
  /\ GoOn
  /\ UNCHANGED <<pbr, p, emulation, wai, x_hi>>

PullData ==
  /\ Pull("data", 1) \/ Pull("data", 2)
  /\ GoOn
  /\ UNCHANGED <<pbr, p, emulation, wai, x_hi>>

\* PLX; PLY is the same for Y.
PullX ==
  /\ IF p.x THEN Pull("data", 1) /\ x_hi' = 0
             ELSE Pull("data", 2) /\ x_hi' = Pulled(2)
  /\ GoOn
  /\ UNCHANGED <<pbr, p, emulation, wai>>

Php ==
  /\ Push(<<ByteOf(p)>>, Data("flags", 1))
  /\ GoOn
  /\ UNCHANGED <<pbr, p, emulation, wai, x_hi>>

Plp ==
  /\ Pull("flags", 1)
  /\ SetP(FlagsOf(Pulled(1)))
  /\ GoOn
  /\ UNCHANGED <<pbr, emulation, wai>>

-----------------------------------------------------------------------------
(* Calls and returns.                                                      *)

\* The address pushed is that of the call's last byte.
Jsr ==
  /\ pc \in Targets
  /\ Push(<<Hi(After(2)), Lo(After(2))>>, Frame("jsr", 2, After(3), 0, NoFlags))
  /\ GoOn
  /\ UNCHANGED <<pbr, p, emulation, wai, x_hi>>

Jsl ==
  /\ pc \in Targets
  /\ Push(<<pbr, Hi(After(3)), Lo(After(3))>>, Frame("jsl", 3, After(4), pbr, NoFlags))
  /\ GoOn
  /\ pbr' \in Banks
  /\ UNCHANGED <<p, emulation, wai, x_hi>>

\* Mutant: the program goes on at the address pulled.
RtsAtLastByte ==
  /\ Pull("jsr", 2)
  /\ Instruction(PulledWord(1))
  /\ UNCHANGED <<pbr, p, emulation, wai, x_hi>>

Rts ==
  /\ Pull("jsr", 2)
  /\ Instruction((PulledWord(1) + 1) % WordSize)
  /\ UNCHANGED <<pbr, p, emulation, wai, x_hi>>

Rtl ==
  /\ Pull("jsl", 3)
  /\ Instruction((PulledWord(1) + 1) % WordSize)
  /\ pbr' = Pulled(3)
  /\ UNCHANGED <<p, emulation, wai, x_hi>>

\* interrupt: in emulation mode the program bank is neither pushed nor left.
Interrupt ==
  /\ wai' = FALSE
  /\ IF emulation
       THEN /\ Push(<<Hi(pc), Lo(pc), ByteOf(p)>>, Frame("interrupt", 3, pc, 0, p))
            /\ UNCHANGED <<pbr, p>>
       ELSE /\ Push(<<pbr, Hi(pc), Lo(pc), ByteOf(p)>>, Frame("interrupt", 4, pc, pbr, p))
            /\ pbr' = 0
            /\ p' = [p EXCEPT !.d = FALSE]
  /\ pc' \in Handlers
  /\ UNCHANGED <<emulation, x_hi>>

TriggerNmi == Interrupt

\* trigger_irq invokes the handler when IRQs are disabled.
TriggerIrq == p.i /\ Interrupt

\* The flags are set without set_p.
Rti ==
  /\ Pull("interrupt", IF emulation THEN 3 ELSE 4)
  /\ p' = FlagsOf(Pulled(1))
  /\ Instruction(PulledWord(2))
  /\ IF emulation THEN pbr' = pbr ELSE pbr' = Pulled(4)
  /\ UNCHANGED <<emulation, wai, x_hi>>

-----------------------------------------------------------------------------
Return == Rts \/ Rtl \/ Rti

\* All instructions and interrupts but RTI and the block moves.
Other ==
  \/ Compute \/ Jml \/ Wai \/ SetFlags \/ Xce
  \/ ComputeX \/ TransferToX \/ SetStack
  \/ PushData \/ PullData \/ PullX \/ Php \/ Plp
  \/ Jsr \/ Jsl \/ Rts \/ Rtl
  \/ TriggerNmi \/ TriggerIrq

Next ==
  \/ Other /\ instr' = "other"
  \/ Rti /\ instr' = "rti"
  \/ BlockMove /\ instr' = "block move"

Spec == Init /\ [][Next]_vars

-----------------------------------------------------------------------------
(* What the CPU promises.                                                  *)

\* In emulation mode the stack stays in page 1, through every mode switch,
\* transfer and wrap: the assertions of pushb and popb never fail.
StackInPage == emulation => Hi(s) = 1

BankPushed(f) == f.kind = "jsl" \/ (f.kind = "interrupt" /\ f.size = 4)

\* Whatever ran in between, calls, interrupts and their handlers, a return
\* continues where its frame was made, with the stack as it was then; in the
\* same program bank if the bank was pushed, and after an interrupt with the
\* same flags (interrupt and rti, jsr and rts, jsl and rtl).
ReturnsRestore ==
  [][Return => /\ pc' = Top.pc /\ s' = Top.s
               /\ BankPushed(Top) => pbr' = Top.pbr
               /\ Top.kind = "interrupt" => p' = Top.p]_vars

\* A narrow index register has a high byte of 0.
NarrowIndex == p.x => x_hi = 0

\* No instruction but a return from an interrupt and a block move gives a
\* narrow index register a high byte: the others may rely on it, as TXS does.
\* Which instruction a step was is what instr says, not what it did to X.
NarrowIndexKept ==
  [][NarrowIndex /\ ~NarrowIndex' => instr' \in {"rti", "block move"}]_vars
=============================================================================
