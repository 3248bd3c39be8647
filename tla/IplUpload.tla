----------------------------- MODULE IplUpload -----------------------------
(***************************************************************************)
(* The sound processor's boot ROM (spc700/ipl.rs) and the four port pairs  *)
(* through which the 65816 sends it a program (spc700/lib.rs).             *)
(*                                                                         *)
(* Both processors run their own program and see each other only through   *)
(* the ports.  FrameLoop interleaves them, an instruction at a time, at no *)
(* fixed ratio; here they interleave in every way.  A step is an access to *)
(* a port with the instructions after it that access none: those commute   *)
(* with all the other side does.                                           *)
(*                                                                         *)
(* The boot ROM is the code's.  The program that uploads is the game's and *)
(* not part of the repository: Cpu... models what the boot ROM requires of *)
(* it.  The flags a branch needs are taken from the comparison before it.  *)
(***************************************************************************)
EXTENDS Bytes, Sequences

CONSTANTS
  Ready,       \* Ready[1], Ready[2]: $aa and $bb, in ports 0 and 1
  StartMark,   \* $cc, the first kick
  Uploads,     \* what is uploaded
  None

Word  == 0..(ByteSize * ByteSize - 1)
Ports == 0..3

BlockType == [dest : Word, data : Seq(Byte)]

\* Blocks are not empty and stay clear of the boot ROM's own page.
ASSUME IplAssumption ==
  /\ ByteSize >= 4 /\ ByteSize % 2 = 0
  /\ Ready \in Byte \X Byte /\ StartMark \in Byte \ {0, Ready[1]}
  /\ \A u \in Uploads :
       /\ u.entry \in Word /\ u.blocks \in Seq(BlockType) /\ u.blocks # <<>>
       /\ \A k \in 1..Len(u.blocks) :
            LET b == u.blocks[k]
            IN  b.data # <<>> /\ b.dest >= ByteSize /\ b.dest + Len(b.data) - 1 \in Word
  /\ None \notin Word

VARIABLES
  io_vals,    \* what the CPU stored to the ports; the SPC700 loads it
  out,        \* mem[$f4..$f7], what the SPC700 stored; the CPU loads it
  spc,        \* pc and y of the boot ROM, the byte in a, the pointer in $00-$01
  ram,        \* the memory from $0100 on
  cpu,        \* the uploader: pc, block and offset of the next byte, kick
  upload,     \* what it uploads
  block, off, \* history: the byte the SPC700 stores next
  entered     \* history: where the SPC700 left the boot ROM to

ports == <<io_vals, out>>
place == <<block, off>>
vars  == <<io_vals, out, spc, ram, cpu, upload, block, off, entered>>

Zeroes == [a \in Word |-> 0]

Init ==
  /\ io_vals = [q \in Ports |-> 0] /\ out = [q \in Ports |-> 0]
  /\ spc = [pc |-> "ready0", y |-> 0, a |-> 0, ptr |-> 0]
  /\ ram = Zeroes
  /\ cpu = [pc |-> "boot", block |-> 1, off |-> 0, kick |-> StartMark]
  /\ upload \in Uploads
  /\ block = 1 /\ off = 0 /\ entered = None

-----------------------------------------------------------------------------
(* The ports.                                                              *)

\* read_port and store_port are the CPU's, load and store the SPC700's.
ReadPort(q) == out[q]

StorePort(q, value) == io_vals' = [io_vals EXCEPT ![q] = value] /\ UNCHANGED out

\* A word is stored to a port and the next.
StoreWord(q, low, high) ==
  io_vals' = [io_vals EXCEPT ![q] = low, ![q + 1] = high] /\ UNCHANGED out

Load(q) == io_vals[q]

Store(q, value) == out' = [out EXCEPT ![q] = value] /\ UNCHANGED io_vals

-----------------------------------------------------------------------------
(* The boot ROM.                                                           *)

Spc(from, to) == spc.pc = from /\ spc' = [spc EXCEPT !.pc = to]

\* Nothing else than the SPC700's registers changes.
Inside == UNCHANGED <<ram, cpu, upload, block, off, entered>>

Announce ==
  \/ Spc("ready0", "ready1") /\ Store(0, Ready[1]) /\ Inside
  \/ Spc("ready1", "wait_start") /\ Store(1, Ready[2]) /\ Inside

WaitStart ==
  /\ Load(0) = StartMark
  /\ Spc("wait_start", "start")
  /\ UNCHANGED ports /\ Inside

\* The destination, in ports 2 and 3.
TakeDest ==
  /\ spc.pc = "start"
  /\ spc' = [spc EXCEPT !.pc = "kick", !.ptr = Load(2) + ByteSize * Load(3)]
  /\ UNCHANGED ports /\ Inside

\* movw ya, $f4: port 0 into a, port 1 into y.
TakeKick ==
  /\ spc.pc = "kick"
  /\ spc' = [spc EXCEPT !.pc = "echo", !.a = Load(0), !.y = Load(1)]
  /\ UNCHANGED ports /\ Inside

\* Mutant: port 1 is echoed, as the comment has it.
EchoFlag ==
  /\ spc.pc = "echo"
  /\ Store(0, spc.y)
  /\ spc' = [spc EXCEPT !.pc = IF spc.y # 0 THEN "recv" ELSE "left"]
  /\ entered' = IF spc.y # 0 THEN entered ELSE spc.ptr
  /\ UNCHANGED <<ram, cpu, upload, place>>

\* The kick is echoed; then either a block follows or the program is entered.
Echo ==
  /\ spc.pc = "echo"
  /\ Store(0, spc.a)
  /\ spc' = [spc EXCEPT !.pc = IF spc.y # 0 THEN "recv" ELSE "left"]
  /\ entered' = IF spc.y # 0 THEN entered ELSE spc.ptr
  /\ UNCHANGED <<ram, cpu, upload, place>>

\* Until port 0 holds index 0.
Recv ==
  /\ spc.pc = "recv"
  /\ spc' = [spc EXCEPT !.pc = IF Load(0) = 0 THEN "loop" ELSE "recv", !.y = Load(0)]
  /\ UNCHANGED ports /\ Inside

\* cmp y, $f4 sets N if y - $f4 is negative as a signed byte.
Negative(b) == b >= ByteSize \div 2
Behind      == Negative((spc.y + (ByteSize - Load(0))) % ByteSize)

\* Mutant: the byte is acknowledged when its index is seen.
CompareAcks ==
  /\ spc.pc = "loop"
  /\ spc' = [spc EXCEPT !.pc = IF Load(0) = spc.y THEN "take"
                               ELSE IF Behind THEN "again" ELSE "loop"]
  /\ IF Load(0) = spc.y THEN Store(0, spc.y) ELSE UNCHANGED ports
  /\ Inside

\* The index of the next byte, or one further on: the end of the block.
Compare ==
  /\ spc.pc = "loop"
  /\ spc' = [spc EXCEPT !.pc = IF Load(0) = spc.y THEN "take"
                               ELSE IF Behind THEN "again" ELSE "loop"]
  /\ UNCHANGED ports /\ Inside

TakeByte ==
  /\ spc.pc = "take"
  /\ spc' = [spc EXCEPT !.pc = "ack", !.a = Load(1)]
  /\ UNCHANGED ports /\ Inside

Acknowledge == Spc("ack", "put") /\ Store(0, spc.y) /\ Inside

NextIndex == (spc.y + 1) % ByteSize

\* Mutant: the pointer stays in its page.
NextPageStays == spc.ptr

\* The high byte of the pointer moves on when the index wraps.
NextPage == (spc.ptr + ByteSize) % (ByteSize * ByteSize)

\* inc y; bne; inc $01; bpl.
PutByte ==
  /\ spc.pc = "put"
  /\ ram' = [ram EXCEPT ![(spc.ptr + spc.y) % (ByteSize * ByteSize)] = spc.a]
  /\ IF NextIndex # 0
       THEN spc' = [spc EXCEPT !.pc = "loop", !.y = NextIndex]
       ELSE spc' = [spc EXCEPT !.pc = IF Negative(NextPage \div ByteSize) THEN "again" ELSE "loop",
                               !.y = 0, !.ptr = NextPage]
  /\ IF off + 1 = Len(upload.blocks[block].data)
       THEN block' = block + 1 /\ off' = 0
       ELSE block' = block /\ off' = off + 1
  /\ UNCHANGED <<ports, cpu, upload, entered>>

\* The second comparison, against a byte that may have changed since.
CompareAgain ==
  /\ spc.pc = "again"
  /\ spc' = [spc EXCEPT !.pc = IF Behind THEN "start" ELSE "loop"]
  /\ UNCHANGED ports /\ Inside

SpcStep == \/ Announce \/ WaitStart \/ TakeDest \/ TakeKick \/ Echo
           \/ Recv \/ Compare \/ TakeByte \/ Acknowledge \/ PutByte \/ CompareAgain

-----------------------------------------------------------------------------
(* The uploader, as the boot ROM requires it.                              *)

Outside == UNCHANGED <<spc, ram, upload, block, off, entered>>

Cpu(from, to) == cpu.pc = from /\ cpu' = [cpu EXCEPT !.pc = to]

Finished   == cpu.block > Len(upload.blocks)
Block      == upload.blocks[cpu.block]
AddrOf     == IF Finished THEN upload.entry ELSE Block.dest
IndexOf(n) == n % ByteSize

CpuBoot ==
  /\ ReadPort(0) = Ready[1] /\ ReadPort(1) = Ready[2]
  /\ Cpu("boot", "dest")
  /\ UNCHANGED ports /\ Outside

CpuDest ==
  /\ Cpu("dest", "flag")
  /\ StoreWord(2, AddrOf % ByteSize, AddrOf \div ByteSize)
  /\ Outside

\* Port 1 tells the SPC700 whether a block or the end follows.  It is stored
\* before the kick, or with it as a word.
CpuFlag ==
  /\ \E flag \in IF Finished THEN {0} ELSE Byte \ {0} :
       \/ Cpu("flag", "kick") /\ StorePort(1, flag)
       \/ Cpu("flag", "await_kick") /\ StoreWord(0, cpu.kick, flag)
  /\ Outside

CpuKick == Cpu("kick", "await_kick") /\ StorePort(0, cpu.kick) /\ Outside

CpuAwaitKick ==
  /\ ReadPort(0) = cpu.kick
  /\ Cpu("await_kick", IF Finished THEN "done" ELSE "data")
  /\ UNCHANGED ports /\ Outside

CpuData ==
  /\ LET byte == Block.data[cpu.off + 1]
     IN  \/ Cpu("data", "index") /\ StorePort(1, byte)
         \/ Cpu("data", "await_byte") /\ StoreWord(0, IndexOf(cpu.off), byte)
  /\ Outside

CpuIndex == Cpu("index", "await_byte") /\ StorePort(0, IndexOf(cpu.off)) /\ Outside

\* The kick that ends a block of n bytes is ahead of the next index.
KicksAfter(n) == {(n + k) % ByteSize : k \in 1..(ByteSize \div 2)} \ {0}

CpuAwaitByte ==
  /\ cpu.pc = "await_byte"
  /\ ReadPort(0) = IndexOf(cpu.off)
  /\ IF cpu.off + 1 < Len(Block.data)
       THEN cpu' = [cpu EXCEPT !.pc = "data", !.off = @ + 1]
       ELSE \E k \in KicksAfter(cpu.off + 1) :
              cpu' = [pc |-> "dest", block |-> cpu.block + 1, off |-> 0, kick |-> k]
  /\ UNCHANGED ports /\ Outside

CpuStep == \/ CpuBoot \/ CpuDest \/ CpuFlag \/ CpuKick \/ CpuAwaitKick
           \/ CpuData \/ CpuIndex \/ CpuAwaitByte

-----------------------------------------------------------------------------
Next == SpcStep \/ CpuStep

Spec == Init /\ [][Next]_vars

\* FrameLoop gives both processors their turns (InStep), and the uploader
\* does nothing else.
FairSpec == Spec /\ WF_vars(SpcStep) /\ WF_vars(CpuStep)

-----------------------------------------------------------------------------
(* What the boot ROM promises to an uploader.                              *)

Transfer == INSTANCE Upload WITH Empty <- Zeroes

\* However the two programs interleave, every byte arrives once, in order, and
\* where it belongs, and the program is entered when all have arrived.
UploadArrives == Transfer!UploadSpec

\* The data port holds the byte the SPC700 is about to take until it has
\* taken it: the uploader is never told too early to go on.
DataHeld ==
  spc.pc = "take" => /\ Load(1) = upload.blocks[block].data[off + 1]
                     /\ cpu.pc = "await_byte" /\ <<cpu.block, cpu.off>> = place

\* The upload ends, with the uploader and the boot ROM agreeing on it.
UploadEnds == <>(spc.pc = "left" /\ cpu.pc = "done")
=============================================================================
