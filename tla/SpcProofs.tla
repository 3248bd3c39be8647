------------------------------ MODULE SpcProofs ------------------------------
(* What the sound processor promises: of its boot ROM to an uploader         *)
(* (IplUpload.tla), proved for bytes of any even size from 4, any blocks and *)
(* every interleaving of the two processors; and of its timers (Timers.tla), *)
(* for any dividers and any cycles of an instruction.                        *)
EXTENDS IplUpload, Timers, TLAPS

-----------------------------------------------------------------------------
(* The invariant.  The two programs are joined by the values in the ports: *)
(* what the uploader stored says where it is, what the boot ROM stored says *)
(* how far that has come.                                                   *)

Blocks == upload.blocks
Data(k) == Blocks[k].data

SpcPcs == {"ready0", "ready1", "wait_start", "start", "kick", "echo", "recv", "loop",
           "take", "ack", "put", "again", "left"}
Opening == {"dest", "flag", "kick", "await_kick"}    \* the uploader opens a block or ends
Sending == {"data", "index", "await_byte"}           \* it sends the bytes of one
CpuPcs == {"boot", "done"} \cup Opening \cup Sending

TypeInv ==
  /\ io_vals \in [Ports -> Byte] /\ out \in [Ports -> Byte]
  /\ spc \in [pc : SpcPcs, y : Byte, a : Byte, ptr : Word]
  /\ ram \in [Word -> Byte]
  /\ cpu \in [pc : CpuPcs, block : Nat \ {0}, off : Nat, kick : Byte]
  /\ upload \in Uploads
  /\ block \in Nat \ {0} /\ off \in Nat
  /\ entered \in Word \cup {None}

\* The number of bytes of the block before the uploader's.
Before == Len(Data(cpu.block - 1))

\* What the uploader has in the ports.
SenderInv ==
  /\ cpu.block <= Len(Blocks) + 1
  /\ cpu.pc \in Sending => ~Finished /\ cpu.off < Len(Block.data)
  /\ cpu.pc \notin Sending => cpu.off = 0
  /\ cpu.pc = "boot" => cpu.block = 1
  /\ cpu.pc = "done" => Finished
  /\ cpu.kick # 0
  /\ IF cpu.block = 1 THEN cpu.kick = StartMark ELSE cpu.kick \in KicksAfter(Before)
  /\ cpu.pc = "boot" => io_vals[0] = 0
  /\ cpu.pc \in {"dest", "flag", "kick"} =>
       io_vals[0] = IF cpu.block = 1 THEN 0 ELSE IndexOf(Before - 1)
  /\ cpu.pc \in {"flag", "kick", "await_kick"} =>
       io_vals[2] = AddrOf % ByteSize /\ io_vals[3] = AddrOf \div ByteSize
  /\ cpu.pc \in {"kick", "await_kick"} => (io_vals[1] = 0 <=> Finished)
  /\ cpu.pc = "await_kick" => io_vals[0] = cpu.kick
  /\ cpu.pc \in {"data", "index"} =>
       io_vals[0] = IF cpu.off = 0 THEN cpu.kick ELSE IndexOf(cpu.off - 1)
  /\ cpu.pc = "await_byte" => io_vals[0] = IndexOf(cpu.off)
  /\ cpu.pc \in {"index", "await_byte"} => io_vals[1] = Block.data[cpu.off + 1]

\* The boot ROM expects the byte the uploader sends, or has not yet found
\* that the block before is complete.
SameByte ==
  /\ cpu.pc \in Sending /\ place = <<cpu.block, cpu.off>>
  /\ cpu.off = 0 => cpu.pc = "await_byte"
  /\ spc.y = IndexOf(off) /\ spc.ptr + spc.y = Block.dest + off
  /\ out[0] = IF off = 0 THEN cpu.kick ELSE IndexOf(off - 1)

\* The boot ROM is done with a byte; the uploader has not yet read that.
LateSender ==
  /\ cpu.pc = "await_byte"
  /\ spc.y = IndexOf(cpu.off + 1) /\ out[0] = IndexOf(cpu.off)
  /\ IF cpu.off + 1 < Len(Block.data)
     THEN place = <<cpu.block, cpu.off + 1>> /\ spc.ptr + spc.y = Block.dest + off
     ELSE place = <<cpu.block + 1, 0>>

NextBlock ==
  /\ cpu.pc \in Opening /\ cpu.block > 1 /\ place = <<cpu.block, 0>>
  /\ spc.y = IndexOf(Before)
  /\ out[0] = IndexOf(Before - 1)

\* The byte acknowledged is in a; the uploader waits for that or has gone on.
Acknowledged ==
  /\ block <= Len(Blocks) /\ off < Len(Data(block))
  /\ spc.a = Data(block)[off + 1]
  /\ spc.y = IndexOf(off) /\ spc.ptr + spc.y = Blocks[block].dest + off
  /\ out[0] = spc.y
  /\ \/ cpu.pc = "await_byte" /\ place = <<cpu.block, cpu.off>>
     \/ cpu.pc \in Sending /\ off + 1 < Len(Data(block)) /\ <<cpu.block, cpu.off>> = <<block, off + 1>>
     \/ cpu.pc \in Opening /\ off + 1 = Len(Data(block)) /\ cpu.block = block + 1

ReceiverInv ==
  /\ spc.pc \in {"ready0", "ready1", "wait_start"} =>
       /\ cpu.pc \in {"boot"} \cup Opening /\ cpu.block = 1 /\ place = <<1, 0>>
       /\ out[0] \in {0, Ready[1]}
  /\ spc.pc \in {"start", "kick", "echo"} =>
       cpu.pc = "await_kick" /\ place = <<cpu.block, 0>> /\ out[0] # cpu.kick
  /\ spc.pc \in {"kick", "echo"} => spc.ptr = AddrOf
  /\ spc.pc = "echo" => spc.a = cpu.kick /\ (spc.y = 0 <=> Finished)
  /\ spc.pc = "recv" =>
       /\ cpu.pc \in {"await_kick"} \cup Sending /\ ~Finished
       /\ cpu.off = 0 /\ place = <<cpu.block, 0>>
       /\ out[0] = cpu.kick /\ spc.ptr = Block.dest
  /\ spc.pc \in {"loop", "again"} => SameByte \/ LateSender \/ NextBlock
  /\ spc.pc \in {"take", "ack"} => SameByte /\ cpu.pc = "await_byte"
  /\ spc.pc = "ack" => spc.a = Data(block)[off + 1]
  /\ spc.pc = "put" => Acknowledged
  /\ spc.pc = "left" =>
       /\ cpu.pc \in {"await_kick", "done"} /\ Finished
       /\ out[0] = cpu.kick
  /\ entered = None <=> spc.pc # "left"

IInv == TypeInv /\ SenderInv /\ ReceiverInv

-----------------------------------------------------------------------------
(* Lemmas about numbers.                                                   *)

LEMMA Division ==
  ASSUME NEW n \in Nat, NEW d \in Nat \ {0}
  PROVE  n % d \in 0..(d - 1) /\ n \div d \in Nat /\ n = d * (n \div d) + (n % d)
OBVIOUS

LEMMA ProductLeq ==
  ASSUME NEW a \in Nat, NEW b \in Nat, NEW d \in Nat, a <= b
  PROVE  a * d <= b * d
OBVIOUS

\* A remainder is determined by its range.
LEMMA RemainderIs ==
  ASSUME NEW d \in Nat \ {0}, NEW q \in Nat, NEW r \in 0..(d - 1)
  PROVE  (d * q + r) % d = r
<1> DEFINE n == d * q + r
           p == n \div d
           s == n % d
<1>1. d * q \in Nat /\ n \in Nat
  OBVIOUS
<1>2. s \in 0..(d - 1) /\ p \in Nat /\ d * p + s = d * q + r
  BY <1>1, Division
<1> HIDE DEF p, s, n
<1>3. CASE p = q
  <2>1. d * p = d * q /\ d * q \in Nat
    BY <1>1, <1>3
  <2>2. s = r
    BY <1>2, <2>1
  <2>3. QED BY <2>2 DEF s, n
<1>4. CASE p < q
  <2>1. p + 1 <= q /\ p + 1 \in Nat
    BY <1>2, <1>4
  <2>2. (p + 1) * d <= q * d
    BY <2>1, ProductLeq
  <2>3. (p + 1) * d = d * p + d /\ q * d = d * q /\ d * p \in Nat
    BY <1>2
  <2>4. QED BY <1>1, <1>2, <2>2, <2>3
<1>5. CASE q < p
  <2>1. q + 1 <= p /\ q + 1 \in Nat
    BY <1>2, <1>5
  <2>2. (q + 1) * d <= p * d
    BY <1>2, <2>1, ProductLeq
  <2>3. (q + 1) * d = d * q + d /\ p * d = d * p /\ d * p \in Nat
    BY <1>2
  <2>4. QED BY <1>1, <1>2, <2>2, <2>3
<1>6. QED BY <1>2, <1>3, <1>4, <1>5

\* Adding no more than the divisor carries at most once.
LEMMA AddedRemainder ==
  ASSUME NEW d \in Nat \ {0}, NEW n \in Nat, NEW k \in Nat, k <= d
  PROVE  (n + k) % d = IF (n % d) + k < d THEN (n % d) + k ELSE (n % d) + k - d
<1> DEFINE q == n \div d
           r == n % d
<1>1. r \in 0..(d - 1) /\ q \in Nat /\ n = d * q + r
  BY Division
<1> HIDE DEF q, r
<1>2. CASE r + k < d
  <2>1. r + k \in 0..(d - 1)
    BY <1>1, <1>2
  <2>2. n + k = d * q + (r + k)
    BY <1>1
  <2>3. QED BY <1>1, <1>2, <2>1, <2>2, RemainderIs DEF r
<1>3. CASE ~(r + k < d)
  <2>1. r + k - d \in 0..(d - 1) /\ q + 1 \in Nat
    BY <1>1, <1>3
  <2>2. d * (q + 1) = d * q + d /\ d * q \in Nat
    BY <1>1
  <2>3. n + k = d * (q + 1) + (r + k - d)
    BY <1>1, <2>1, <2>2
  <2>4. QED BY <1>1, <1>3, <2>1, <2>3, RemainderIs DEF r
<1>4. QED BY <1>2, <1>3

LEMMA SmallRemainder ==
  ASSUME NEW d \in Nat \ {0}, NEW n \in 0..(d - 1)
  PROVE  n % d = n
<1>1. d * 0 + n = n
  OBVIOUS
<1>2. QED BY <1>1, RemainderIs

-----------------------------------------------------------------------------
(* Bytes, indices and what the comparisons of the boot ROM find.           *)

Half == ByteSize \div 2

LEMMA Sizes ==
  /\ ByteSize \in Nat \ {0} /\ ByteSize >= 4
  /\ Half \in Nat /\ ByteSize = Half + Half
<1>1. ByteSize \in Nat \ {0} /\ ByteSize >= 4 /\ ByteSize % 2 = 0
  BY IplAssumption, ByteAssumption
<1>2. QED BY <1>1 DEF Half

\* AddedRemainder of the width of a byte.
LEMMA AddedToByte ==
  \A n, k \in Nat :
    k <= ByteSize => (n + k) % ByteSize = IF (n % ByteSize) + k < ByteSize THEN (n % ByteSize) + k
                                          ELSE (n % ByteSize) + k - ByteSize
<1>1. ByteSize \in Nat \ {0}
  BY Sizes
<1>2. QED BY <1>1, AddedRemainder, Zenon

LEMMA IndexIs ==
  /\ \A n \in Nat : /\ IndexOf(n) \in Byte
                    /\ IndexOf(n + 1) = (IndexOf(n) + 1) % ByteSize
                    /\ IndexOf(n + 1) = IF IndexOf(n) = ByteSize - 1 THEN 0 ELSE IndexOf(n) + 1
  /\ IndexOf(0) = 0
<1>0. 1 \in Nat /\ 1 <= ByteSize
  BY Sizes
<1>1. ASSUME NEW n \in Nat
      PROVE  /\ IndexOf(n) \in Byte
             /\ IndexOf(n + 1) = IF IndexOf(n) = ByteSize - 1 THEN 0 ELSE IndexOf(n) + 1
  <2>1. n % ByteSize \in 0..(ByteSize - 1)
    BY Sizes, Division
  <2>2. (n + 1) % ByteSize = IF (n % ByteSize) + 1 < ByteSize THEN (n % ByteSize) + 1
                             ELSE (n % ByteSize) + 1 - ByteSize
    BY <1>0, AddedToByte, Zenon
  <2>3. QED BY <2>1, <2>2, Sizes DEF IndexOf, Byte
<1>2. \A b \in Byte : (b + 1) % ByteSize = IF b = ByteSize - 1 THEN 0 ELSE b + 1
  <2> SUFFICES ASSUME NEW b \in Byte
               PROVE  (b + 1) % ByteSize = IF b = ByteSize - 1 THEN 0 ELSE b + 1
    OBVIOUS
  <2>1. b \in 0..(ByteSize - 1) /\ b % ByteSize = b
    BY Sizes, SmallRemainder DEF Byte
  <2>2. (b + 1) % ByteSize = IF (b % ByteSize) + 1 < ByteSize THEN (b % ByteSize) + 1
                             ELSE (b % ByteSize) + 1 - ByteSize
    <3>1. b \in Nat
      BY <2>1, Sizes
    <3>2. QED BY <1>0, <3>1, AddedToByte, Zenon
  <2>3. QED BY <2>1, <2>2, Sizes
<1>3. IndexOf(0) = 0
  BY Sizes, SmallRemainder DEF IndexOf
<1>4. QED BY <1>1, <1>2, <1>3

\* The kick that ends a block is neither 0 nor the index of its last byte,
\* nor the next index, and is ahead of that.
LEMMA KickIs ==
  ASSUME NEW n \in Nat, NEW k \in KicksAfter(n + 1)
  PROVE  /\ k \in Byte /\ k # 0 /\ k # IndexOf(n) /\ k # IndexOf(n + 1)
         /\ IndexOf(n + 1) + (ByteSize - k) \in Nat
         /\ (IndexOf(n + 1) + (ByteSize - k)) % ByteSize \in Half..(ByteSize - 1)
<1>1. PICK j \in 1..Half : k = ((n + 1) + j) % ByteSize /\ k # 0
  BY DEF KicksAfter, Half
<1> DEFINE y == IndexOf(n + 1)
<1>2. j \in Nat /\ j <= ByteSize /\ n + 1 \in Nat
  BY Sizes
<1>3. k = IF y + j < ByteSize THEN y + j ELSE y + j - ByteSize
  BY <1>1, <1>2, Sizes, AddedToByte DEF IndexOf
<1>4. /\ IndexOf(n) \in Byte /\ y \in Byte
      /\ y = IF IndexOf(n) = ByteSize - 1 THEN 0 ELSE IndexOf(n) + 1
  BY IndexIs
<1> HIDE DEF y
<1>5. k \in Byte /\ k # 0 /\ k # IndexOf(n) /\ k # y
  BY <1>1, <1>3, <1>4, Sizes DEF Byte
<1>6. CASE k = y + j
  <2>1. y + (ByteSize - k) = ByteSize - j /\ ByteSize - j \in Half..(ByteSize - 1)
    BY <1>4, <1>6, Sizes DEF Byte
  <2>2. (ByteSize - j) % ByteSize = ByteSize - j
    BY <2>1, Sizes, SmallRemainder
  <2>3. QED BY <1>5, <2>1, <2>2, Sizes DEF y
<1>7. CASE k = y + j - ByteSize
  <2>1. /\ y + (ByteSize - k) = (ByteSize - j) + ByteSize
        /\ ByteSize - j \in Half..(ByteSize - 1) /\ ByteSize - j \in Nat
    BY <1>4, <1>7, Sizes DEF Byte
  <2>2. (ByteSize - j) % ByteSize = ByteSize - j
    BY <2>1, Sizes, SmallRemainder
  <2>3. ((ByteSize - j) + ByteSize) % ByteSize = ByteSize - j
    <3>1. ByteSize \in Nat /\ ByteSize <= ByteSize
      BY Sizes
    <3>2. ((ByteSize - j) + ByteSize) % ByteSize =
            IF ((ByteSize - j) % ByteSize) + ByteSize < ByteSize THEN ((ByteSize - j) % ByteSize) + ByteSize
            ELSE ((ByteSize - j) % ByteSize) + ByteSize - ByteSize
      BY <2>1, <3>1, AddedToByte, Zenon
    <3>3. QED BY <2>1, <2>2, <3>2, Sizes
  <2>4. QED BY <1>5, <2>1, <2>3, Sizes DEF y
<1>8. QED BY <1>3, <1>6, <1>7

\* Where the boot ROM is behind the index in port 0 and where it is not.
LEMMA BehindIs ==
  ASSUME TypeInv, NEW n \in Nat, spc.y = IndexOf(n + 1)
  PROVE  /\ io_vals[0] = spc.y => ~Behind
         /\ io_vals[0] = IndexOf(n) => ~Behind
         /\ io_vals[0] \in KicksAfter(n + 1) => Behind
<1> DEFINE y == spc.y
           b == io_vals[0]
<1>1. y \in Byte /\ b \in Byte
  BY DEF TypeInv, Ports
<1>2. ByteSize % ByteSize = 0
  <2>1. 0 % ByteSize = 0
    BY Sizes, SmallRemainder
  <2>2. QED BY <2>1, Sizes, AddedToByte
<1>3. CASE b = y
  <2>1. y + (ByteSize - b) = ByteSize
    BY <1>1, <1>3, Sizes DEF Byte
  <2>2. ~Behind
    BY <1>2, <2>1, Sizes DEF Behind, Negative, Load, Half
  <2>3. b # IndexOf(n) /\ b \notin KicksAfter(n + 1)
    <3>1. IndexOf(n + 1) # IndexOf(n)
      BY IndexIs, Sizes DEF Byte
    <3>2. QED BY <1>3, <3>1, KickIs
  <2>4. QED BY <2>2, <2>3
<1>4. CASE b = IndexOf(n)
  <2>1. y = IF b = ByteSize - 1 THEN 0 ELSE b + 1
    BY <1>4, IndexIs
  <2>2. y + (ByteSize - b) = ByteSize + 1 \/ y + (ByteSize - b) = 1
    BY <1>1, <2>1, Sizes DEF Byte
  <2>3. 1 % ByteSize = 1
    BY Sizes, SmallRemainder
  <2>4. (1 + ByteSize) % ByteSize = 1
    BY <2>3, Sizes, AddedToByte
  <2>5. ByteSize + 1 = 1 + ByteSize
    BY Sizes
  <2>6. (y + (ByteSize - b)) % ByteSize = 1
    BY <2>2, <2>3, <2>4, <2>5
  <2>7. ~Behind
    BY <2>6, Sizes DEF Behind, Negative, Load, Half
  <2>8. b \notin KicksAfter(n + 1)
    BY <1>4, KickIs
  <2>9. b # y
    BY <1>1, <2>1, Sizes DEF Byte
  <2>10. QED BY <2>7, <2>8, <2>9
<1>5. CASE b \in KicksAfter(n + 1)
  <2>1. /\ b # IndexOf(n) /\ b # y
        /\ (y + (ByteSize - b)) % ByteSize \in Half..(ByteSize - 1)
    BY <1>5, KickIs
  <2>2. Behind
    BY <2>1, Sizes DEF Behind, Negative, Load, Half
  <2>3. QED BY <2>1, <2>2
<1>6. QED BY <1>3, <1>4, <1>5

-----------------------------------------------------------------------------
(* Uploads, addresses and their two bytes.                                 *)

LEMMA Squares ==
  /\ ByteSize * ByteSize \in Nat \ {0}
  /\ \A q \in Nat : q >= ByteSize => ByteSize * q >= ByteSize * ByteSize /\ ByteSize * q \in Nat
<1>1. ByteSize \in Nat \ {0}
  BY ByteAssumption
<1>2. ByteSize * ByteSize \in Nat \ {0}
  <2>1. \A a, b \in Nat \ {0} : a * b \in Nat \ {0}
    OBVIOUS
  <2>2. QED BY <1>1, <2>1
<1>3. ASSUME NEW q \in Nat, q >= ByteSize
      PROVE  ByteSize * q >= ByteSize * ByteSize /\ ByteSize * q \in Nat
  <2>1. ByteSize * ByteSize <= q * ByteSize
    BY <1>1, <1>3, ProductLeq
  <2>2. q * ByteSize = ByteSize * q /\ ByteSize * q \in Nat
    BY <1>1
  <2>3. QED BY <1>2, <2>1, <2>2
<1>4. QED BY <1>2, <1>3

LEMMA AddressBytes ==
  ASSUME NEW w \in Word
  PROVE  w % ByteSize \in Byte /\ w \div ByteSize \in Byte
         /\ (w % ByteSize) + ByteSize * (w \div ByteSize) = w
<1> DEFINE q == w \div ByteSize
           r == w % ByteSize
<1>1. ByteSize \in Nat \ {0} /\ ByteSize * ByteSize \in Nat
  BY Sizes, Squares
<1>2. w \in Nat /\ w < ByteSize * ByteSize
  BY <1>1 DEF Word
<1>3. r \in 0..(ByteSize - 1) /\ q \in Nat /\ w = ByteSize * q + r
  BY <1>1, <1>2, Division
<1> HIDE DEF q, r
<1>4. ByteSize * q \in Nat
  BY <1>1, <1>3
<1>5. q < ByteSize
  <2> SUFFICES ASSUME ~(q < ByteSize) PROVE FALSE
    OBVIOUS
  <2>1. q >= ByteSize
    BY <1>1, <1>3
  <2>2. ByteSize * q >= ByteSize * ByteSize
    BY <1>3, <2>1, Squares
  <2>3. QED BY <1>1, <1>2, <1>3, <1>4, <2>2
<1>6. q \in Byte /\ r \in Byte /\ r + ByteSize * q = w
  BY <1>1, <1>3, <1>4, <1>5 DEF Byte
<1>7. QED BY <1>6 DEF q, r

\* Addresses below the size of the memory stay what they are, all others
\* become such.
LEMMA WordsWrap ==
  /\ \A n \in Nat : n % (ByteSize * ByteSize) \in Word
  /\ \A n \in Word : n % (ByteSize * ByteSize) = n
<1>1. ByteSize * ByteSize \in Nat \ {0}
  BY Squares
<1> DEFINE W == ByteSize * ByteSize
<1> HIDE DEF W
<1>2. \A n \in Nat : n % W \in 0..(W - 1)
  BY <1>1, Division DEF W
<1>3. \A n \in 0..(W - 1) : n % W = n
  BY <1>1, SmallRemainder DEF W
<1>4. QED BY <1>2, <1>3 DEF W, Word

LEMMA WordsAreNat == Word \subseteq Nat
BY Squares DEF Word

LEMMA UploadIs ==
  ASSUME TypeInv
  PROVE  /\ upload.entry \in Word /\ Len(Blocks) \in Nat \ {0}
         /\ \A k \in Nat \ {0} : k <= Len(Blocks) =>
              /\ Data(k) \in Seq(Byte) /\ Len(Data(k)) \in Nat \ {0}
              /\ Blocks[k].dest \in Word
              /\ \A n \in Nat : n < Len(Data(k)) => /\ Data(k)[n + 1] \in Byte
                                                   /\ Blocks[k].dest + n \in Word
<1>1. /\ upload.entry \in Word /\ Blocks \in Seq(BlockType) /\ Blocks # <<>>
      /\ \A k \in 1..Len(Blocks) :
           Data(k) # <<>> /\ Blocks[k].dest + Len(Data(k)) - 1 \in Word
  BY IplAssumption DEF TypeInv, Blocks, Data
<1>2. Len(Blocks) \in Nat \ {0}
  BY <1>1
<1>3. ASSUME NEW k \in Nat \ {0}, k <= Len(Blocks)
      PROVE  /\ Data(k) \in Seq(Byte) /\ Len(Data(k)) \in Nat \ {0}
             /\ Blocks[k].dest \in Word
             /\ \A n \in Nat : n < Len(Data(k)) => /\ Data(k)[n + 1] \in Byte
                                                  /\ Blocks[k].dest + n \in Word
  <2>1. k \in 1..Len(Blocks) /\ Blocks[k] \in BlockType
    BY <1>1, <1>2, <1>3
  <2>2. Data(k) \in Seq(Byte) /\ Blocks[k].dest \in Word
    BY <2>1 DEF BlockType, Data
  <2>3. Data(k) # <<>> /\ Blocks[k].dest + Len(Data(k)) - 1 \in Word
    BY <1>1, <2>1
  <2>4. Len(Data(k)) \in Nat \ {0}
    BY <2>2, <2>3
  <2>5. ASSUME NEW n \in Nat, n < Len(Data(k))
        PROVE  Data(k)[n + 1] \in Byte /\ Blocks[k].dest + n \in Word
    <3>1. n + 1 \in 1..Len(Data(k))
      BY <2>4, <2>5
    <3>2. Data(k)[n + 1] \in Byte
      BY <2>2, <3>1
    <3>3. Blocks[k].dest \in Nat /\ ByteSize * ByteSize \in Nat
      BY <2>2, Squares, WordsAreNat
    <3>4. Blocks[k].dest + n \in Word
      BY <2>3, <2>4, <2>5, <3>3 DEF Word
    <3>5. QED BY <3>2, <3>4
  <2>6. QED BY <2>2, <2>4, <2>5
<1>4. QED BY <1>1, <1>2, <1>3

-----------------------------------------------------------------------------
(* The uploader's steps.                                                   *)

LEMMA AddrOfIs ==
  ASSUME IInv PROVE AddrOf \in Word /\ AddrOf % ByteSize \in Byte /\ AddrOf \div ByteSize \in Byte
<1>1. AddrOf \in Word
  BY UploadIs DEF IInv, TypeInv, SenderInv, AddrOf, Finished, Block, Blocks
<1>2. QED BY <1>1, AddressBytes

LEMMA SentIs ==
  ASSUME IInv, ~Finished
  PROVE  /\ Block = Blocks[cpu.block] /\ Block.data = Data(cpu.block) /\ Len(Block.data) \in Nat \ {0}
         /\ Block.dest \in Word
         /\ cpu.off < Len(Block.data) => Block.data[cpu.off + 1] \in Byte /\ Block.dest + cpu.off \in Word
<1>1. Block = Blocks[cpu.block] /\ Block.data = Data(cpu.block)
  BY DEF Block, Blocks, Data
<1>2. cpu.block \in Nat \ {0} /\ cpu.off \in Nat /\ Len(Blocks) \in Nat /\ TypeInv
  BY UploadIs DEF IInv, TypeInv
<1>3. cpu.block <= Len(Blocks)
  BY <1>2 DEF Finished, Blocks
<1>4. QED BY <1>1, <1>2, <1>3, UploadIs

LEMMA BeforeIs ==
  ASSUME IInv, cpu.block > 1 PROVE Before \in Nat \ {0}
<1>1. cpu.block - 1 \in Nat \ {0} /\ cpu.block - 1 <= Len(Blocks) /\ TypeInv
  BY UploadIs DEF IInv, TypeInv, SenderInv
<1>2. QED BY <1>1, UploadIs DEF Before

LEMMA SameBlock ==
  ASSUME upload' = upload, cpu'.block = cpu.block
  PROVE  /\ Blocks' = Blocks /\ (Finished' <=> Finished) /\ Block' = Block
         /\ AddrOf' = AddrOf /\ Before' = Before
<1>1. Blocks' = Blocks /\ (Finished' <=> Finished) /\ Block' = Block /\ Before' = Before
  BY DEF Blocks, Finished, Block, Before, Data
<1>2. AddrOf' = AddrOf
  BY <1>1 DEF AddrOf
<1>3. QED BY <1>1, <1>2

LEMMA CpuBootKeeps ==
  ASSUME IInv, CpuBoot PROVE IInv'
<1>1. /\ cpu.pc = "boot" /\ cpu' = [cpu EXCEPT !.pc = "dest"]
      /\ io_vals' = io_vals /\ out' = out
      /\ UNCHANGED <<spc, ram, upload, block, off, entered>>
  BY DEF CpuBoot, Cpu, ports, Outside
<1>2. TypeInv'
  BY <1>1 DEF IInv, TypeInv, CpuPcs, Opening, Sending, Ports
<1>3. SenderInv'
  BY <1>1 DEF IInv, TypeInv, Ports, SenderInv, Sending, Blocks, Finished, Block, Data, AddrOf, Before
<1>4. ReceiverInv'
  BY <1>1 DEF IInv, TypeInv, Ports, ReceiverInv, SameByte, LateSender, NextBlock, Acknowledged, Opening, Sending, place,
         Blocks, Data, Finished, Block, AddrOf, Before
<1>5. QED BY <1>2, <1>3, <1>4 DEF IInv

LEMMA CpuDestKeeps ==
  ASSUME IInv, CpuDest PROVE IInv'
<1>1. /\ cpu.pc = "dest" /\ cpu' = [cpu EXCEPT !.pc = "flag"] /\ out' = out
      /\ io_vals' = [io_vals EXCEPT ![2] = AddrOf % ByteSize, ![3] = AddrOf \div ByteSize]
      /\ UNCHANGED <<spc, ram, upload, block, off, entered>>
  BY DEF CpuDest, Cpu, StoreWord, Outside
<1>2. TypeInv'
  BY <1>1, AddrOfIs DEF IInv, TypeInv, CpuPcs, Opening, Sending, Ports
<1>3. SenderInv'
  BY <1>1 DEF IInv, TypeInv, Ports, SenderInv, Sending, Blocks, Finished, Block, Data, AddrOf, Before
<1>4. ReceiverInv'
  BY <1>1 DEF IInv, TypeInv, Ports, ReceiverInv, SameByte, LateSender, NextBlock, Acknowledged, Opening, Sending, place,
         Blocks, Data, Finished, Block, AddrOf, Before
<1>5. QED BY <1>2, <1>3, <1>4 DEF IInv

LEMMA CpuFlagKeeps ==
  ASSUME IInv, CpuFlag PROVE IInv'
<1>1. PICK flag \in IF Finished THEN {0} ELSE Byte \ {0} :
             \/ cpu' = [cpu EXCEPT !.pc = "kick"] /\ io_vals' = [io_vals EXCEPT ![1] = flag]
             \/ /\ cpu' = [cpu EXCEPT !.pc = "await_kick"]
                /\ io_vals' = [io_vals EXCEPT ![0] = cpu.kick, ![1] = flag]
  BY DEF CpuFlag, Cpu, StorePort, StoreWord
<1>2. cpu.pc = "flag" /\ out' = out /\ UNCHANGED <<spc, ram, upload, block, off, entered>>
  BY DEF CpuFlag, Cpu, StorePort, StoreWord, Outside
<1>3. flag \in Byte /\ (flag = 0 <=> Finished)
  BY Sizes DEF Byte
<1>4. CASE cpu' = [cpu EXCEPT !.pc = "kick"] /\ io_vals' = [io_vals EXCEPT ![1] = flag]
  <2>1. TypeInv'
    BY <1>2, <1>3, <1>4 DEF IInv, TypeInv, CpuPcs, Opening, Ports
  <2>2. SenderInv'
    BY <1>2, <1>3, <1>4 DEF IInv, TypeInv, Ports, SenderInv, Sending, Blocks, Finished, Block, Data, AddrOf, Before
  <2>3. ReceiverInv'
    BY <1>2, <1>3, <1>4 DEF IInv, TypeInv, Ports, ReceiverInv, SameByte, LateSender, NextBlock, Acknowledged, Opening, Sending, place,
         Blocks, Data, Finished, Block, AddrOf, Before
  <2>4. QED BY <2>1, <2>2, <2>3 DEF IInv
<1>5. CASE cpu' = [cpu EXCEPT !.pc = "await_kick"] /\ io_vals' = [io_vals EXCEPT ![0] = cpu.kick, ![1] = flag]
  <2>1. TypeInv'
    BY <1>2, <1>3, <1>5 DEF IInv, TypeInv, CpuPcs, Opening, Ports
  <2>2. SenderInv'
    <3>1. cpu'.block = cpu.block /\ cpu'.off = cpu.off /\ cpu'.kick = cpu.kick /\ cpu'.pc = "await_kick"
      BY <1>5 DEF IInv, TypeInv
    <3>2. /\ Blocks' = Blocks /\ (Finished' <=> Finished) /\ Block' = Block
          /\ AddrOf' = AddrOf /\ Before' = Before
      BY <1>2, <3>1, SameBlock
    <3>3. /\ io_vals'[0] = cpu.kick /\ io_vals'[1] = flag
          /\ io_vals'[2] = io_vals[2] /\ io_vals'[3] = io_vals[3]
      BY <1>5 DEF IInv, TypeInv, Ports
    <3>4. QED BY <1>2, <1>3, <3>1, <3>2, <3>3 DEF IInv, SenderInv, Sending
  <2>3. ReceiverInv'
    BY <1>2, <1>3, <1>5 DEF IInv, TypeInv, Ports, ReceiverInv, SameByte, LateSender, NextBlock, Acknowledged, Opening, Sending, place,
         Blocks, Data, Finished, Block, AddrOf, Before
  <2>4. QED BY <2>1, <2>2, <2>3 DEF IInv
<1>6. QED BY <1>1, <1>4, <1>5

LEMMA CpuKickKeeps ==
  ASSUME IInv, CpuKick PROVE IInv'
<1>1. /\ cpu.pc = "kick" /\ cpu' = [cpu EXCEPT !.pc = "await_kick"] /\ out' = out
      /\ io_vals' = [io_vals EXCEPT ![0] = cpu.kick]
      /\ UNCHANGED <<spc, ram, upload, block, off, entered>>
  BY DEF CpuKick, Cpu, StorePort, Outside
<1>2. TypeInv'
  BY <1>1 DEF IInv, TypeInv, CpuPcs, Opening, Sending, Ports
<1>3. SenderInv'
  BY <1>1 DEF IInv, TypeInv, Ports, SenderInv, Sending, Blocks, Finished, Block, Data, AddrOf, Before
<1>4. ReceiverInv'
  BY <1>1 DEF IInv, TypeInv, Ports, ReceiverInv, SameByte, LateSender, NextBlock, Acknowledged, Opening, Sending, place,
         Blocks, Data, Finished, Block, AddrOf, Before
<1>5. QED BY <1>2, <1>3, <1>4 DEF IInv

LEMMA CpuAwaitKickKeeps ==
  ASSUME IInv, CpuAwaitKick PROVE IInv'
<1>1. /\ cpu.pc = "await_kick" /\ out[0] = cpu.kick
      /\ cpu' = [cpu EXCEPT !.pc = IF Finished THEN "done" ELSE "data"]
      /\ io_vals' = io_vals /\ out' = out
      /\ UNCHANGED <<spc, ram, upload, block, off, entered>>
  BY DEF CpuAwaitKick, Cpu, ReadPort, ports, Outside
<1>2. spc.pc \in {"recv", "left"}
  <2>1. cpu.block > 1 => cpu.kick # IndexOf(Before - 1) /\ cpu.kick # IndexOf(Before)
    <3> SUFFICES ASSUME cpu.block > 1 PROVE cpu.kick # IndexOf(Before - 1) /\ cpu.kick # IndexOf(Before)
      OBVIOUS
    <3>1. Before \in Nat \ {0}
      BY BeforeIs
    <3>2. Before - 1 \in Nat /\ (Before - 1) + 1 = Before
      BY <3>1
    <3>3. cpu.kick \in KicksAfter(Before)
      BY DEF IInv, TypeInv, SenderInv
    <3>4. QED BY <3>2, <3>3, KickIs
  <2>2. StartMark # 0 /\ StartMark # Ready[1]
    BY IplAssumption
  <2>3. spc.pc \notin {"ready0", "ready1", "wait_start", "start", "kick", "echo", "take", "ack"}
    BY <1>1, <2>2 DEF IInv, SenderInv, ReceiverInv
  <2>4. spc.pc \notin {"loop", "again"}
    BY <1>1, <2>1 DEF IInv, ReceiverInv, SameByte, LateSender, NextBlock, Sending
  <2>5. spc.pc # "put"
    <3> SUFFICES ASSUME spc.pc = "put" PROVE FALSE
      OBVIOUS
    <3>1. off + 1 = Len(Data(block)) /\ cpu.block = block + 1 /\ out[0] = IndexOf(off)
      BY <1>1 DEF IInv, ReceiverInv, Acknowledged, Sending
    <3>2. block \in Nat \ {0} /\ off \in Nat
      BY DEF IInv, TypeInv
    <3>3. Before = off + 1 /\ Before - 1 = off /\ cpu.block > 1
      BY <3>1, <3>2 DEF Before
    <3>4. QED BY <1>1, <2>1, <3>1, <3>3
  <2>6. QED BY <2>3, <2>4, <2>5 DEF IInv, TypeInv, SpcPcs
<1>3. CASE Finished
  <2>1. cpu' = [cpu EXCEPT !.pc = "done"]
    BY <1>1, <1>3
  <2>2. TypeInv'
    BY <1>1, <2>1 DEF IInv, TypeInv, CpuPcs
  <2>3. SenderInv'
    <3>1. cpu'.block = cpu.block /\ cpu'.off = cpu.off /\ cpu'.kick = cpu.kick /\ cpu'.pc = "done"
      BY <2>1 DEF IInv, TypeInv
    <3>2. /\ Blocks' = Blocks /\ (Finished' <=> Finished) /\ Block' = Block
          /\ AddrOf' = AddrOf /\ Before' = Before
      BY <1>1, <3>1, SameBlock
    <3>3. QED BY <1>1, <1>3, <3>1, <3>2 DEF IInv, SenderInv, Sending
  <2>4. ReceiverInv'
    BY <1>1, <1>2, <1>3, <2>1 DEF IInv, TypeInv, ReceiverInv, SameByte, LateSender, NextBlock, Acknowledged, Opening, Sending, place,
         Blocks, Data, Finished, Block, AddrOf, Before
  <2>5. QED BY <2>2, <2>3, <2>4 DEF IInv
<1>4. CASE ~Finished
  <2>1. cpu' = [cpu EXCEPT !.pc = "data"]
    BY <1>1, <1>4
  <2>2. TypeInv'
    BY <1>1, <2>1 DEF IInv, TypeInv, CpuPcs, Sending
  <2>3. SenderInv'
    <3>1. cpu'.block = cpu.block /\ cpu'.off = cpu.off /\ cpu'.kick = cpu.kick /\ cpu'.pc = "data"
      BY <2>1 DEF IInv, TypeInv
    <3>2. /\ Blocks' = Blocks /\ (Finished' <=> Finished) /\ Block' = Block
          /\ AddrOf' = AddrOf /\ Before' = Before
      BY <1>1, <3>1, SameBlock
    <3>3. cpu.off = 0 /\ Len(Block.data) \in Nat \ {0} /\ 0 < Len(Block.data)
      BY <1>1, <1>4, SentIs DEF IInv, SenderInv, Sending
    <3>4. QED BY <1>1, <1>4, <3>1, <3>2, <3>3 DEF IInv, SenderInv, Sending
  <2>4. ReceiverInv'
    BY <1>1, <1>2, <1>4, <2>1 DEF IInv, TypeInv, ReceiverInv, SameByte, LateSender, NextBlock, Acknowledged, Opening, Sending, place,
         Blocks, Data, Finished, Block, AddrOf, Before
  <2>5. QED BY <2>2, <2>3, <2>4 DEF IInv
<1>5. QED BY <1>3, <1>4

LEMMA CpuDataKeeps ==
  ASSUME IInv, CpuData PROVE IInv'
<1> DEFINE byte == Block.data[cpu.off + 1]
<1>1. \/ cpu' = [cpu EXCEPT !.pc = "index"] /\ io_vals' = [io_vals EXCEPT ![1] = byte]
      \/ /\ cpu' = [cpu EXCEPT !.pc = "await_byte"]
         /\ io_vals' = [io_vals EXCEPT ![0] = IndexOf(cpu.off), ![1] = byte]
  BY DEF CpuData, Cpu, StorePort, StoreWord
<1>2. cpu.pc = "data" /\ out' = out /\ UNCHANGED <<spc, ram, upload, block, off, entered>>
  BY DEF CpuData, Cpu, StorePort, StoreWord, Outside
<1>3. Block.data[cpu.off + 1] \in Byte /\ IndexOf(cpu.off) \in Byte
  BY <1>2, SentIs, IndexIs DEF IInv, TypeInv, SenderInv, Sending
<1>4. cpu'.block = cpu.block /\ cpu'.off = cpu.off /\ cpu'.kick = cpu.kick
  BY <1>1 DEF IInv, TypeInv
<1>5. /\ Blocks' = Blocks /\ (Finished' <=> Finished) /\ Block' = Block
      /\ AddrOf' = AddrOf /\ Before' = Before
  BY <1>2, <1>4, SameBlock
<1> HIDE DEF byte
<1>6. TypeInv'
  BY <1>1, <1>2, <1>3 DEF IInv, TypeInv, CpuPcs, Sending, Ports, byte
<1>7. SenderInv'
  <2>1. /\ cpu'.pc \in {"index", "await_byte"} /\ io_vals'[1] = Block.data[cpu.off + 1]
        /\ cpu'.pc = "await_byte" => io_vals'[0] = IndexOf(cpu.off)
        /\ cpu'.pc = "index" => io_vals'[0] = io_vals[0]
    BY <1>1 DEF IInv, TypeInv, Ports, byte
  <2>2. QED BY <1>2, <1>4, <1>5, <2>1 DEF IInv, SenderInv, Sending
<1>8. ReceiverInv'
  BY <1>1, <1>2, <1>3 DEF IInv, TypeInv, Ports, ReceiverInv, SameByte, LateSender, NextBlock,
     Acknowledged, Opening, Sending, place, Blocks, Data, Finished, Block, AddrOf, Before
<1>9. QED BY <1>6, <1>7, <1>8 DEF IInv

LEMMA CpuIndexKeeps ==
  ASSUME IInv, CpuIndex PROVE IInv'
<1>1. /\ cpu.pc = "index" /\ cpu' = [cpu EXCEPT !.pc = "await_byte"] /\ out' = out
      /\ io_vals' = [io_vals EXCEPT ![0] = IndexOf(cpu.off)]
      /\ UNCHANGED <<spc, ram, upload, block, off, entered>>
  BY DEF CpuIndex, Cpu, StorePort, Outside
<1>0. IndexOf(cpu.off) \in Byte
  BY IndexIs DEF IInv, TypeInv
<1>2. TypeInv'
  BY <1>1, <1>0 DEF IInv, TypeInv, CpuPcs, Opening, Sending, Ports
<1>3. SenderInv'
  BY <1>1, <1>0 DEF IInv, TypeInv, Ports, SenderInv, Sending, Blocks, Finished, Block, Data, AddrOf, Before
<1>4. ReceiverInv'
  BY <1>1, <1>0 DEF IInv, TypeInv, Ports, ReceiverInv, SameByte, LateSender, NextBlock, Acknowledged, Opening, Sending, place,
         Blocks, Data, Finished, Block, AddrOf, Before
<1>5. QED BY <1>2, <1>3, <1>4 DEF IInv

\* A byte is taken for acknowledged only when it is.
LEMMA AcknowledgedOnly ==
  ASSUME IInv, cpu.pc = "await_byte", out[0] = IndexOf(cpu.off)
  PROVE  \/ spc.pc \in {"loop", "again"} /\ LateSender
         \/ spc.pc = "put" /\ Acknowledged /\ place = <<cpu.block, cpu.off>>
<1>1. cpu.off \in Nat /\ cpu.kick # 0 /\ spc.pc \in SpcPcs
  BY DEF IInv, TypeInv, SenderInv
<1>2. ~SameByte
  <2> SUFFICES ASSUME SameByte PROVE FALSE
    OBVIOUS
  <2>1. off = cpu.off /\ out[0] = IF off = 0 THEN cpu.kick ELSE IndexOf(off - 1)
    BY DEF SameByte, place
  <2>2. CASE off = 0
    BY <1>1, <2>1, <2>2, IndexIs
  <2>3. CASE off # 0
    <3>1. off - 1 \in Nat /\ (off - 1) + 1 = off
      BY <1>1, <2>1, <2>3
    <3>2. IndexOf(off) # IndexOf(off - 1)
      BY <3>1, IndexIs, Sizes DEF Byte
    <3>3. QED BY <2>1, <2>3, <3>2
  <2>4. QED BY <2>2, <2>3
<1>3. spc.pc # "recv"
  BY <1>1, IndexIs DEF IInv, ReceiverInv
<1>4. ~NextBlock /\ spc.pc \notin {"ready0", "ready1", "wait_start", "start", "kick", "echo", "take", "ack", "left"}
  BY <1>2 DEF IInv, ReceiverInv, NextBlock, Opening
<1>5. spc.pc = "put" => Acknowledged /\ place = <<cpu.block, cpu.off>>
  <2>1. ASSUME Acknowledged, place # <<cpu.block, cpu.off>> PROVE FALSE
    <3>1. off + 1 = cpu.off /\ out[0] = IndexOf(off)
      BY <2>1 DEF Acknowledged, Opening
    <3>2. off \in Nat
      BY DEF IInv, TypeInv
    <3>3. IndexOf(off + 1) # IndexOf(off)
      BY <3>2, IndexIs, Sizes DEF Byte
    <3>4. QED BY <3>1, <3>3
  <2>2. QED BY <2>1 DEF IInv, ReceiverInv
<1>6. QED BY <1>1, <1>2, <1>3, <1>4, <1>5 DEF IInv, ReceiverInv, SpcPcs

LEMMA CpuAwaitByteKeeps ==
  ASSUME IInv, CpuAwaitByte PROVE IInv'
<1>1. /\ cpu.pc = "await_byte" /\ out[0] = IndexOf(cpu.off)
      /\ io_vals' = io_vals /\ out' = out /\ UNCHANGED <<spc, ram, upload, block, off, entered>>
  BY DEF CpuAwaitByte, ReadPort, ports, Outside
<1>2. /\ ~Finished /\ cpu.off < Len(Block.data) /\ cpu.off \in Nat /\ cpu.block \in Nat \ {0}
      /\ io_vals[0] = IndexOf(cpu.off)
  BY <1>1 DEF IInv, TypeInv, SenderInv, Sending
<1>3. \/ spc.pc \in {"loop", "again"} /\ LateSender
      \/ spc.pc = "put" /\ Acknowledged /\ place = <<cpu.block, cpu.off>>
  BY <1>1, AcknowledgedOnly
<1>4. CASE cpu.off + 1 < Len(Block.data)
  <2>1. cpu' = [cpu EXCEPT !.pc = "data", !.off = cpu.off + 1]
    BY <1>4 DEF CpuAwaitByte
  <2>2. TypeInv'
    <3>1. cpu \in [pc : CpuPcs, block : Nat \ {0}, off : Nat, kick : Byte] /\ cpu.off + 1 \in Nat
      BY <1>2 DEF IInv, TypeInv
    <3>2. cpu' \in [pc : CpuPcs, block : Nat \ {0}, off : Nat, kick : Byte]
      BY <2>1, <3>1 DEF CpuPcs, Sending
    <3>3. QED BY <1>1, <3>2 DEF IInv, TypeInv
  <2>3. cpu'.pc = "data" /\ cpu'.block = cpu.block /\ cpu'.off = cpu.off + 1 /\ cpu'.kick = cpu.kick
    BY <2>1 DEF IInv, TypeInv
  <2>4. /\ Blocks' = Blocks /\ (Finished' <=> Finished) /\ Block' = Block
        /\ AddrOf' = AddrOf /\ Before' = Before
    BY <1>1, <2>3, SameBlock
  <2>5. cpu'.off - 1 = cpu.off /\ cpu'.off # 0
    BY <1>2, <2>3
  <2>6. SenderInv'
    BY <1>1, <1>2, <1>4, <2>3, <2>4, <2>5 DEF IInv, SenderInv, Sending
  <2>7. CASE spc.pc \in {"loop", "again"} /\ LateSender
    <3>1. SameByte'
      BY <1>1, <1>4, <2>3, <2>4, <2>5, <2>7 DEF LateSender, SameByte, Sending, place
    <3>2. QED BY <1>1, <2>2, <2>6, <2>7, <3>1 DEF IInv, ReceiverInv
  <2>8. CASE spc.pc = "put" /\ Acknowledged /\ place = <<cpu.block, cpu.off>>
    <3>1. Block.data = Data(cpu.block)
      BY DEF Block, Data, Blocks
    <3>2. Acknowledged'
      BY <1>1, <1>4, <2>3, <2>4, <2>8, <3>1 DEF Acknowledged, Sending, place, Data
    <3>3. QED BY <1>1, <2>2, <2>6, <2>8, <3>2 DEF IInv, ReceiverInv
  <2>9. QED BY <1>3, <2>7, <2>8
<1>5. CASE ~(cpu.off + 1 < Len(Block.data))
  <2>1. PICK k \in KicksAfter(cpu.off + 1) :
          cpu' = [pc |-> "dest", block |-> cpu.block + 1, off |-> 0, kick |-> k]
    BY <1>5 DEF CpuAwaitByte
  <2>2. k \in Byte /\ k # 0
    BY <1>2, KickIs
  <2>3. TypeInv'
    BY <1>1, <1>2, <2>1, <2>2 DEF IInv, TypeInv, CpuPcs, Opening
  <2>4. cpu'.pc = "dest" /\ cpu'.block = cpu.block + 1 /\ cpu'.off = 0 /\ cpu'.kick = k
    BY <2>1
  <2>5. Len(Data(cpu.block)) = cpu.off + 1 /\ Block.data = Data(cpu.block)
    BY <1>2, <1>5, SentIs
  <2>6. Blocks' = Blocks /\ Before' = cpu.off + 1 /\ Before' - 1 = cpu.off /\ cpu'.block # 1
    <3>1. cpu'.block - 1 = cpu.block
      BY <1>2, <2>4
    <3>2. Blocks' = Blocks
      BY <1>1 DEF Blocks
    <3>3. Before' = Len(Data(cpu.block))
      BY <3>1, <3>2 DEF Before, Data
    <3>4. QED BY <1>2, <2>4, <2>5, <3>2, <3>3
  <2>7. SenderInv'
    <3>1. cpu.block <= Len(Blocks) /\ Len(Blocks) \in Nat
      BY <1>2, UploadIs DEF Finished, IInv, Blocks
    <3>2. QED BY <1>1, <1>2, <2>1, <2>2, <2>4, <2>6, <3>1 DEF SenderInv, Sending
  <2>8. CASE spc.pc \in {"loop", "again"} /\ LateSender
    <3>1. NextBlock'
      BY <1>1, <1>2, <1>5, <2>4, <2>6, <2>8 DEF LateSender, NextBlock, Opening, place
    <3>2. QED BY <1>1, <2>3, <2>7, <2>8, <3>1 DEF IInv, ReceiverInv
  <2>9. CASE spc.pc = "put" /\ Acknowledged /\ place = <<cpu.block, cpu.off>>
    <3>1. Acknowledged'
      BY <1>1, <2>4, <2>5, <2>6, <2>9 DEF Acknowledged, Opening, place, Data
    <3>2. QED BY <1>1, <2>3, <2>7, <2>9, <3>1 DEF IInv, ReceiverInv
  <2>10. QED BY <1>3, <2>8, <2>9
<1>6. QED BY <1>4, <1>5

-----------------------------------------------------------------------------
(* The steps of the boot ROM.                                              *)

\* They leave alone what the uploader is at.
LEMMA SpcKeepsSender ==
  ASSUME IInv, io_vals' = io_vals, cpu' = cpu, upload' = upload
  PROVE  /\ SenderInv'
         /\ Blocks' = Blocks /\ (Finished' <=> Finished) /\ Block' = Block
         /\ AddrOf' = AddrOf /\ Before' = Before
<1>1. /\ Blocks' = Blocks /\ (Finished' <=> Finished) /\ Block' = Block
      /\ AddrOf' = AddrOf /\ Before' = Before
  BY SameBlock
<1>2. SenderInv'
  BY <1>1 DEF IInv, SenderInv
<1>3. QED BY <1>1, <1>2

\* What the boot ROM finds when it compares its index with port 0: its own
\* index only if the byte is there, a kick only if the next block is.
LEMMA Compared ==
  ASSUME IInv, spc.pc \in {"loop", "again"}
  PROVE  /\ io_vals[0] = spc.y => SameByte /\ cpu.pc = "await_byte"
         /\ Behind => NextBlock /\ cpu.pc = "await_kick"
<1>1. SameByte \/ LateSender \/ NextBlock
  BY DEF IInv, ReceiverInv
<1>2. \A n \in Nat : IndexOf(n + 1) # IndexOf(n)
  <2>1. ASSUME NEW n \in Nat PROVE IndexOf(n + 1) # IndexOf(n)
    BY IndexIs, Sizes DEF Byte
  <2>2. QED BY <2>1
<1>3. cpu.off \in Nat /\ TypeInv
  BY DEF IInv, TypeInv
<1>4. CASE SameByte
  <2>1. off = cpu.off /\ cpu.pc \in Sending /\ spc.y = IndexOf(off) /\ (off = 0 => cpu.pc = "await_byte")
    BY <1>4 DEF SameByte, place
  <2>2. cpu.pc = "await_byte" => io_vals[0] = spc.y
    BY <2>1 DEF IInv, SenderInv
  <2>3. CASE off = 0
    <3>1. ByteSize - 1 \in Nat /\ (ByteSize - 1) + 1 = ByteSize
      BY Sizes
    <3>2. IndexOf(ByteSize) = 0
      <4>1. 0 % ByteSize = 0
        BY Sizes, SmallRemainder
      <4>2. QED BY <4>1, Sizes, AddedToByte DEF IndexOf
    <3>3. spc.y = IndexOf((ByteSize - 1) + 1)
      BY <2>1, <2>3, <3>1, <3>2, IndexIs
    <3>4. ~Behind
      BY <1>3, <2>1, <2>2, <2>3, <3>1, <3>3, BehindIs
    <3>5. QED BY <1>4, <2>1, <2>3, <3>4
  <2>4. CASE off # 0
    <3>1. off - 1 \in Nat /\ (off - 1) + 1 = off
      BY <1>3, <2>1, <2>4
    <3>2. spc.y = IndexOf((off - 1) + 1) /\ spc.y # IndexOf(off - 1)
      BY <1>2, <2>1, <3>1
    <3>3. cpu.pc # "await_byte" => io_vals[0] = IndexOf(off - 1)
      BY <2>1, <2>4 DEF IInv, SenderInv, Sending
    <3>4. ~Behind
      BY <1>3, <2>2, <3>1, <3>2, <3>3, BehindIs
    <3>5. QED BY <1>4, <2>1, <3>2, <3>3, <3>4
  <2>5. QED BY <2>3, <2>4
<1>5. CASE LateSender
  <2>1. io_vals[0] = IndexOf(cpu.off) /\ spc.y = IndexOf(cpu.off + 1)
    BY <1>5 DEF IInv, SenderInv, LateSender
  <2>2. ~Behind
    BY <1>3, <2>1, BehindIs
  <2>3. io_vals[0] # spc.y
    BY <1>2, <1>3, <2>1
  <2>4. QED BY <2>2, <2>3
<1>6. CASE NextBlock
  <2>1. Before \in Nat \ {0} /\ cpu.block # 1
    BY <1>3, <1>6, BeforeIs DEF NextBlock, TypeInv
  <2>2. Before - 1 \in Nat /\ (Before - 1) + 1 = Before
    BY <2>1
  <2>3. spc.y = IndexOf((Before - 1) + 1)
    BY <1>6, <2>2 DEF NextBlock
  <2>4. CASE cpu.pc = "await_kick"
    <3>1. io_vals[0] = cpu.kick /\ cpu.kick \in KicksAfter((Before - 1) + 1)
      BY <2>1, <2>2, <2>4 DEF IInv, SenderInv
    <3>2. cpu.kick # spc.y
      BY <2>2, <2>3, <3>1, KickIs
    <3>3. QED BY <1>6, <2>4, <3>1, <3>2
  <2>5. CASE cpu.pc # "await_kick"
    <3>1. io_vals[0] = IndexOf(Before - 1)
      BY <1>6, <2>1, <2>5 DEF IInv, SenderInv, NextBlock, Opening
    <3>2. ~Behind
      BY <1>3, <2>2, <2>3, <3>1, BehindIs
    <3>3. io_vals[0] # spc.y
      BY <1>2, <2>2, <2>3, <3>1
    <3>4. QED BY <3>2, <3>3
  <2>6. QED BY <2>4, <2>5
<1>7. QED BY <1>1, <1>4, <1>5, <1>6

LEMMA AnnounceKeeps ==
  ASSUME IInv, Announce PROVE IInv'
<1>1. /\ spc.pc \in {"ready0", "ready1"} /\ io_vals' = io_vals
      /\ UNCHANGED <<ram, cpu, upload, block, off, entered>>
      /\ \/ spc' = [spc EXCEPT !.pc = "ready1"] /\ out' = [out EXCEPT ![0] = Ready[1]]
         \/ spc' = [spc EXCEPT !.pc = "wait_start"] /\ out' = [out EXCEPT ![1] = Ready[2]]
  BY DEF Announce, Spc, Store, Inside
<1>2. Ready[1] \in Byte /\ Ready[2] \in Byte
  BY IplAssumption
<1>3. TypeInv'
  BY <1>1, <1>2 DEF IInv, TypeInv, SpcPcs, Ports
<1>4. SenderInv'
  BY <1>1, SpcKeepsSender
<1>5. spc'.pc \in {"ready1", "wait_start"} /\ out'[0] \in {out[0], Ready[1]}
  BY <1>1 DEF IInv, TypeInv, Ports
<1>6. ReceiverInv'
  BY <1>1, <1>5 DEF IInv, ReceiverInv, Opening, place
<1>7. QED BY <1>3, <1>4, <1>6 DEF IInv

LEMMA WaitStartKeeps ==
  ASSUME IInv, WaitStart PROVE IInv'
<1>1. /\ spc.pc = "wait_start" /\ io_vals[0] = StartMark /\ io_vals' = io_vals /\ out' = out
      /\ UNCHANGED <<ram, cpu, upload, block, off, entered>>
      /\ spc' = [spc EXCEPT !.pc = "start"]
  BY DEF WaitStart, Load, Spc, ports, Inside
<1>2. StartMark # 0 /\ StartMark # Ready[1]
  BY IplAssumption
<1>3. TypeInv'
  BY <1>1 DEF IInv, TypeInv, SpcPcs
<1>4. SenderInv'
  BY <1>1, SpcKeepsSender
<1>5. spc'.pc = "start"
  BY <1>1 DEF IInv, TypeInv
<1>6. cpu.pc = "await_kick" /\ place = <<cpu.block, 0>> /\ cpu.kick = StartMark /\ out[0] # cpu.kick
  BY <1>1, <1>2 DEF IInv, SenderInv, ReceiverInv, Opening
<1>7. ReceiverInv'
  BY <1>1, <1>5, <1>6 DEF IInv, ReceiverInv, place
<1>8. QED BY <1>3, <1>4, <1>7 DEF IInv

LEMMA TakeDestKeeps ==
  ASSUME IInv, TakeDest PROVE IInv'
<1>1. /\ spc.pc = "start" /\ io_vals' = io_vals /\ out' = out
      /\ UNCHANGED <<ram, cpu, upload, block, off, entered>>
      /\ spc' = [spc EXCEPT !.pc = "kick", !.ptr = io_vals[2] + ByteSize * io_vals[3]]
  BY DEF TakeDest, Load, ports, Inside
<1>2. /\ cpu.pc = "await_kick" /\ place = <<cpu.block, 0>> /\ out[0] # cpu.kick
  BY <1>1 DEF IInv, ReceiverInv
<1>3. io_vals[2] + ByteSize * io_vals[3] = AddrOf /\ AddrOf \in Word
  <2>1. io_vals[2] = AddrOf % ByteSize /\ io_vals[3] = AddrOf \div ByteSize
    BY <1>2 DEF IInv, SenderInv
  <2>2. AddrOf \in Word
    BY AddrOfIs
  <2>3. QED BY <2>1, <2>2, AddressBytes, Zenon
<1>4. spc' = [spc EXCEPT !.pc = "kick", !.ptr = AddrOf]
  BY <1>1, <1>3
<1>5. TypeInv'
  BY <1>1, <1>3, <1>4 DEF IInv, TypeInv, SpcPcs
<1>6. SenderInv' /\ AddrOf' = AddrOf
  BY <1>1, SpcKeepsSender
<1>7. spc'.pc = "kick" /\ spc'.ptr = AddrOf
  BY <1>4 DEF IInv, TypeInv
<1>8. ReceiverInv'
  BY <1>1, <1>2, <1>6, <1>7 DEF IInv, ReceiverInv, place
<1>9. QED BY <1>5, <1>6, <1>8 DEF IInv

LEMMA TakeKickKeeps ==
  ASSUME IInv, TakeKick PROVE IInv'
<1>1. /\ spc.pc = "kick" /\ io_vals' = io_vals /\ out' = out
      /\ UNCHANGED <<ram, cpu, upload, block, off, entered>>
      /\ spc' = [spc EXCEPT !.pc = "echo", !.a = io_vals[0], !.y = io_vals[1]]
  BY DEF TakeKick, Load, ports, Inside
<1>2. TypeInv'
  <2>1. io_vals[0] \in Byte /\ io_vals[1] \in Byte
    BY DEF IInv, TypeInv, Ports
  <2>2. QED BY <1>1, <2>1 DEF IInv, TypeInv, SpcPcs
<1>3. SenderInv' /\ AddrOf' = AddrOf /\ (Finished' <=> Finished)
  BY <1>1, SpcKeepsSender
<1>4. spc'.pc = "echo" /\ spc'.ptr = spc.ptr /\ spc'.a = io_vals[0] /\ spc'.y = io_vals[1]
  BY <1>1 DEF IInv, TypeInv
<1>5. /\ cpu.pc = "await_kick" /\ place = <<cpu.block, 0>> /\ out[0] # cpu.kick
      /\ io_vals[0] = cpu.kick /\ (io_vals[1] = 0 <=> Finished) /\ spc.ptr = AddrOf
  BY <1>1 DEF IInv, SenderInv, ReceiverInv
<1>6. ReceiverInv'
  BY <1>1, <1>3, <1>4, <1>5 DEF IInv, ReceiverInv, place
<1>7. QED BY <1>2, <1>3, <1>6 DEF IInv

LEMMA EchoKeeps ==
  ASSUME IInv, Echo PROVE IInv'
<1>1. /\ spc.pc = "echo" /\ io_vals' = io_vals /\ out' = [out EXCEPT ![0] = spc.a]
      /\ UNCHANGED <<ram, cpu, upload, block, off>>
      /\ spc' = [spc EXCEPT !.pc = IF spc.y # 0 THEN "recv" ELSE "left"]
      /\ entered' = IF spc.y # 0 THEN entered ELSE spc.ptr
  BY DEF Echo, Store, place
<1>2. /\ cpu.pc = "await_kick" /\ place = <<cpu.block, 0>> /\ spc.a = cpu.kick
      /\ (spc.y = 0 <=> Finished) /\ spc.ptr = AddrOf /\ entered = None
  BY <1>1 DEF IInv, ReceiverInv
<1>3. spc.a \in Byte /\ spc.ptr \in Word /\ spc.ptr # None
  BY IplAssumption DEF IInv, TypeInv
<1>4. TypeInv'
  BY <1>1, <1>3 DEF IInv, TypeInv, SpcPcs, Ports
<1>5. SenderInv' /\ Block' = Block /\ (Finished' <=> Finished)
  BY <1>1, SpcKeepsSender
<1>6. out'[0] = cpu.kick /\ spc'.pc = (IF spc.y # 0 THEN "recv" ELSE "left") /\ spc'.ptr = spc.ptr
  BY <1>1, <1>2 DEF IInv, TypeInv, Ports
<1>7. cpu.off = 0
  BY <1>2 DEF IInv, SenderInv, Sending
<1>8. ~Finished => AddrOf = Block.dest
  BY DEF AddrOf
<1>9. ReceiverInv'
  BY <1>1, <1>2, <1>3, <1>5, <1>6, <1>7, <1>8 DEF ReceiverInv, place
<1>10. QED BY <1>4, <1>5, <1>9 DEF IInv

LEMMA RecvKeeps ==
  ASSUME IInv, Recv PROVE IInv'
<1>1. /\ spc.pc = "recv" /\ io_vals' = io_vals /\ out' = out
      /\ UNCHANGED <<ram, cpu, upload, block, off, entered>>
      /\ spc' = [spc EXCEPT !.pc = IF io_vals[0] = 0 THEN "loop" ELSE "recv", !.y = io_vals[0]]
  BY DEF Recv, Load, ports, Inside
<1>2. TypeInv'
  <2>1. io_vals[0] \in Byte
    BY DEF IInv, TypeInv, Ports
  <2>2. QED BY <1>1, <2>1 DEF IInv, TypeInv, SpcPcs
<1>3. SenderInv' /\ Block' = Block /\ (Finished' <=> Finished)
  BY <1>1, SpcKeepsSender
<1>4. /\ spc'.pc = (IF io_vals[0] = 0 THEN "loop" ELSE "recv")
      /\ spc'.ptr = spc.ptr /\ spc'.y = io_vals[0]
  BY <1>1 DEF IInv, TypeInv
<1>5. /\ cpu.pc \in {"await_kick"} \cup Sending /\ ~Finished
      /\ cpu.off = 0 /\ place = <<cpu.block, 0>> /\ out[0] = cpu.kick /\ spc.ptr = Block.dest
      /\ entered = None
  BY <1>1 DEF IInv, ReceiverInv
<1>6. CASE io_vals[0] = 0
  <2>1. cpu.pc = "await_byte" /\ off = 0
    BY <1>5, <1>6 DEF IInv, SenderInv, Sending, place
  <2>2. Block.dest \in Nat
    BY <1>5, SentIs, WordsAreNat
  <2>3. spc.ptr + 0 = Block.dest + 0
    BY <1>5, <2>2
  <2>4. SameByte'
    BY <1>1, <1>3, <1>4, <1>5, <1>6, <2>1, <2>3, IndexIs DEF SameByte, Sending, place
  <2>5. QED BY <1>1, <1>2, <1>3, <1>4, <1>5, <1>6, <2>4 DEF IInv, ReceiverInv
<1>7. CASE io_vals[0] # 0
  <2>1. ReceiverInv'
    BY <1>1, <1>3, <1>4, <1>5, <1>7 DEF ReceiverInv, place
  <2>2. QED BY <1>2, <1>3, <2>1 DEF IInv
<1>8. QED BY <1>6, <1>7

LEMMA CompareKeeps ==
  ASSUME IInv, Compare PROVE IInv'
<1>1. /\ spc.pc = "loop" /\ io_vals' = io_vals /\ out' = out
      /\ UNCHANGED <<ram, cpu, upload, block, off, entered>>
      /\ spc' = [spc EXCEPT !.pc = IF io_vals[0] = spc.y THEN "take"
                                   ELSE IF Behind THEN "again" ELSE "loop"]
  BY DEF Compare, Load, ports, Inside
<1>2. TypeInv'
  BY <1>1 DEF IInv, TypeInv, SpcPcs
<1>3. /\ SenderInv' /\ Blocks' = Blocks /\ Block' = Block /\ Before' = Before
  BY <1>1, SpcKeepsSender
<1>4. /\ spc'.pc = (IF io_vals[0] = spc.y THEN "take" ELSE IF Behind THEN "again" ELSE "loop")
      /\ spc'.ptr = spc.ptr /\ spc'.y = spc.y /\ spc'.a = spc.a
  BY <1>1 DEF IInv, TypeInv
<1>5. SameByte \/ LateSender \/ NextBlock
  BY <1>1 DEF IInv, ReceiverInv
<1>6. io_vals[0] = spc.y => SameByte /\ cpu.pc = "await_byte"
  BY <1>1, Compared
<1>7. (SameByte' <=> SameByte) /\ (LateSender' <=> LateSender) /\ (NextBlock' <=> NextBlock)
  BY <1>1, <1>3, <1>4 DEF SameByte, LateSender, NextBlock, place
<1>8. ReceiverInv'
  BY <1>1, <1>4, <1>5, <1>6, <1>7 DEF IInv, ReceiverInv
<1>9. QED BY <1>2, <1>3, <1>8 DEF IInv

\* The byte in port 1 is the next one of the block.
LEMMA ByteHeld ==
  ASSUME IInv, spc.pc \in {"take", "ack"}
  PROVE  /\ cpu.pc = "await_byte" /\ place = <<cpu.block, cpu.off>>
         /\ block = cpu.block /\ off = cpu.off /\ ~Finished
         /\ block <= Len(Blocks) /\ off < Len(Data(block)) /\ Block = Blocks[block]
         /\ io_vals[1] = Data(block)[off + 1]
<1>1. cpu.pc = "await_byte" /\ place = <<cpu.block, cpu.off>>
  BY DEF IInv, ReceiverInv, SameByte
<1>2. block = cpu.block /\ off = cpu.off
  BY <1>1 DEF place
<1>3. ~Finished /\ cpu.off < Len(Block.data) /\ io_vals[1] = Block.data[cpu.off + 1]
  BY <1>1 DEF IInv, SenderInv, Sending
<1>4. cpu.block <= Len(Blocks)
  BY <1>3, UploadIs DEF IInv, TypeInv, Finished, Blocks
<1>5. QED BY <1>1, <1>2, <1>3, <1>4, SentIs

LEMMA TakeByteKeeps ==
  ASSUME IInv, TakeByte PROVE IInv'
<1>1. /\ spc.pc = "take" /\ io_vals' = io_vals /\ out' = out
      /\ UNCHANGED <<ram, cpu, upload, block, off, entered>>
      /\ spc' = [spc EXCEPT !.pc = "ack", !.a = io_vals[1]]
  BY DEF TakeByte, Load, ports, Inside
<1>2. TypeInv'
  <2>1. io_vals[1] \in Byte
    BY DEF IInv, TypeInv, Ports
  <2>2. QED BY <1>1, <2>1 DEF IInv, TypeInv, SpcPcs
<1>3. SenderInv' /\ Blocks' = Blocks /\ Block' = Block
  BY <1>1, SpcKeepsSender
<1>4. spc'.pc = "ack" /\ spc'.ptr = spc.ptr /\ spc'.y = spc.y /\ spc'.a = io_vals[1]
  BY <1>1 DEF IInv, TypeInv
<1>5. SameByte /\ cpu.pc = "await_byte" /\ io_vals[1] = Data(block)[off + 1]
  BY <1>1, ByteHeld DEF IInv, ReceiverInv
<1>6. SameByte'
  BY <1>1, <1>3, <1>4, <1>5 DEF SameByte, place
<1>7. ReceiverInv'
  BY <1>1, <1>3, <1>4, <1>5, <1>6 DEF IInv, ReceiverInv, Data
<1>8. QED BY <1>2, <1>3, <1>7 DEF IInv

LEMMA AcknowledgeKeeps ==
  ASSUME IInv, Acknowledge PROVE IInv'
<1>1. /\ spc.pc = "ack" /\ io_vals' = io_vals /\ out' = [out EXCEPT ![0] = spc.y]
      /\ UNCHANGED <<ram, cpu, upload, block, off, entered>>
      /\ spc' = [spc EXCEPT !.pc = "put"]
  BY DEF Acknowledge, Spc, Store, Inside
<1>2. TypeInv'
  BY <1>1 DEF IInv, TypeInv, SpcPcs, Ports
<1>3. SenderInv' /\ Blocks' = Blocks /\ Block' = Block
  BY <1>1, SpcKeepsSender
<1>4. /\ spc'.pc = "put" /\ spc'.ptr = spc.ptr /\ spc'.y = spc.y /\ spc'.a = spc.a
      /\ out'[0] = spc.y
  BY <1>1 DEF IInv, TypeInv, Ports
<1>5. SameByte /\ cpu.pc = "await_byte" /\ spc.a = Data(block)[off + 1] /\ entered = None
  BY <1>1 DEF IInv, ReceiverInv
<1>6. /\ place = <<cpu.block, cpu.off>> /\ Block = Blocks[block]
      /\ block <= Len(Blocks) /\ off < Len(Data(block))
  BY <1>1, ByteHeld
<1>7. Acknowledged'
  BY <1>1, <1>3, <1>4, <1>5, <1>6 DEF SameByte, Acknowledged, Data, place
<1>8. ReceiverInv'
  BY <1>1, <1>4, <1>5, <1>7 DEF ReceiverInv
<1>9. QED BY <1>2, <1>3, <1>8 DEF IInv

\* The byte goes where its block says, and the pointer with the index after
\* it is the address of the next one.
LEMMA PutByteIs ==
  ASSUME IInv, spc.pc = "put"
  PROVE  /\ block \in 1..Len(Blocks) /\ off \in Nat /\ off < Len(Data(block))
         /\ Data(block)[off + 1] \in Byte /\ spc.a = Data(block)[off + 1]
         /\ Blocks[block].dest + off \in Word
         /\ (spc.ptr + spc.y) % (ByteSize * ByteSize) = Blocks[block].dest + off
         /\ NextIndex = IndexOf(off + 1)
         /\ NextIndex # 0 => spc.ptr + NextIndex = Blocks[block].dest + off + 1
         /\ NextIndex = 0 => /\ NextPage \in Word
                             /\ off + 1 < Len(Data(block)) =>
                                  NextPage + NextIndex = Blocks[block].dest + off + 1
<1>1. /\ Acknowledged /\ block \in Nat \ {0} /\ off \in Nat /\ TypeInv
      /\ spc.y \in Byte /\ spc.ptr \in Word
  BY DEF IInv, TypeInv, ReceiverInv
<1>2. /\ block <= Len(Blocks) /\ off < Len(Data(block)) /\ spc.a = Data(block)[off + 1]
      /\ spc.y = IndexOf(off) /\ spc.ptr + spc.y = Blocks[block].dest + off
  BY <1>1 DEF Acknowledged
<1>3. /\ Blocks[block].dest \in Word /\ Data(block)[off + 1] \in Byte
      /\ Blocks[block].dest + off \in Word /\ Len(Blocks) \in Nat /\ Len(Data(block)) \in Nat
  BY <1>1, <1>2, UploadIs
<1>4. block \in 1..Len(Blocks)
  BY <1>1, <1>2, <1>3
<1>5. (spc.ptr + spc.y) % (ByteSize * ByteSize) = Blocks[block].dest + off
  BY <1>2, <1>3, WordsWrap
<1>6. NextIndex = IndexOf(off + 1) /\ NextIndex = IF spc.y = ByteSize - 1 THEN 0 ELSE spc.y + 1
  BY <1>1, <1>2, IndexIs DEF NextIndex
<1>7. spc.ptr \in Nat /\ Blocks[block].dest \in Nat /\ spc.y \in Nat
  <2>1. spc.ptr \in Nat /\ Blocks[block].dest \in Nat
    BY <1>1, <1>3, WordsAreNat, Zenon
  <2>2. spc.y \in Nat
    BY <1>1, Sizes DEF Byte
  <2>3. QED BY <2>1, <2>2
<1>8. NextIndex # 0 => spc.ptr + NextIndex = Blocks[block].dest + off + 1
  <2>1. NextIndex # 0 => NextIndex = spc.y + 1
    BY <1>6
  <2>2. spc.ptr + spc.y = Blocks[block].dest + off /\ off \in Nat
    BY <1>1, <1>2
  <2>3. QED BY <1>7, <2>1, <2>2
<1>9. ASSUME NextIndex = 0
      PROVE  /\ NextPage \in Word
             /\ off + 1 < Len(Data(block)) => NextPage + NextIndex = Blocks[block].dest + off + 1
  <2>1. spc.ptr + ByteSize \in Nat
    BY <1>7, Sizes
  <2>2. NextPage \in Word
    BY <2>1, WordsWrap DEF NextPage
  <2>3. ASSUME off + 1 < Len(Data(block))
        PROVE  NextPage + NextIndex = Blocks[block].dest + off + 1
    <3>1. off + 1 \in Nat
      BY <1>1
    <3>2. Blocks[block].dest + (off + 1) \in Word
      BY <1>1, <1>2, <2>3, <3>1, UploadIs
    <3>3. spc.y = ByteSize - 1
      BY <1>1, <1>6, <1>7, <1>9
    <3>4. spc.ptr + ByteSize = Blocks[block].dest + (off + 1)
      <4> DEFINE p == spc.ptr
                 d == Blocks[block].dest
                 y == spc.y
      <4>1. p + y = d + off /\ y = ByteSize - 1
        BY <1>2, <3>3
      <4>2. p \in Nat /\ d \in Nat /\ off \in Nat /\ ByteSize \in Nat
        BY <1>1, <1>7, Sizes
      <4> HIDE DEF p, d, y
      <4>3. p + ByteSize = d + (off + 1)
        BY <4>1, <4>2
      <4>4. QED BY <4>3 DEF p, d
    <3>5. NextPage = Blocks[block].dest + (off + 1)
      BY <3>2, <3>4, WordsWrap DEF NextPage
    <3>6. QED BY <1>1, <1>7, <1>9, <3>5
  <2>4. QED BY <2>2, <2>3
<1>10. QED BY <1>1, <1>2, <1>3, <1>4, <1>5, <1>6, <1>8, <1>9

LEMMA PutByteKeeps ==
  ASSUME IInv, PutByte PROVE IInv'
<1> DEFINE more == off + 1 < Len(Data(block))
<1>1. /\ spc.pc = "put" /\ io_vals' = io_vals /\ out' = out
      /\ UNCHANGED <<cpu, upload, entered>>
      /\ ram' = [ram EXCEPT ![(spc.ptr + spc.y) % (ByteSize * ByteSize)] = spc.a]
  BY DEF PutByte, ports
<1>2. /\ block \in 1..Len(Blocks) /\ off \in Nat /\ off < Len(Data(block))
      /\ NextIndex = IndexOf(off + 1)
      /\ NextIndex # 0 => spc.ptr + NextIndex = Blocks[block].dest + off + 1
      /\ NextIndex = 0 => /\ NextPage \in Word
                          /\ more => NextPage + NextIndex = Blocks[block].dest + off + 1
  BY <1>1, PutByteIs
<1>3. Acknowledged /\ entered = None /\ TypeInv
  BY <1>1 DEF IInv, ReceiverInv
<1>4. Len(Data(block)) \in Nat /\ Len(Blocks) \in Nat
  BY <1>2, <1>3, UploadIs
<1>5. IF more THEN block' = block /\ off' = off + 1 ELSE block' = block + 1 /\ off' = 0
  BY <1>2, <1>4 DEF PutByte, Data, Blocks
<1>6. NextIndex \in Byte
  BY <1>2, IndexIs
<1>7. /\ spc' \in [pc : {"loop", "again"}, y : Byte, a : Byte, ptr : Word]
      /\ spc'.y = NextIndex
      /\ more => spc'.ptr + spc'.y = Blocks[block].dest + (off + 1)
  <2>1. spc \in [pc : SpcPcs, y : Byte, a : Byte, ptr : Word]
    BY <1>3 DEF TypeInv
  <2>2. Blocks[block].dest \in Nat
    <3>1. block \in Nat \ {0} /\ block <= Len(Blocks)
      BY <1>2, <1>4
    <3>2. Blocks[block].dest \in Word
      BY <1>3, <3>1, UploadIs
    <3>3. QED BY <3>2, WordsAreNat, Zenon
  <2>3. Blocks[block].dest + off + 1 = Blocks[block].dest + (off + 1)
    BY <1>2, <2>2
  <2>4. CASE NextIndex # 0
    <3>1. spc' = [spc EXCEPT !.pc = "loop", !.y = NextIndex]
      BY <2>4 DEF PutByte
    <3>2. QED BY <1>2, <1>6, <2>1, <2>3, <2>4, <3>1
  <2>5. CASE NextIndex = 0
    <3>1. PICK pc \in {"loop", "again"} : spc' = [spc EXCEPT !.pc = pc, !.y = 0, !.ptr = NextPage]
      BY <2>5 DEF PutByte
    <3>2. QED BY <1>2, <1>6, <2>1, <2>3, <2>5, <3>1
  <2>6. QED BY <2>4, <2>5
<1>8. TypeInv'
  <2>1. ram' \in [Word -> Byte]
    BY <1>1, <1>3, PutByteIs DEF TypeInv
  <2>2. spc' \in [pc : SpcPcs, y : Byte, a : Byte, ptr : Word]
    BY <1>7 DEF SpcPcs
  <2>3. block' \in Nat \ {0} /\ off' \in Nat
    BY <1>2, <1>4, <1>5
  <2>4. QED BY <1>1, <1>3, <2>1, <2>2, <2>3 DEF TypeInv
<1>9. SenderInv' /\ Blocks' = Blocks /\ Block' = Block /\ Before' = Before
  BY <1>1, SpcKeepsSender
<1>10. out[0] = IndexOf(off) /\ cpu.block \in Nat \ {0}
  BY <1>3 DEF Acknowledged, TypeInv
<1>11. CASE cpu.pc = "await_byte" /\ place = <<cpu.block, cpu.off>>
  <2>1. block = cpu.block /\ off = cpu.off
    BY <1>11 DEF place
  <2>2. Block = Blocks[block] /\ Block.data = Data(block)
    BY <2>1 DEF Block, Blocks, Data
  <2>3. LateSender'
    BY <1>1, <1>2, <1>5, <1>7, <1>9, <1>10, <1>11, <2>1, <2>2 DEF LateSender, place
  <2>4. QED BY <1>1, <1>3, <1>7, <1>8, <1>9, <2>3 DEF IInv, ReceiverInv
<1>12. CASE cpu.pc \in Sending /\ more /\ <<cpu.block, cpu.off>> = <<block, off + 1>>
  <2>1. block = cpu.block /\ cpu.off = off + 1 /\ cpu.off # 0 /\ (off + 1) - 1 = off
    BY <1>2, <1>12
  <2>2. Block = Blocks[block]
    BY <2>1 DEF Block, Blocks
  <2>3. SameByte'
    BY <1>1, <1>2, <1>5, <1>7, <1>9, <1>10, <1>12, <2>1, <2>2 DEF SameByte, place
  <2>4. QED BY <1>1, <1>3, <1>7, <1>8, <1>9, <2>3 DEF IInv, ReceiverInv
<1>13. CASE cpu.pc \in Opening /\ off + 1 = Len(Data(block)) /\ cpu.block = block + 1
  <2>1. Before = off + 1 /\ Before - 1 = off /\ cpu.block > 1
    BY <1>2, <1>4, <1>13 DEF Before
  <2>2. ~more
    BY <1>13, <1>4
  <2>3. NextBlock'
    BY <1>1, <1>2, <1>5, <1>7, <1>9, <1>10, <1>13, <2>1, <2>2 DEF NextBlock, place
  <2>4. QED BY <1>1, <1>3, <1>7, <1>8, <1>9, <2>3 DEF IInv, ReceiverInv
<1>14. QED BY <1>3, <1>11, <1>12, <1>13 DEF Acknowledged

LEMMA CompareAgainKeeps ==
  ASSUME IInv, CompareAgain PROVE IInv'
<1>1. /\ spc.pc = "again" /\ io_vals' = io_vals /\ out' = out
      /\ UNCHANGED <<ram, cpu, upload, block, off, entered>>
      /\ spc' = [spc EXCEPT !.pc = IF Behind THEN "start" ELSE "loop"]
  BY DEF CompareAgain, ports, Inside
<1>2. TypeInv'
  BY <1>1 DEF IInv, TypeInv, SpcPcs
<1>3. SenderInv' /\ Blocks' = Blocks /\ Block' = Block /\ Before' = Before
  BY <1>1, SpcKeepsSender
<1>4. /\ spc'.pc = (IF Behind THEN "start" ELSE "loop")
      /\ spc'.ptr = spc.ptr /\ spc'.y = spc.y /\ spc'.a = spc.a
  BY <1>1 DEF IInv, TypeInv
<1>5. (SameByte \/ LateSender \/ NextBlock) /\ entered = None
  BY <1>1 DEF IInv, ReceiverInv
<1>6. (SameByte' <=> SameByte) /\ (LateSender' <=> LateSender) /\ (NextBlock' <=> NextBlock)
  BY <1>1, <1>3, <1>4 DEF SameByte, LateSender, NextBlock, place
<1>7. CASE Behind
  <2>1. NextBlock /\ cpu.pc = "await_kick"
    BY <1>1, <1>7, Compared
  <2>2. cpu.block > 1 /\ out[0] = IndexOf(Before - 1) /\ place = <<cpu.block, 0>>
    BY <2>1 DEF NextBlock
  <2>3. cpu.kick \in KicksAfter(Before) /\ Before \in Nat \ {0}
    BY <2>2, BeforeIs DEF IInv, SenderInv
  <2>4. Before - 1 \in Nat /\ (Before - 1) + 1 = Before
    BY <2>3
  <2>5. out[0] # cpu.kick
    BY <2>2, <2>3, <2>4, KickIs
  <2>6. ReceiverInv'
    BY <1>1, <1>4, <1>5, <1>7, <2>1, <2>2, <2>5 DEF ReceiverInv, place
  <2>7. QED BY <1>2, <1>3, <2>6 DEF IInv
<1>8. CASE ~Behind
  <2>1. ReceiverInv'
    BY <1>1, <1>4, <1>5, <1>6, <1>8 DEF ReceiverInv
  <2>2. QED BY <1>2, <1>3, <2>1 DEF IInv
<1>9. QED BY <1>7, <1>8

-----------------------------------------------------------------------------
(* The theorems.                                                           *)

LEMMA InitInv == Init => IInv
<1> SUFFICES ASSUME Init PROVE IInv
  OBVIOUS
<1>1. /\ io_vals = [q \in Ports |-> 0] /\ out = [q \in Ports |-> 0]
      /\ spc = [pc |-> "ready0", y |-> 0, a |-> 0, ptr |-> 0] /\ ram = [a \in Word |-> 0]
      /\ cpu = [pc |-> "boot", block |-> 1, off |-> 0, kick |-> StartMark]
      /\ upload \in Uploads /\ block = 1 /\ off = 0 /\ entered = None
  BY DEF Init, Zeroes
<1>2. 0 \in Byte /\ 0 \in Word /\ StartMark \in Byte /\ StartMark # 0
  BY IplAssumption, Sizes, Squares DEF Byte, Word
<1>3. TypeInv
  BY <1>1, <1>2 DEF TypeInv, SpcPcs, CpuPcs
<1>4. Len(Blocks) \in Nat
  BY <1>3, UploadIs
<1>5. SenderInv
  BY <1>1, <1>2, <1>4 DEF SenderInv, Sending, Ports
<1>6. ReceiverInv
  BY <1>1, <1>2 DEF ReceiverInv, Opening, Ports, place
<1>7. QED BY <1>3, <1>5, <1>6 DEF IInv

LEMMA StepInv == IInv /\ [Next]_vars => IInv'
<1> SUFFICES ASSUME IInv, [Next]_vars PROVE IInv'
  OBVIOUS
<1>1. CASE SpcStep
  BY <1>1, AnnounceKeeps, WaitStartKeeps, TakeDestKeeps, TakeKickKeeps, EchoKeeps, RecvKeeps,
     CompareKeeps, TakeByteKeeps, AcknowledgeKeeps, PutByteKeeps, CompareAgainKeeps DEF SpcStep
<1>2. CASE CpuStep
  BY <1>2, CpuBootKeeps, CpuDestKeeps, CpuFlagKeeps, CpuKickKeeps, CpuAwaitKickKeeps,
     CpuDataKeeps, CpuIndexKeeps, CpuAwaitByteKeeps DEF CpuStep
<1>3. CASE UNCHANGED vars
  BY <1>3 DEF vars, IInv, TypeInv, SenderInv, ReceiverInv, SameByte, LateSender, NextBlock,
     Acknowledged, Blocks, Data, Finished, Block, AddrOf, Before, place
<1>4. QED BY <1>1, <1>2, <1>3 DEF Next

LEMMA InvAlways == Spec => []IInv
BY InitInv, StepInv, PTL DEF Spec

\* DataHeld, for every size of a byte and every upload: when the boot ROM
\* takes a byte, port 1 holds that of the place it is at, and the uploader
\* waits for it to be acknowledged.
THEOREM UploadDataHeld == Spec => []DataHeld
<1>1. IInv => DataHeld
  <2> SUFFICES ASSUME IInv, spc.pc = "take"
               PROVE  /\ Load(1) = upload.blocks[block].data[off + 1]
                      /\ cpu.pc = "await_byte" /\ <<cpu.block, cpu.off>> = place
    BY DEF DataHeld
  <2>1. QED BY ByteHeld DEF Load, Data, Blocks
<1>2. QED BY <1>1, InvAlways, PTL

\* UploadArrives, for every size of a byte and every upload: what the two
\* processors do implements the abstract upload, in which the bytes arrive
\* one after the other where they belong and the program is entered at last.
THEOREM UploadImplemented == Spec => UploadArrives
<1>1. Init => Transfer!Begin
  BY DEF Init, Transfer!Begin
<1>2. IInv /\ [Next]_vars => [Transfer!Arrive \/ Transfer!Enter]_(Transfer!uvars)
  <2> SUFFICES ASSUME IInv, [Next]_vars
               PROVE  Transfer!Arrive \/ Transfer!Enter \/ UNCHANGED Transfer!uvars
    OBVIOUS
  <2>1. ASSUME PutByte PROVE Transfer!Arrive
    <3>1. /\ spc.pc = "put" /\ UNCHANGED <<upload, entered>>
          /\ ram' = [ram EXCEPT ![(spc.ptr + spc.y) % (ByteSize * ByteSize)] = spc.a]
          /\ IF off + 1 = Len(upload.blocks[block].data)
               THEN block' = block + 1 /\ off' = 0
               ELSE block' = block /\ off' = off + 1
      BY <2>1 DEF PutByte
    <3>2. /\ block \in 1..Len(Blocks) /\ spc.a = Data(block)[off + 1]
          /\ (spc.ptr + spc.y) % (ByteSize * ByteSize) = Blocks[block].dest + off
      BY <3>1, PutByteIs
    <3>3. entered = None /\ block <= Len(upload.blocks)
      BY <3>1, <3>2 DEF IInv, ReceiverInv, Blocks
    <3>4. ram' = [ram EXCEPT ![upload.blocks[block].dest + off] = upload.blocks[block].data[off + 1]]
      BY <3>1, <3>2, Zenon DEF Blocks, Data
    <3>5. QED BY <3>1, <3>3, <3>4 DEF Transfer!Arrive, Transfer!InBlocks
  <2>2. ASSUME Echo, spc.y = 0 PROVE Transfer!Enter
    <3>1. spc.pc = "echo" /\ UNCHANGED <<ram, upload, block, off>> /\ entered' = spc.ptr
      BY <2>2 DEF Echo, place
    <3>2. Finished /\ spc.ptr = AddrOf /\ entered = None /\ place = <<cpu.block, 0>>
      BY <2>2, <3>1 DEF IInv, ReceiverInv
    <3>3. spc.ptr = upload.entry /\ block = cpu.block
      BY <3>2 DEF AddrOf, place
    <3>4. block \in Nat /\ Len(upload.blocks) \in Nat
      BY UploadIs DEF IInv, TypeInv, Blocks
    <3>5. ~(block <= Len(upload.blocks))
      BY <3>2, <3>3, <3>4 DEF Finished
    <3>6. QED BY <3>1, <3>2, <3>3, <3>5 DEF Transfer!Enter, Transfer!InBlocks
  <2>3. ASSUME Echo, spc.y # 0 PROVE UNCHANGED Transfer!uvars
    BY <2>3 DEF Echo, place, Transfer!uvars
  <2>4. ASSUME Announce \/ WaitStart \/ TakeDest \/ TakeKick \/ Recv \/ Compare \/ TakeByte
               \/ Acknowledge \/ CompareAgain
        PROVE  UNCHANGED Transfer!uvars
    BY <2>4 DEF Announce, WaitStart, TakeDest, TakeKick, Recv, Compare, TakeByte, Acknowledge,
       CompareAgain, Inside, Transfer!uvars
  <2>5. ASSUME CpuStep PROVE UNCHANGED Transfer!uvars
    BY <2>5 DEF CpuStep, CpuBoot, CpuDest, CpuFlag, CpuKick, CpuAwaitKick, CpuData, CpuIndex,
       CpuAwaitByte, Outside, Transfer!uvars
  <2>6. ASSUME UNCHANGED vars PROVE UNCHANGED Transfer!uvars
    BY <2>6 DEF vars, Transfer!uvars
  <2>7. QED BY <2>1, <2>2, <2>3, <2>4, <2>5, <2>6 DEF Next, SpcStep
<1>3. QED BY <1>1, <1>2, InvAlways, PTL DEF Spec, UploadArrives, Transfer!UploadSpec

-----------------------------------------------------------------------------
(* The timers (Timers.tla).  What a timer divides twice and then counts is *)
(* a number in three digits, to the bases BaseDiv[i], RealDiv and Counts.  *)

LEMMA Cancel ==
  ASSUME NEW d \in Nat \ {0}, NEW a \in Nat, NEW b \in Nat, d * a = d * b
  PROVE  a = b
<1>1. ASSUME NEW p \in Nat, NEW q \in Nat, p < q PROVE d * p # d * q
  <2>1. (p + 1) * d <= q * d
    BY <1>1, ProductLeq
  <2>2. (p + 1) * d = d * p + d /\ q * d = d * q /\ d * p \in Nat
    OBVIOUS
  <2>3. QED BY <2>1, <2>2
<1>2. QED BY <1>1

\* Multiples of the divisor go into the quotient.
LEMMA AddMultiple ==
  ASSUME NEW d \in Nat \ {0}, NEW k \in Nat, NEW m \in Nat
  PROVE  (d * k + m) % d = m % d /\ (d * k + m) \div d = k + m \div d
<1> DEFINE n == d * k + m
           q == m \div d
           r == m % d
           p == n \div d
<1>1. q \in Nat /\ r \in 0..(d - 1) /\ m = d * q + r
  BY Division
<1>2. n \in Nat
  OBVIOUS
<1>3. p \in Nat /\ n % d \in 0..(d - 1) /\ n = d * p + (n % d)
  BY <1>2, Division
<1>4. n = d * k + m
  OBVIOUS
<1> HIDE DEF p, q, r, n
<1>5. d * (k + q) = d * k + d * q /\ d * k \in Nat /\ d * q \in Nat /\ k + q \in Nat
  BY <1>1
<1>6. n = d * (k + q) + r
  BY <1>1, <1>4, <1>5
<1>7. n % d = r
  BY <1>1, <1>5, <1>6, RemainderIs
<1>8. d * p = d * (k + q)
  <2>1. d * p \in Nat /\ d * (k + q) \in Nat
    BY <1>3, <1>5
  <2>2. QED BY <1>1, <1>3, <1>6, <1>7, <2>1
<1>9. p = k + q
  BY <1>3, <1>5, <1>8, Cancel
<1>10. QED BY <1>7, <1>9 DEF n, p, q, r

\* Digit by digit, a carry goes from the lower digit to the upper one.
LEMMA Carry ==
  ASSUME NEW d \in Nat \ {0}, NEW n \in Nat, NEW j \in Nat
  PROVE  /\ (n + j) % d = ((n % d) + j) % d
         /\ (n + j) \div d = n \div d + ((n % d) + j) \div d
<1>1. n \div d \in Nat /\ n % d \in 0..(d - 1) /\ n = d * (n \div d) + (n % d)
  BY Division
<1> DEFINE q == n \div d
           r == n % d
<1> HIDE DEF q, r
<1>2. q \in Nat /\ r \in Nat /\ r + j \in Nat /\ n = d * q + r
  BY <1>1 DEF q, r
<1>3. n + j = d * q + (r + j)
  <2>1. d * q \in Nat
    BY <1>2
  <2>2. QED BY <1>2, <2>1
<1>4. (n + j) % d = (r + j) % d /\ (n + j) \div d = q + (r + j) \div d
  <2>1. /\ (d * q + (r + j)) % d = (r + j) % d
        /\ (d * q + (r + j)) \div d = q + (r + j) \div d
    BY <1>2, AddMultiple, Zenon
  <2>2. QED BY <1>3, <2>1, Zenon
<1>5. QED BY <1>4 DEF q, r

\* What is added to equal remainders gives equal remainders.
LEMMA SameRemainder ==
  ASSUME NEW d \in Nat \ {0}, NEW a \in Nat, NEW b \in Nat, NEW j \in Nat, a % d = b % d
  PROVE  (a + j) % d = (b + j) % d
<1>1. (a + j) % d = ((a % d) + j) % d /\ (b + j) % d = ((b % d) + j) % d
  BY Carry
<1>2. QED BY <1>1

\* A number loses none of its three lower digits modulo their product.
SameDigits(b, r, c, n, m) ==
  /\ m \in Nat /\ m % b = n % b /\ (m \div b) % r = (n \div b) % r
  /\ ((m \div b) \div r) % c = ((n \div b) \div r) % c

LEMMA ThreeDigits ==
  ASSUME NEW b \in Nat \ {0}, NEW r \in Nat \ {0}, NEW c \in Nat \ {0}, NEW n \in Nat
  PROVE  SameDigits(b, r, c, n, n % (b * r * c))
<1> DEFINE p == b * r * c
           q == n \div p
           m == n % p
<1>1. p \in Nat \ {0} /\ p = b * (r * c) /\ r * c \in Nat
  <2>1. \A x, y \in Nat \ {0} : x * y \in Nat \ {0}
    OBVIOUS
  <2>2. \A x, y, z \in Nat : x * y * z = x * (y * z)
    OBVIOUS
  <2>3. QED BY <2>1, <2>2
<1>2. q \in Nat /\ m \in Nat /\ n = p * q + m
  <2>0. m = n % p
    OBVIOUS
  <2> HIDE DEF p
  <2>1. q \in Nat /\ n % p \in 0..(p - 1) /\ n = p * q + (n % p)
    BY <1>1, Division
  <2>2. QED BY <1>1, <2>0, <2>1
<1> HIDE DEF q, m, p
<1>3. n = b * (r * (c * q)) + m /\ c * q \in Nat /\ r * (c * q) \in Nat
  <2>2. (b * (r * c)) * q = b * (r * (c * q))
    BY <1>2
  <2>3. \A x, y \in Nat : x * y \in Nat
    OBVIOUS
  <2>4. c * q \in Nat
    BY <1>2, <2>3
  <2>5. r * (c * q) \in Nat
    BY <2>3, <2>4
  <2>6. QED BY <1>1, <1>2, <2>2, <2>4, <2>5
<1>4. n % b = m % b /\ n \div b = r * (c * q) + m \div b
  <2>1. /\ (b * (r * (c * q)) + m) % b = m % b
        /\ (b * (r * (c * q)) + m) \div b = r * (c * q) + m \div b
    BY <1>2, <1>3, AddMultiple, Zenon
  <2>2. QED BY <1>3, <2>1, Zenon
<1>5. m \div b \in Nat
  BY <1>2, Division
<1>6. /\ (n \div b) % r = (m \div b) % r
      /\ (n \div b) \div r = c * q + (m \div b) \div r
  <2>1. /\ (r * (c * q) + m \div b) % r = (m \div b) % r
        /\ (r * (c * q) + m \div b) \div r = c * q + (m \div b) \div r
    BY <1>3, <1>5, AddMultiple, Zenon
  <2>2. QED BY <1>4, <2>1, Zenon
<1>7. (m \div b) \div r \in Nat
  BY <1>5, Division
<1>8. ((n \div b) \div r) % c = ((m \div b) \div r) % c
  <2>1. (c * q + (m \div b) \div r) % c = ((m \div b) \div r) % c
    BY <1>2, <1>7, AddMultiple, Zenon
  <2>2. QED BY <1>6, <2>1, Zenon
<1>9. m \in Nat /\ m % b = n % b /\ (m \div b) % r = (n \div b) % r
      /\ ((m \div b) \div r) % c = ((n \div b) \div r) % c
  BY <1>2, <1>4, <1>6, <1>8
<1>10. QED BY <1>9 DEF m, p, SameDigits

-----------------------------------------------------------------------------
(* The invariant of the timers.                                            *)

TimerState == [div : Byte, val : 0..(Counts - 1), enabled : BOOLEAN, stage1 : Nat, stage2 : Byte]

\* What timer i counts is what from says it ran and reads what was read.
Exact(i, t, from, reads) ==
  /\ (reads + t.val) % Counts = ((from \div BaseDiv[i]) \div RealDiv(t.div)) % Counts
  /\ t.stage2 = (from \div BaseDiv[i]) % RealDiv(t.div)
  /\ t.enabled => t.stage1 = from % BaseDiv[i]

TimersInv ==
  /\ timers \in [TimerIds -> TimerState]
  /\ steady \in [TimerIds -> BOOLEAN]
  /\ since \in [TimerIds -> Nat] /\ taken \in [TimerIds -> Nat]
  /\ \A i \in TimerIds :
       /\ timers[i].stage1 \in 0..(BaseDiv[i] - 1) /\ timers[i].stage1 \in Byte
       /\ steady[i] => Exact(i, timers[i], since[i], taken[i])

LEMMA TimerConstants ==
  /\ ByteSize \in Nat \ {0} /\ Counts \in Nat \ {0}
  /\ \A i \in TimerIds : BaseDiv[i] \in Nat \ {0}
  /\ \A cy \in Cycles : cy \in Nat /\ \A i \in TimerIds : BaseDiv[i] + cy <= ByteSize
BY TimerAssumption, ByteAssumption

LEMMA RealDivIs ==
  ASSUME NEW div \in Byte PROVE RealDiv(div) \in Nat \ {0} /\ RealDiv(div) <= ByteSize
BY ByteAssumption DEF RealDiv, Byte

\* One timer that is given its cycles.
LEMMA UpdateIs ==
  ASSUME NEW i \in TimerIds, NEW t \in TimerState, t.stage1 \in 0..(BaseDiv[i] - 1),
         NEW cy \in Cycles
  PROVE  LET u == Update(t, BaseDiv[i], cy)
             s == t.stage1 + cy
             n == t.stage2 + s \div BaseDiv[i]
         IN  /\ u.div = t.div /\ u.enabled = t.enabled
             /\ u.stage1 = s % BaseDiv[i]
             /\ t.enabled => /\ u.stage2 = n % RealDiv(t.div)
                             /\ u.val = (t.val + n \div RealDiv(t.div)) % Counts
             /\ ~t.enabled => u.stage2 = t.stage2 /\ u.val = t.val
             /\ s \div BaseDiv[i] \in Nat
             /\ u \in TimerState /\ u.stage1 \in 0..(BaseDiv[i] - 1) /\ u.stage1 \in Byte
<1> DEFINE B == BaseDiv[i]
           R == RealDiv(t.div)
           s == t.stage1 + cy
           n == t.stage2 + s \div B
           u == Update(t, B, cy)
<1>1. /\ B \in Nat \ {0} /\ cy \in Nat /\ B + cy <= ByteSize
      /\ Counts \in Nat \ {0} /\ ByteSize \in Nat \ {0}
  BY TimerConstants
<1>2. /\ t.div \in Byte /\ t.val \in 0..(Counts - 1) /\ t.enabled \in BOOLEAN
      /\ t.stage1 \in Nat /\ t.stage2 \in Byte
      /\ t = [div |-> t.div, val |-> t.val, enabled |-> t.enabled,
              stage1 |-> t.stage1, stage2 |-> t.stage2]
  BY DEF TimerState
<1>3. R \in Nat \ {0} /\ R <= ByteSize
  BY <1>2, RealDivIs
<1>4. s \in Nat /\ s \in 0..(ByteSize - 1)
  BY <1>1, <1>2
<1>5. s % ByteSize = s
  BY <1>1, <1>4, SmallRemainder
<1>6. s % B \in 0..(B - 1) /\ s \div B \in Nat
  BY <1>1, <1>4, Division
<1>7. s % B \in Byte /\ s % B \in Nat
  BY <1>1, <1>6 DEF Byte
<1>8. n \in Nat
  BY <1>1, <1>2, <1>6 DEF Byte
<1>9. n % R \in 0..(R - 1) /\ n \div R \in Nat
  BY <1>3, <1>8, Division
<1>10. n % R \in Byte
  BY <1>1, <1>3, <1>9 DEF Byte
<1>11. (t.val + n \div R) % Counts \in 0..(Counts - 1)
  <2>1. t.val + n \div R \in Nat
    BY <1>1, <1>2, <1>9
  <2>2. QED BY <1>1, <2>1, Division
<1>12. u = IF ~t.enabled THEN [t EXCEPT !.stage1 = s % B]
           ELSE [t EXCEPT !.stage1 = s % B, !.stage2 = n % R,
                          !.val = (t.val + n \div R) % Counts]
  BY <1>5, Zenon DEF Update
<1> DEFINE v == (t.val + n \div R) % Counts
           s1 == s % B
           s2 == n % R
<1>13. /\ u = IF ~t.enabled THEN [t EXCEPT !.stage1 = s1]
              ELSE [t EXCEPT !.stage1 = s1, !.stage2 = s2, !.val = v]
       /\ s1 \in 0..(B - 1) /\ s1 \in Byte /\ s1 \in Nat /\ s2 \in Byte /\ v \in 0..(Counts - 1)
  BY <1>6, <1>7, <1>10, <1>11, <1>12
<1> HIDE DEF u, v, s1, s2, B
<1>14. /\ u.div = t.div /\ u.enabled = t.enabled /\ u.stage1 = s1
       /\ t.enabled => u.stage2 = s2 /\ u.val = v
       /\ ~t.enabled => u.stage2 = t.stage2 /\ u.val = t.val
       /\ u \in TimerState
  BY <1>2, <1>13 DEF TimerState
<1>15. QED BY <1>6, <1>13, <1>14 DEF u, v, s1, s2, B

\* Updating keeps a timer exact, if it is so when the cycles are given.
LEMMA UpdateExact ==
  ASSUME NEW i \in TimerIds, NEW t \in TimerState, t.stage1 \in 0..(BaseDiv[i] - 1),
         NEW cy \in Cycles, NEW from \in Nat, NEW reads \in Nat, Exact(i, t, from, reads)
  PROVE  LET n == IF t.enabled THEN (from + cy) % Period(i, t.div) ELSE from
         IN  n \in Nat /\ Exact(i, Update(t, BaseDiv[i], cy), n, reads % Counts)
<1> DEFINE B == BaseDiv[i]
           R == RealDiv(t.div)
           C == Counts
           u == Update(t, B, cy)
           q == from \div B         \* the upper digits before
           k == (t.stage1 + cy) \div B
           j == (t.stage2 + k) \div R
           m == (from + cy) % (B * R * C)
<1>1. B \in Nat \ {0} /\ cy \in Nat /\ C \in Nat \ {0}
  BY TimerConstants
<1>2. R \in Nat \ {0}
  BY RealDivIs DEF TimerState
<1>3. /\ u.div = t.div /\ u.enabled = t.enabled
      /\ u.stage1 = (t.stage1 + cy) % B
      /\ t.enabled => u.stage2 = (t.stage2 + k) % R /\ u.val = (t.val + j) % C
      /\ ~t.enabled => u.stage2 = t.stage2 /\ u.val = t.val
      /\ k \in Nat /\ t.stage2 \in Nat /\ t.val \in Nat
  BY UpdateIs, TimerConstants DEF TimerState, Byte
<1>4. /\ (reads + t.val) % C = (q \div R) % C
      /\ t.stage2 = q % R
      /\ t.enabled => t.stage1 = from % B
  BY DEF Exact
<1>5. q \in Nat /\ q \div R \in Nat /\ from + cy \in Nat
  <2>1. q \in Nat
    BY <1>1, Division
  <2>2. q \div R \in Nat
    BY <1>2, <2>1, Division
  <2>3. QED BY <1>1, <2>1, <2>2
<1> HIDE DEF u, q, k, m, B, C, R
<1>6. reads % C \in Nat /\ j \in Nat
  <2>1. reads % C \in Nat
    BY <1>1, Division
  <2>2. t.stage2 + k \in Nat
    BY <1>3
  <2>3. QED BY <1>2, <2>1, <2>2, Division
<1> HIDE DEF j
<1>7. \A a \in Nat : ((reads % C) + a) % C = (reads + a) % C
  BY <1>1, Carry
<1>8. CASE ~t.enabled
  <2>1. ((reads % C) + u.val) % C = (reads + t.val) % C
    BY <1>3, <1>7, <1>8
  <2>2. Exact(i, u, from, reads % C)
    BY <1>3, <1>4, <1>8, <2>1 DEF Exact, B, C, R, q
  <2>3. QED BY <1>8, <2>2 DEF u, B, C
<1>9. CASE t.enabled
  <2>1. /\ (from + cy) % B = (t.stage1 + cy) % B
        /\ (from + cy) \div B = q + k
    <3>1. /\ (from + cy) % B = ((from % B) + cy) % B
          /\ (from + cy) \div B = from \div B + ((from % B) + cy) \div B
      BY <1>1, Carry, Zenon
    <3>2. QED BY <1>4, <1>9, <3>1, Zenon DEF q, k
  <2>2. /\ (q + k) % R = (t.stage2 + k) % R
        /\ (q + k) \div R = q \div R + j
    <3>1. (q + k) % R = ((q % R) + k) % R /\ (q + k) \div R = q \div R + ((q % R) + k) \div R
      BY <1>2, <1>3, <1>5, Carry, Zenon
    <3>2. QED BY <1>4, <3>1, Zenon DEF j
  <2>3. /\ m \in Nat /\ m % B = (from + cy) % B
        /\ (m \div B) % R = ((from + cy) \div B) % R
        /\ ((m \div B) \div R) % C = (((from + cy) \div B) \div R) % C
    <3>1. from + cy \in Nat
      BY <1>5
    <3>2. SameDigits(B, R, C, from + cy, m)
      BY <1>1, <1>2, <3>1, ThreeDigits DEF m
    <3>3. QED BY <3>2 DEF SameDigits
  <2>4. ((reads % C) + u.val) % C = (q \div R + j) % C
    <3>1. u.val \in Nat /\ u.val = (t.val + j) % C
      <4>1. t.val + j \in Nat
        BY <1>3, <1>6
      <4>2. (t.val + j) % C \in Nat
        BY <1>1, <4>1, Division
      <4>3. QED BY <1>3, <1>9, <4>2
    <3>2. ((reads % C) + u.val) % C = (reads + u.val) % C
      BY <1>7, <3>1
    <3>3. (reads + u.val) % C = (reads + (t.val + j)) % C
      <4>1. t.val + j \in Nat /\ reads \in Nat
        BY <1>3, <1>6
      <4>2. ((t.val + j) + reads) % C = (((t.val + j) % C) + reads) % C
        BY <1>1, <4>1, Carry, Zenon
      <4>3. (t.val + j) + reads = reads + (t.val + j) /\ u.val + reads = reads + u.val
        BY <3>1, <4>1
      <4>4. QED BY <3>1, <4>2, <4>3, Zenon
    <3>4. reads + (t.val + j) = (reads + t.val) + j /\ reads + t.val \in Nat
      BY <1>3, <1>6
    <3>5. ((reads + t.val) + j) % C = (q \div R + j) % C
      BY <1>1, <1>4, <1>5, <1>6, <3>4, SameRemainder
    <3>6. QED BY <3>2, <3>3, <3>4, <3>5
  <2>5. Exact(i, u, m, reads % C)
    <3>1. u.stage1 = m % B
      BY <1>3, <2>1, <2>3
    <3>2. u.stage2 = (m \div B) % R
      BY <1>3, <1>9, <2>1, <2>2, <2>3
    <3>3. ((reads % C) + u.val) % C = ((m \div B) \div R) % C
      BY <2>1, <2>2, <2>3, <2>4
    <3>4. u.div = t.div
      BY <1>3
    <3>5. QED BY <3>1, <3>2, <3>3, <3>4 DEF Exact, B, C, R
  <2>6. m = (from + cy) % Period(i, t.div)
    BY DEF m, B, R, C, Period
  <2>7. QED BY <1>9, <2>3, <2>5, <2>6 DEF u, B, C
<1>10. QED BY <1>8, <1>9

\* The end of dispatch keeps the invariant, if what the instruction has made
\* of the timers is exact.
LEMMA RunKeeps ==
  ASSUME NEW ts \in [TimerIds -> TimerState], NEW from \in [TimerIds -> Nat],
         NEW reads \in [TimerIds -> Nat], NEW cy \in Cycles, Run(ts, from, reads, cy),
         steady' \in [TimerIds -> BOOLEAN],
         \A i \in TimerIds : /\ ts[i].stage1 \in 0..(BaseDiv[i] - 1)
                             /\ steady'[i] => Exact(i, ts[i], from[i], reads[i])
  PROVE  TimersInv'
<1>1. /\ timers' = [i \in TimerIds |-> Update(ts[i], BaseDiv[i], cy)]
      /\ since' = [i \in TimerIds |->
                     IF ~steady'[i] THEN 0
                     ELSE IF ts[i].enabled THEN (from[i] + cy) % Period(i, ts[i].div) ELSE from[i]]
      /\ taken' = [i \in TimerIds |-> IF steady'[i] THEN reads[i] % Counts ELSE 0]
  BY DEF Run
<1>2. ASSUME NEW i \in TimerIds
      PROVE  /\ timers'[i] \in TimerState /\ timers'[i].stage1 \in 0..(BaseDiv[i] - 1)
             /\ timers'[i].stage1 \in Byte
             /\ since'[i] \in Nat /\ taken'[i] \in Nat
             /\ steady'[i] => Exact(i, timers'[i], since'[i], taken'[i])
  <2>1. /\ ts[i] \in TimerState /\ ts[i].stage1 \in 0..(BaseDiv[i] - 1)
        /\ from[i] \in Nat /\ reads[i] \in Nat
    OBVIOUS
  <2>2. timers'[i] = Update(ts[i], BaseDiv[i], cy)
    BY <1>1
  <2>3. /\ timers'[i] \in TimerState /\ timers'[i].stage1 \in 0..(BaseDiv[i] - 1)
        /\ timers'[i].stage1 \in Byte
    BY <2>1, <2>2, UpdateIs
  <2>4. CASE ~steady'[i]
    <3>1. since'[i] = 0 /\ taken'[i] = 0
      BY <1>1, <2>4
    <3>2. QED BY <2>3, <2>4, <3>1
  <2>5. CASE steady'[i]
    <3> DEFINE n == IF ts[i].enabled THEN (from[i] + cy) % Period(i, ts[i].div) ELSE from[i]
    <3>1. since'[i] = n /\ taken'[i] = reads[i] % Counts
      BY <1>1, <2>5
    <3>2. n \in Nat /\ Exact(i, Update(ts[i], BaseDiv[i], cy), n, reads[i] % Counts)
      BY <2>1, <2>5, UpdateExact
    <3> HIDE DEF n
    <3>3. reads[i] % Counts \in Nat
      <4>1. Counts \in Nat \ {0}
        BY TimerConstants
      <4>2. reads[i] % Counts \in 0..(Counts - 1)
        BY <2>1, <4>1, Division
      <4>3. QED BY <4>1, <4>2
    <3>4. QED BY <2>2, <2>3, <3>1, <3>2, <3>3
  <2>6. QED BY <2>4, <2>5
<1>3. timers' \in [TimerIds -> TimerState]
  BY <1>1, <1>2
<1>4. since' \in [TimerIds -> Nat] /\ taken' \in [TimerIds -> Nat]
  BY <1>1, <1>2
<1>5. QED BY <1>2, <1>3, <1>4 DEF TimersInv

LEMMA ComputeKeeps == ASSUME TimersInv, NEW cy \in Cycles, Compute(cy) PROVE TimersInv'
BY RunKeeps DEF Compute, TimersInv

LEMMA StoreControlKeeps ==
  ASSUME TimersInv, NEW cy \in Cycles, NEW set \in SUBSET TimerIds, StoreControl(set, cy)
  PROVE  TimersInv'
<1> DEFINE new == {i \in set : ~timers[i].enabled}
           ts == [i \in TimerIds |-> SetEnable(timers[i], i \in set)]
           from == [i \in TimerIds |-> IF i \in new THEN timers[i].stage1 ELSE since[i]]
           reads == [i \in TimerIds |-> IF i \in new THEN 0 ELSE taken[i]]
<1>1. steady' = [i \in TimerIds |-> i \in new \/ steady[i]] /\ Run(ts, from, reads, cy)
  BY DEF StoreControl
<1>2. ASSUME NEW i \in TimerIds
      PROVE  /\ ts[i] \in TimerState /\ ts[i].stage1 \in 0..(BaseDiv[i] - 1)
             /\ from[i] \in Nat /\ reads[i] \in Nat
             /\ steady'[i] => Exact(i, ts[i], from[i], reads[i])
  <2>1. /\ timers[i] \in TimerState /\ timers[i].stage1 \in 0..(BaseDiv[i] - 1)
        /\ since[i] \in Nat /\ taken[i] \in Nat
        /\ steady[i] => Exact(i, timers[i], since[i], taken[i])
    BY DEF TimersInv
  <2>2. 0 \in Byte /\ 0 \in 0..(Counts - 1)
    BY TimerConstants DEF Byte
  <2>3. CASE i \in new
    <3>1. ts[i] = [timers[i] EXCEPT !.enabled = TRUE, !.val = 0, !.stage2 = 0]
      BY <2>3 DEF SetEnable
    <3>2. /\ ts[i] \in TimerState /\ ts[i].stage1 = timers[i].stage1
          /\ ts[i].val = 0 /\ ts[i].stage2 = 0 /\ ts[i].div \in Byte
      BY <2>1, <2>2, <3>1 DEF TimerState
    <3>3. from[i] = timers[i].stage1 /\ reads[i] = 0 /\ timers[i].stage1 \in Nat
      BY <2>1, <2>3 DEF TimerState
    <3>4. timers[i].stage1 % BaseDiv[i] = timers[i].stage1 /\ timers[i].stage1 \div BaseDiv[i] = 0
      <4> DEFINE b == BaseDiv[i]
                 s == timers[i].stage1
      <4>1. b \in Nat \ {0} /\ s \in 0..(b - 1)
        BY <2>1, TimerConstants
      <4> HIDE DEF b, s
      <4>2. s % b = s /\ s \in Nat
        BY <4>1, SmallRemainder
      <4>3. s \div b \in Nat /\ s = b * (s \div b) + (s % b)
        BY <4>1, <4>2, Division
      <4>4. b * (s \div b) = b * 0
        <5>1. b * (s \div b) \in Nat /\ b * 0 = 0
          BY <4>1, <4>3
        <5>2. QED BY <4>2, <4>3, <5>1
      <4>5. s \div b = 0
        BY <4>1, <4>3, <4>4, Cancel
      <4>6. QED BY <4>2, <4>5 DEF b, s
    <3>5. \A d \in Nat \ {0} : 0 % d = 0 /\ 0 \div d = 0
      OBVIOUS
    <3>6. RealDiv(ts[i].div) \in Nat \ {0} /\ Counts \in Nat \ {0}
      BY <3>2, RealDivIs, TimerConstants
    <3>7. Exact(i, ts[i], from[i], reads[i])
      BY <3>2, <3>3, <3>4, <3>5, <3>6 DEF Exact
    <3>8. QED BY <2>1, <3>2, <3>3, <3>7
  <2>4. CASE i \notin new
    <3>1. ts[i] = [timers[i] EXCEPT !.enabled = (i \in set)]
      BY <2>4 DEF SetEnable
    <3>2. /\ ts[i] \in TimerState /\ ts[i].stage1 = timers[i].stage1
          /\ ts[i].val = timers[i].val /\ ts[i].stage2 = timers[i].stage2
          /\ ts[i].div = timers[i].div /\ (ts[i].enabled => timers[i].enabled)
      <4> DEFINE e == i \in set
      <4>1. e \in BOOLEAN /\ (e => timers[i].enabled) /\ ts[i] = [timers[i] EXCEPT !.enabled = e]
        BY <2>4, <3>1
      <4> HIDE DEF e, ts
      <4>2. QED BY <2>1, <4>1 DEF TimerState
    <3>3. from[i] = since[i] /\ reads[i] = taken[i] /\ (steady'[i] <=> steady[i])
      BY <1>1, <2>4
    <3>4. steady[i] => Exact(i, ts[i], since[i], taken[i])
      BY <2>1, <3>2 DEF Exact
    <3>5. QED BY <2>1, <3>2, <3>3, <3>4
  <2>5. QED BY <2>3, <2>4
<1>3. ts \in [TimerIds -> TimerState] /\ from \in [TimerIds -> Nat] /\ reads \in [TimerIds -> Nat]
  BY <1>2
<1>4. steady' \in [TimerIds -> BOOLEAN]
  BY <1>1, Zenon DEF TimersInv
<1> HIDE DEF ts, from, reads, new
<1>5. QED BY <1>1, <1>2, <1>3, <1>4, RunKeeps

LEMMA StoreDivKeeps ==
  ASSUME TimersInv, NEW cy \in Cycles, NEW d \in TimerIds, NEW div \in Divs, StoreDiv(d, div, cy)
  PROVE  TimersInv'
<1> DEFINE ts == [timers EXCEPT ![d].div = div]
<1>1. steady' = [steady EXCEPT ![d] = @ /\ div = timers[d].div] /\ Run(ts, since, taken, cy)
  BY DEF StoreDiv
<1>2. div \in Byte
  BY TimerAssumption DEF Byte
<1>3. ASSUME NEW i \in TimerIds
      PROVE  /\ ts[i] \in TimerState /\ ts[i].stage1 \in 0..(BaseDiv[i] - 1)
             /\ steady'[i] => Exact(i, ts[i], since[i], taken[i])
  <2>1. /\ timers[i] \in TimerState /\ timers[i].stage1 \in 0..(BaseDiv[i] - 1)
        /\ steady[i] => Exact(i, timers[i], since[i], taken[i])
    BY DEF TimersInv
  <2>2. CASE i = d
    <3>1. ts[i] = [timers[i] EXCEPT !.div = div]
      BY <2>2 DEF TimersInv
    <3>2. /\ ts[i] \in TimerState /\ ts[i].stage1 = timers[i].stage1
          /\ ts[i].val = timers[i].val /\ ts[i].stage2 = timers[i].stage2
          /\ ts[i].div = div /\ ts[i].enabled = timers[i].enabled
      BY <1>2, <2>1, <3>1 DEF TimerState
    <3>3. steady'[i] => steady[i] /\ div = timers[i].div
      BY <1>1, <2>2 DEF TimersInv
    <3>4. QED BY <2>1, <3>2, <3>3 DEF Exact
  <2>3. CASE i # d
    <3>1. ts[i] = timers[i] /\ steady'[i] = steady[i]
      BY <1>1, <2>3 DEF TimersInv
    <3>2. QED BY <2>1, <3>1
  <2>4. QED BY <2>2, <2>3
<1>4. ts \in [TimerIds -> TimerState]
  BY <1>3 DEF TimersInv
<1>5. steady' \in [TimerIds -> BOOLEAN]
  BY <1>1, Zenon DEF TimersInv
<1> HIDE DEF ts
<1>6. QED BY <1>1, <1>3, <1>4, <1>5, RunKeeps DEF TimersInv

LEMMA LoadCounterKeeps ==
  ASSUME TimersInv, NEW cy \in Cycles, NEW d \in TimerIds, LoadCounter(d, cy)
  PROVE  TimersInv'
<1> DEFINE ts == [timers EXCEPT ![d].val = 0]
           reads == [taken EXCEPT ![d] = @ + timers[d].val]
<1>1. steady' = steady /\ Run(ts, since, reads, cy)
  BY DEF LoadCounter
<1>2. 0 \in 0..(Counts - 1)
  BY TimerConstants
<1>3. ASSUME NEW i \in TimerIds
      PROVE  /\ ts[i] \in TimerState /\ ts[i].stage1 \in 0..(BaseDiv[i] - 1) /\ reads[i] \in Nat
             /\ steady'[i] => Exact(i, ts[i], since[i], reads[i])
  <2>1. /\ timers[i] \in TimerState /\ timers[i].stage1 \in 0..(BaseDiv[i] - 1)
        /\ taken[i] \in Nat /\ timers[i].val \in Nat
        /\ steady[i] => Exact(i, timers[i], since[i], taken[i])
    BY TimerConstants DEF TimersInv, TimerState
  <2>2. CASE i = d
    <3>1. ts[i] = [timers[i] EXCEPT !.val = 0] /\ reads[i] = taken[i] + timers[i].val
      BY <2>2 DEF TimersInv
    <3>2. /\ ts[i] \in TimerState /\ ts[i].stage1 = timers[i].stage1
          /\ ts[i].val = 0 /\ ts[i].stage2 = timers[i].stage2
          /\ ts[i].div = timers[i].div /\ ts[i].enabled = timers[i].enabled
      BY <1>2, <2>1, <3>1 DEF TimerState
    <3>3. reads[i] + 0 = taken[i] + timers[i].val
      BY <2>1, <3>1
    <3>4. QED BY <1>1, <2>1, <3>1, <3>2, <3>3 DEF Exact
  <2>3. CASE i # d
    <3>1. ts[i] = timers[i] /\ reads[i] = taken[i]
      BY <2>3 DEF TimersInv
    <3>2. QED BY <1>1, <2>1, <3>1
  <2>4. QED BY <2>2, <2>3
<1>4. ts \in [TimerIds -> TimerState] /\ reads \in [TimerIds -> Nat]
  BY <1>3 DEF TimersInv
<1> HIDE DEF ts, reads
<1>5. QED BY <1>1, <1>3, <1>4, RunKeeps DEF TimersInv

LEMMA TimersInvAlways == TimersSpec => []TimersInv
<1>1. TimersInit => TimersInv
  <2> SUFFICES ASSUME TimersInit PROVE TimersInv
    OBVIOUS
  <2>1. Counts - 1 \in 0..(Counts - 1) /\ 0 \in Byte /\ \A i \in TimerIds : 0 \in 0..(BaseDiv[i] - 1)
    BY TimerConstants DEF Byte
  <2>2. QED BY <2>1 DEF TimersInit, TimersInv, TimerState
<1>2. TimersInv /\ [TimersNext]_timerVars => TimersInv'
  <2> SUFFICES ASSUME TimersInv, [TimersNext]_timerVars PROVE TimersInv'
    OBVIOUS
  <2>1. CASE UNCHANGED timerVars
    BY <2>1 DEF timerVars, TimersInv
  <2>2. CASE TimersNext
    BY <2>2, ComputeKeeps, StoreControlKeeps, StoreDivKeeps, LoadCounterKeeps DEF TimersNext
  <2>3. QED BY <2>1, <2>2
<1>3. QED BY <1>1, <1>2, PTL DEF TimersSpec

\* CountsTime, for every divider, width of the counter and cycles of an
\* instruction that do not wrap a byte (Timer::update adds them to one): a
\* timer loses no part of a period, whenever its counter is read.
THEOREM TimersCountTime == TimersSpec => []CountsTime
<1>1. TimersInv => CountsTime
  <2> SUFFICES ASSUME TimersInv, NEW i \in TimerIds
               PROVE  /\ timers[i] \in TimerType /\ timers[i].stage1 < BaseDiv[i]
                      /\ steady[i] => Exact(i, timers[i], since[i], taken[i])
    BY DEF CountsTime, Exact
  <2>1. /\ timers[i] \in TimerState /\ timers[i].stage1 \in 0..(BaseDiv[i] - 1)
        /\ timers[i].stage1 \in Byte /\ BaseDiv[i] \in Nat
        /\ steady[i] => Exact(i, timers[i], since[i], taken[i])
    BY TimerConstants DEF TimersInv
  <2>2. Byte \subseteq 0..(2 * ByteSize - 1)
    BY TimerConstants DEF Byte
  <2>3. timers[i].stage2 \in 0..(2 * ByteSize - 1)
    BY <2>1, <2>2 DEF TimerState
  <2>4. timers[i] \in TimerType
    BY <2>1, <2>3 DEF TimerState, TimerType
  <2>5. QED BY <2>1, <2>4
<1>2. QED BY <1>1, TimersInvAlways, PTL
=============================================================================
