----------------------------- MODULE DmaProofs -----------------------------
(***************************************************************************)
(* Proofs about Dma: which channel moves which byte where, and what it     *)
(* costs.                                                                  *)
(***************************************************************************)
EXTENDS Dma, FiniteSetTheorems, WellFoundedInduction, TLAPS

(* Arithmetic.                                                             *)

\* A remainder is what is left of a whole number of divisors.
LEMMA RemainderIs ==
  ASSUME NEW n \in Nat \ {0}, NEW x \in Int, NEW q \in Int, NEW r \in 0..(n - 1),
         x = n * q + r
  PROVE  x % n = r
  <1> DEFINE d == x \div n
             e == x % n
  <1>1. d \in Int /\ e \in 0..(n - 1) /\ n * d + e = n * q + r
    OBVIOUS
  <1> HIDE DEF d, e
  <1>2. CASE d > q
    <2>1. n * (d - q) >= n /\ n * (d - q) = n * d - n * q
      BY <1>1, <1>2
    <2> QED
      BY <1>1, <2>1
  <1>3. CASE d < q
    <2>1. n * (q - d) >= n /\ n * (q - d) = n * q - n * d
      BY <1>1, <1>3
    <2> QED
      BY <1>1, <2>1
  <1>4. CASE d = q
    BY <1>1, <1>4 DEF e
  <1> QED
    BY <1>1, <1>2, <1>3, <1>4

LEMMA RemainderOfSmall ==
  ASSUME NEW n \in Nat \ {0}, NEW r \in 0..(n - 1)
  PROVE  r % n = r
  <1>1. r = n * 0 + r
    OBVIOUS
  <1> QED
    BY <1>1, RemainderIs

\* A step can be taken after reducing, or before.
LEMMA StepReduced ==
  ASSUME NEW n \in Nat \ {0}, NEW x \in Int, NEW i \in Int
  PROVE  ((x % n) + i) % n = (x + i) % n
  <1> DEFINE a == x \div n
             b == x % n
             c == (b + i) \div n
             r == (b + i) % n
  <1>1. a \in Int /\ b \in 0..(n - 1) /\ x = n * a + b
    OBVIOUS
  <1>2. c \in Int /\ r \in 0..(n - 1) /\ b + i = n * c + r
    BY <1>1
  <1> HIDE DEF a, b, c, r
  <1>3. a + c \in Int /\ x + i \in Int /\ x + i = n * (a + c) + r
    BY <1>1, <1>2
  <1> DEFINE q == a + c
             y == x + i
  <1> HIDE DEF q, y
  <1>4. y % n = r
    <2>1. q \in Int /\ y \in Int /\ y = n * q + r
      BY <1>3 DEF q, y
    <2> QED
      BY <1>2, <2>1, RemainderIs
  <1> QED
    BY <1>4 DEF b, r, y

\* A mask has a lowest channel.
LEMMA LowestIs ==
  ASSUME NEW S \in SUBSET Nat, S # {}
  PROVE  Lowest(S) \in S /\ \A d \in S : Lowest(S) <= d
  <1> DEFINE R == {ss \in Nat \X Nat : ss[1] < ss[2]}
  <1>1. IsWellFoundedOn(R, Nat)
    BY NatLessThanWellFounded DEF OpToRel
  <1>2. \A x, y \in Nat : x < y => <<x, y>> \in R
    OBVIOUS
  <1> HIDE DEF R
  <1>3. \E x \in S : \A y \in S : ~ (<<y, x>> \in R)
    BY <1>1, WFMin
  <1>4. PICK x \in S : \A y \in S : ~ (<<y, x>> \in R)
    BY <1>3
  <1>5. \A y \in S : x <= y
    <2> SUFFICES ASSUME NEW y \in S, ~ (x <= y)  PROVE FALSE
      OBVIOUS
    <2>1. x \in Nat /\ y \in Nat /\ y < x
      OBVIOUS
    <2> QED
      BY <1>2, <1>4, <2>1
  <1> QED
    BY <1>5 DEF Lowest

-----------------------------------------------------------------------------
(* What is known while a transfer runs: the channels of the mask still     *)
(* have the registers they started with, those below are done, and the one *)
(* being served is as far in its block as the bytes it has moved.          *)

ModeLength(ch) == Len(Offsets(ch.mode))

\* The address of the next access to the A-bus; a channel that reads there
\* has already moved on when it writes.
NextPlace(ch, k) == (ch.a_addr + ch.inc * k) % WordSize

Served(c) ==
  /\ c \in mask /\ \A d \in mask : c <= d
  /\ moved[c] + job.bytes = Size(c)
  /\ pc = "write" => job.bytes > 0
  /\ job.step = moved[c] % ModeLength(started.chan[c])
  /\ job.a_addr = NextPlace(started.chan[c],
                           IF pc = "write" /\ ~started.chan[c].write_to_a
                             THEN moved[c] + 1 ELSE moved[c])

InOrder ==
  /\ mask \subseteq started.mask
  /\ (pc = "cpu") <=> (mask = {})
  /\ \A c \in mask : chan[c] = started.chan[c]
  /\ \A c \in started.mask \ mask : moved[c] = Size(c)
  /\ \A c \in started.mask \ mask, d \in mask : c < d
  /\ \A c \in Channels \ started.mask : moved[c] = 0
  /\ \A c \in mask : pc = "next" \/ c # job.c => moved[c] = 0
  /\ pc \in {"read", "write"} => Served(job.c)

IInv == TypeOK /\ InOrder

LEMMA OffsetsIs ==
  ASSUME NEW m \in Modes
  PROVE  /\ Len(Offsets(m)) \in 1..4
         /\ \A k \in 1..Len(Offsets(m)) : Offsets(m)[k] \in Nat
  <1>1. CASE m = 0
    BY <1>1 DEF Offsets
  <1>2. CASE m = 1
    BY <1>2 DEF Offsets
  <1>3. CASE m \in {2, 6}
    BY <1>3 DEF Offsets
  <1>4. CASE m \in {3, 7}
    BY <1>4 DEF Offsets
  <1>5. CASE m = 4
    BY <1>5 DEF Offsets
  <1>6. CASE m = 5
    BY <1>6 DEF Offsets
  <1> QED
    BY <1>1, <1>2, <1>3, <1>4, <1>5, <1>6 DEF Modes

LEMMA ChannelsAreNat == Channels \subseteq Nat /\ 0 \in Channels
  BY DmaAssumption DEF Channels

LEMMA ReducedIsWord ==
  ASSUME NEW n \in Int
  PROVE  n % WordSize \in Word
  BY DmaAssumption DEF Word

LEMMA SizeType ==
  ASSUME NEW ch \in ChannelType
  PROVE  TransferSize(ch) \in 0..WordSize
  BY DmaAssumption DEF ChannelType, TransferSize, Word

\* The type of a place, and the place one step further.
LEMMA NextPlaceIs ==
  ASSUME NEW ch \in ChannelType, NEW k \in Nat
  PROVE  /\ NextPlace(ch, k) \in Word
         /\ (NextPlace(ch, k) + ch.inc) % WordSize = NextPlace(ch, k + 1)
         /\ ch.a_addr = NextPlace(ch, 0)
  <1> DEFINE x == ch.a_addr + ch.inc * k
             i == ch.inc
  <1>1. i \in Int /\ ch.a_addr \in Word /\ ch.a_addr \in Int /\ x \in Int
    BY DmaAssumption DEF ChannelType, Word
  <1>2. ch.a_addr + i * (k + 1) = x + i /\ ch.a_addr + i * 0 = ch.a_addr
    BY <1>1
  <1>3. WordSize \in Nat \ {0} /\ ch.a_addr % WordSize = ch.a_addr
    BY <1>1, RemainderOfSmall, DmaAssumption DEF Word
  <1>4. x % WordSize \in Word
    BY <1>1, ReducedIsWord
  <1> HIDE DEF x
  <1>5. ((x % WordSize) + i) % WordSize = (x + i) % WordSize
    BY <1>1, <1>3, StepReduced
  <1> QED
    BY <1>2, <1>3, <1>4, <1>5 DEF NextPlace, x

\* The step in the unit follows the number of bytes moved.
LEMMA StepIs ==
  ASSUME NEW n \in 1..4, NEW k \in Nat
  PROVE  /\ k % n \in 0..(n - 1)
         /\ (k + 1) % n = IF (k % n) + 1 < n THEN (k % n) + 1 ELSE 0
  <1>1. n = 1 \/ n = 2 \/ n = 3 \/ n = 4
    OBVIOUS
  <1> QED
    BY <1>1

-----------------------------------------------------------------------------
(* Every step.                                                             *)

LEMMA InitInv == Init => IInv
  <1> SUFFICES ASSUME Init  PROVE IInv
    OBVIOUS
  <1>1. Reset \in ChannelType
    BY DmaAssumption DEF Reset, ChannelType, Modes, Word
  <1>2. 0 \in Channels /\ 0 \in Word
    BY ChannelsAreNat, DmaAssumption DEF Word
  <1>3. TypeOK
    BY <1>1, <1>2, DmaAssumption DEF Init, TypeOK, JobType
  <1>4. InOrder
    BY DEF Init, InOrder
  <1> QED
    BY <1>3, <1>4 DEF IInv

LEMMA StoreInv ==
  ASSUME IInv, NEW c \in Channels, NEW ch \in Settings[c], Store(c, ch)
  PROVE  IInv'
  <1>1. ch \in ChannelType
    BY DmaAssumption
  <1>2. TypeOK'
    BY <1>1 DEF IInv, TypeOK, Store
  <1>3. InOrder'
    BY DEF IInv, InOrder, Store, Size
  <1> QED
    BY <1>2, <1>3 DEF IInv

LEMMA StoreMdmaenInv ==
  ASSUME IInv, NEW m \in SUBSET Channels, StoreMdmaen(m)
  PROVE  IInv'
  <1>1. TypeOK'
    BY DmaAssumption DEF IInv, TypeOK, StoreMdmaen
  <1>2. InOrder'
    BY DEF IInv, TypeOK, InOrder, StoreMdmaen
  <1> QED
    BY <1>1, <1>2 DEF IInv

LEMMA NextChannelInv ==
  ASSUME IInv, NextChannel
  PROVE  IInv'
  <1>1. mask # {} /\ mask \in SUBSET Nat /\ mask \subseteq Channels
    BY ChannelsAreNat DEF IInv, TypeOK, InOrder, NextChannel
  <1>2. PICK c \in mask : c = Lowest(mask) /\ \A d \in mask : c <= d
    BY <1>1, LowestIs
  <1>3. c \in Channels /\ chan[c] \in ChannelType /\ chan[c] = started.chan[c] /\ moved[c] = 0
    BY <1>1, <1>2 DEF IInv, TypeOK, InOrder, NextChannel
  <1>4. job' = [c |-> c, bytes |-> TransferSize(chan[c]), a_addr |-> chan[c].a_addr, step |-> 0]
    BY <1>2 DEF NextChannel
  <1>5. TransferSize(chan[c]) \in 0..WordSize /\ chan[c].a_addr \in Word
    BY <1>3, SizeType DEF ChannelType
  <1>6. cycles' \in Nat
    <2>1. cycles' = cycles + UnitCycles + UnitCycles * TransferSize(chan[c])
      BY <1>2 DEF NextChannel
    <2>2. UnitCycles \in Nat /\ cycles \in Nat /\ TransferSize(chan[c]) \in Nat
      BY <1>5, DmaAssumption DEF IInv, TypeOK
    <2> QED
      BY <2>1, <2>2
  <1>7. TypeOK'
    BY <1>3, <1>4, <1>5, <1>6 DEF IInv, TypeOK, JobType, NextChannel
  <1>8. InOrder'
    <2>1. ModeLength(chan[c]) \in 1..4 /\ 0 % ModeLength(chan[c]) = 0
      <3>1. ModeLength(chan[c]) \in 1..4
        BY <1>3, OffsetsIs DEF ChannelType, ModeLength
      <3> HIDE DEF ModeLength
      <3>2. 0 \in 0..(ModeLength(chan[c]) - 1)
        BY <3>1
      <3> QED
        BY <3>1, <3>2, RemainderOfSmall
    <2>2. Served(c)'
      BY <1>2, <1>3, <1>4, <1>5, <2>1, NextPlaceIs DEF NextChannel, Served, Size
    <2>3. job'.c = c
      BY <1>4
    <2>4. Served(job.c)'
      BY <2>2, <2>3 DEF Served
    <2> QED
      BY <2>3, <2>4 DEF IInv, InOrder, NextChannel, Size
  <1> QED
    BY <1>7, <1>8 DEF IInv

\* What is known of the channel a read or a write serves.
LEMMA ServingIs ==
  ASSUME IInv, pc \in {"read", "write"}, NEW c, c = job.c
  PROVE  /\ c \in mask /\ c \in started.mask /\ c \in Channels /\ Served(c)
         /\ Serving = started.chan[c] /\ Serving \in ChannelType
         /\ job \in JobType /\ moved[c] \in Nat
         /\ ModeLength(Serving) \in 1..4 /\ job.step \in 0..(ModeLength(Serving) - 1)
         /\ Offsets(Serving.mode)[job.step + 1] \in Nat
  <1>1. /\ c \in mask /\ c \in started.mask /\ c \in Channels /\ Served(c)
        /\ Serving = started.chan[c] /\ Serving \in ChannelType
        /\ job \in JobType /\ moved[c] \in Nat
    BY DEF IInv, TypeOK, InOrder, Served, Serving
  <1>2. /\ ModeLength(Serving) \in 1..4
        /\ \A k \in 1..ModeLength(Serving) : Offsets(Serving.mode)[k] \in Nat
    BY <1>1, OffsetsIs DEF ChannelType, ModeLength
  <1>3. job.step = moved[c] % ModeLength(Serving)
    BY <1>1 DEF Served
  <1> HIDE DEF ModeLength
  <1>4. job.step \in 0..(ModeLength(Serving) - 1)
    BY <1>1, <1>2, <1>3, StepIs
  <1> QED
    BY <1>1, <1>2, <1>4

LEMMA SteppedIs ==
  ASSUME IInv, pc \in {"read", "write"}, NEW k \in Nat,
         job.a_addr = NextPlace(started.chan[job.c], k)
  PROVE  Stepped \in Word /\ Stepped = NextPlace(started.chan[job.c], k + 1)
  <1>1. Serving = started.chan[job.c] /\ Serving \in ChannelType
    BY ServingIs
  <1> QED
    BY <1>1, NextPlaceIs DEF Stepped

LEMMA ReadByteInv ==
  ASSUME IInv, ReadByte
  PROVE  IInv'
  <1>1. PICK c : c = job.c
    OBVIOUS
  <1>2. pc = "read" /\ pc' = "write" /\ job.bytes > 0
    BY DEF ReadByte
  <1>3. /\ c \in mask /\ c \in started.mask /\ c \in Channels /\ Served(c)
        /\ Serving = started.chan[c] /\ Serving \in ChannelType
        /\ job \in JobType /\ moved[c] \in Nat
        /\ Offsets(Serving.mode)[job.step + 1] \in Nat
    BY <1>1, <1>2, ServingIs
  <1>4. job.a_addr = NextPlace(started.chan[c], moved[c])
    BY <1>2, <1>3 DEF Served
  <1>5. Stepped \in Word /\ Stepped = NextPlace(started.chan[c], moved[c] + 1)
    BY <1>1, <1>2, <1>3, <1>4, SteppedIs
  <1>6. /\ job' \in JobType /\ job'.c = c /\ job'.bytes = job.bytes /\ job'.step = job.step
        /\ job'.a_addr = NextPlace(started.chan[c],
                                  IF started.chan[c].write_to_a THEN moved[c] ELSE moved[c] + 1)
    BY <1>1, <1>3, <1>4, <1>5 DEF ReadByte, JobType
  <1>7. TypeOK'
    <2>1. access' \in [a : Word, b : Nat]
      BY <1>3 DEF ReadByte, JobType, ChannelType
    <2> QED
      BY <1>2, <1>6, <2>1 DEF IInv, TypeOK, ReadByte
  <1>8. InOrder'
    <2>1. Served(c)'
      BY <1>2, <1>3, <1>6 DEF ReadByte, Served, Size, NextPlace
    <2>2. Served(job.c)'
      BY <1>6, <2>1 DEF Served
    <2> QED
      BY <1>1, <1>2, <1>6, <2>2 DEF IInv, InOrder, ReadByte, Size
  <1> QED
    BY <1>7, <1>8 DEF IInv

LEMMA WriteByteInv ==
  ASSUME IInv, WriteByte
  PROVE  IInv'
  <1>1. PICK c : c = job.c
    OBVIOUS
  <1>2. pc = "write" /\ pc' = "read"
    BY DEF WriteByte
  <1>3. /\ c \in mask /\ c \in started.mask /\ c \in Channels /\ Served(c)
        /\ Serving = started.chan[c] /\ Serving \in ChannelType
        /\ job \in JobType /\ moved[c] \in Nat
        /\ ModeLength(Serving) \in 1..4 /\ job.step \in 0..(ModeLength(Serving) - 1)
    BY <1>1, <1>2, ServingIs
  <1>4. job.a_addr = NextPlace(started.chan[c], IF started.chan[c].write_to_a
                                                  THEN moved[c] ELSE moved[c] + 1)
    BY <1>2, <1>3 DEF Served
  <1>5. started.chan[c].write_to_a =>
          Stepped \in Word /\ Stepped = NextPlace(started.chan[c], moved[c] + 1)
    BY <1>1, <1>2, <1>3, <1>4, SteppedIs
  <1>6. job.bytes \in 1..WordSize /\ moved[c] + job.bytes = Size(c)
    BY <1>2, <1>3, DmaAssumption DEF Served, JobType
  <1>7. NextStep = (moved[c] + 1) % ModeLength(started.chan[c]) /\ NextStep \in 0..3
    <2>1. NextStep = IF job.step + 1 < ModeLength(Serving) THEN job.step + 1 ELSE 0
      BY DEF NextStep, ModeLength
    <2>2. job.step = moved[c] % ModeLength(Serving)
      BY <1>3 DEF Served
    <2> HIDE DEF ModeLength
    <2>3. NextStep = (moved[c] + 1) % ModeLength(Serving)
      BY <1>3, <2>1, <2>2, StepIs
    <2> QED
      BY <1>3, <2>1, <2>3
  <1>8. /\ job' \in JobType /\ job'.c = c /\ job'.bytes = job.bytes - 1 /\ job'.step = NextStep
        /\ job'.a_addr = NextPlace(started.chan[c], moved[c] + 1)
    <2>1. job' = [job EXCEPT !.bytes = job.bytes - 1,
                             !.a_addr = IF started.chan[c].write_to_a THEN Stepped ELSE job.a_addr,
                             !.step = NextStep]
      BY <1>3 DEF WriteByte
    <2>2. job.bytes - 1 \in 0..WordSize
      BY <1>6, DmaAssumption
    <2>3. (IF started.chan[c].write_to_a THEN Stepped ELSE job.a_addr) \in Word
      BY <1>3, <1>5 DEF JobType
    <2>4. (IF started.chan[c].write_to_a THEN Stepped ELSE job.a_addr)
            = NextPlace(started.chan[c], moved[c] + 1)
      BY <1>4, <1>5
    <2> QED
      BY <1>1, <1>3, <1>7, <2>1, <2>2, <2>3, <2>4 DEF JobType
  <1>9. moved' = [moved EXCEPT ![c] = moved[c] + 1] /\ moved'[c] = moved[c] + 1
    BY <1>1, <1>3 DEF WriteByte, IInv, TypeOK
  <1>10. TypeOK'
    BY <1>2, <1>3, <1>8, <1>9 DEF IInv, TypeOK, WriteByte
  <1>11. InOrder'
    <2>1. Served(c)'
      <3>1. moved'[c] + job'.bytes = Size(c)
        BY <1>3, <1>6, <1>8, <1>9, DmaAssumption DEF JobType
      <3>2. /\ started' = started /\ mask' = mask
            /\ job'.step = moved'[c] % ModeLength(started.chan[c])
            /\ job'.a_addr = NextPlace(started.chan[c], moved'[c])
        BY <1>7, <1>8, <1>9 DEF WriteByte
      <3> QED
        BY <1>2, <1>3, <3>1, <3>2 DEF Served, Size, NextPlace
    <2>2. Served(job.c)'
      BY <1>8, <2>1 DEF Served
    <2>3. \A d \in Channels \ {c} : moved'[d] = moved[d]
      BY <1>9 DEF IInv, TypeOK
    <2> QED
      BY <1>1, <1>2, <1>3, <1>8, <2>2, <2>3 DEF IInv, TypeOK, InOrder, WriteByte, Size
  <1> QED
    BY <1>10, <1>11 DEF IInv

LEMMA FinishChannelInv ==
  ASSUME IInv, FinishChannel
  PROVE  IInv'
  <1>1. PICK c : c = job.c
    OBVIOUS
  <1>2. /\ pc = "read" /\ job.bytes = 0 /\ mask' = mask \ {c}
        /\ pc' = (IF mask' = {} THEN "cpu" ELSE "next")
        /\ UNCHANGED <<job, cycles, access, started, moved>>
    BY <1>1 DEF FinishChannel
  <1>3. /\ c \in mask /\ c \in started.mask /\ c \in Channels /\ Served(c)
        /\ chan[c] \in ChannelType /\ moved[c] \in Nat
    BY <1>1, <1>2, ServingIs DEF IInv, TypeOK
  <1>4. /\ chan' \in [Channels -> ChannelType]
        /\ \A d \in Channels \ {c} : chan'[d] = chan[d]
    <2>1. chan' = [chan EXCEPT ![c] = [chan[c] EXCEPT !.dma_size = 0]]
      BY <1>1 DEF FinishChannel
    <2>2. [chan[c] EXCEPT !.dma_size = 0] \in ChannelType
      BY <1>3, DmaAssumption DEF ChannelType, Word
    <2> QED
      BY <1>3, <2>1, <2>2 DEF IInv, TypeOK
  <1>5. moved[c] = Size(c)
    BY <1>2, <1>3, DmaAssumption DEF Served
  <1>6. TypeOK'
    BY <1>2, <1>4 DEF IInv, TypeOK
  <1>7. \A d \in mask \ {c} : c < d
    BY <1>3, ChannelsAreNat DEF Served, IInv, TypeOK
  <1>8. InOrder'
    BY <1>1, <1>2, <1>3, <1>4, <1>5, <1>7 DEF IInv, TypeOK, InOrder, Size
  <1> QED
    BY <1>6, <1>8 DEF IInv

LEMMA NextInv == IInv /\ [Next]_vars => IInv'
  <1>1. IInv /\ UNCHANGED vars => IInv'
    BY DEF vars, IInv, TypeOK, InOrder, Served, Size
  <1> QED
    BY <1>1, StoreInv, StoreMdmaenInv, NextChannelInv, ReadByteInv, WriteByteInv,
       FinishChannelInv DEF Next, Transfer

\* The registers keep their types, and the channels their turns and places.
THEOREM DmaInvariance == Spec => []IInv
  BY InitInv, NextInv, PTL DEF Spec

\* Addresses and sizes stay words throughout every transfer.
THEOREM DmaTypeCorrect == Spec => []TypeOK
  <1>1. IInv => TypeOK
    BY DEF IInv
  <1> QED
    BY <1>1, DmaInvariance, PTL

\* Every byte goes where its channel's registers say (do_dma, dma_transfer).
THEOREM DmaBytesInPlace == Spec => BytesInPlace
  <1>1. IInv /\ [Next]_vars =>
          [pc = "read" /\ pc' = "write" =>
             access' = PlaceOf(started.chan[job.c], moved[job.c])]_vars
    <2> SUFFICES ASSUME IInv, [Next]_vars, pc = "read", pc' = "write"
                 PROVE  access' = PlaceOf(started.chan[job.c], moved[job.c])
      OBVIOUS
    <2>1. ReadByte
      BY DEF Next, Transfer, Store, StoreMdmaen, NextChannel, WriteByte, FinishChannel, vars
    <2>2. Served(job.c) /\ Serving = started.chan[job.c]
      BY ServingIs
    <2> QED
      BY <2>1, <2>2 DEF ReadByte, Served, NextPlace, PlaceOf, ModeLength
  <1> QED
    BY <1>1, DmaInvariance, PTL DEF Spec, BytesInPlace

\* The channels of the mask are served in turn, none beyond its size.
THEOREM DmaChannelsInTurn == Spec => []ChannelsInTurn
  <1>1. IInv => ChannelsInTurn
    <2> SUFFICES ASSUME IInv, NEW c \in Channels
                 PROVE  /\ moved[c] <= IF c \in started.mask THEN Size(c) ELSE 0
                        /\ moved[c] > 0 =>
                             \A d \in started.mask : d < c => moved[d] = Size(d)
      BY DEF ChannelsInTurn
    <2>1. moved[c] \in Nat /\ Size(c) \in 0..WordSize /\ c \in Nat
      BY SizeType, ChannelsAreNat DEF IInv, TypeOK, Size
    <2>2. CASE c \notin started.mask
      BY <2>1, <2>2 DEF IInv, InOrder
    <2>3. CASE c \in started.mask \ mask
      BY <2>1, <2>3, ChannelsAreNat, DmaAssumption DEF IInv, TypeOK, InOrder
    <2>4. CASE c \in mask /\ moved[c] = 0
      BY <2>1, <2>4, DmaAssumption DEF IInv, InOrder
    <2>5. CASE c \in mask /\ moved[c] > 0
      <3>1. pc \in {"read", "write"} /\ c = job.c
        BY <2>5 DEF IInv, TypeOK, InOrder
      <3>2. Served(c) /\ job.bytes \in Nat
        BY <3>1, ServingIs, DmaAssumption DEF JobType
      <3>3. c \in started.mask /\ moved[c] <= Size(c)
        BY <2>1, <2>5, <3>2, DmaAssumption DEF Served, IInv, InOrder
      <3>4. \A d \in started.mask : d < c => moved[d] = Size(d)
        BY <2>1, <3>2, ChannelsAreNat DEF Served, IInv, TypeOK, InOrder
      <3> QED
        BY <3>3, <3>4
    <2> QED
      BY <2>1, <2>2, <2>3, <2>4, <2>5 DEF IInv, InOrder
  <1> QED
    BY <1>1, DmaInvariance, PTL

-----------------------------------------------------------------------------
(* Sums over channels.  The fold of the library takes the channels of a    *)
(* set in an order of its own; what it adds up does not depend on it.      *)

\* w[c] is added for every channel of T.
Adds(w, C, g) ==
  /\ g \in [SUBSET C -> Nat]
  /\ g[{}] = 0
  /\ \A T \in SUBSET C : \A x \in T : g[T] = w[x] + g[T \ {x}]

\* Sums over the sets of one channel more.
LEMMA AddsMore ==
  ASSUME NEW n \in Nat, NEW w \in [Nat -> Nat], NEW g, Adds(w, 0..(n - 1), g)
  PROVE  \E h : Adds(w, 0..n, h)
  <1> DEFINE C == 0..(n - 1)
             D == 0..n
             h == [T \in SUBSET D |-> IF n \in T THEN w[n] + g[T \ {n}] ELSE g[T]]
  <1>1. /\ g \in [SUBSET C -> Nat] /\ g[{}] = 0
        /\ \A T \in SUBSET C : \A x \in T : g[T] = w[x] + g[T \ {x}]
    BY DEF Adds
  <1>2. \A T \in SUBSET D : T \ {n} \in SUBSET C
    OBVIOUS
  <1>3. n \notin C /\ w[n] \in Nat /\ \A x \in D : x \in Nat /\ w[x] \in Nat
    OBVIOUS
  <1> HIDE DEF C
  <1>4. ASSUME NEW T \in SUBSET D, n \notin T  PROVE T \in SUBSET C /\ T \ {n} = T
    BY <1>2, <1>4
  <1>5. h \in [SUBSET D -> Nat]
    <2> SUFFICES ASSUME NEW T \in SUBSET D
                 PROVE  (IF n \in T THEN w[n] + g[T \ {n}] ELSE g[T]) \in Nat
      OBVIOUS
    <2>1. T \ {n} \in SUBSET C
      BY <1>2
    <2>2. g[T \ {n}] \in Nat
      BY <1>1, <2>1
    <2>3. n \notin T => g[T] \in Nat
      BY <1>4, <2>2
    <2>4. w[n] + g[T \ {n}] \in Nat
      BY <1>3, <2>2
    <2> QED
      BY <2>3, <2>4
  <1>6. h[{}] = 0
    BY <1>1
  <1>7. ASSUME NEW T \in SUBSET D, NEW x \in T  PROVE h[T] = w[x] + h[T \ {x}]
    <2> DEFINE U == T \ {x}
    <2>0. U \in SUBSET D
      OBVIOUS
    <2>1. CASE x = n
      <3>1. n \in T /\ U = T \ {n} /\ n \notin U
        BY <2>1
      <3>2. h[T] = w[n] + g[U] /\ h[U] = g[U]
        BY <2>0, <3>1
      <3> HIDE DEF h, U
      <3>3. h[T] = w[x] + h[U]
        BY <2>1, <3>2
      <3> QED
        BY <3>3 DEF U
    <2>2. CASE x # n /\ n \in T
      <3> DEFINE V == T \ {n}
      <3>1. V \in SUBSET C /\ x \in V /\ V \ {x} = U \ {n} /\ n \in U /\ V \ {x} \in SUBSET C
        BY <1>2, <2>0, <2>2
      <3>2. h[T] = w[n] + g[V] /\ h[U] = w[n] + g[U \ {n}]
        BY <2>0, <2>2, <3>1
      <3>3. g[V] = w[x] + g[V \ {x}] /\ g[V \ {x}] \in Nat /\ w[x] \in Nat
        BY <1>1, <1>3, <3>1
      <3>4. w[n] \in Nat /\ g[U \ {n}] = g[V \ {x}]
        BY <1>3, <3>1
      <3> HIDE DEF h, U, V
      <3>5. h[T] = w[n] + (w[x] + g[V \ {x}]) /\ h[U] = w[n] + g[V \ {x}]
        BY <3>2, <3>3, <3>4
      <3> DEFINE a == g[V \ {x}]
                 i == w[n]
                 j == w[x]
      <3>6. a \in Nat /\ i \in Nat /\ j \in Nat /\ h[T] = i + (j + a) /\ h[U] = i + a
        BY <3>3, <3>4, <3>5
      <3> HIDE DEF a, i, j
      <3>7. h[T] = j + h[U]
        BY <3>6
      <3> QED
        BY <3>7 DEF U, j
    <2>3. CASE n \notin T
      <3>1. T \in SUBSET C /\ n \notin U
        BY <1>4, <2>3
      <3>2. h[T] = g[T] /\ h[U] = g[U]
        BY <2>0, <2>3, <3>1
      <3> QED
        BY <1>1, <3>1, <3>2
    <2> QED
      BY <2>1, <2>2, <2>3
  <1> HIDE DEF h
  <1>8. Adds(w, D, h)
    BY <1>5, <1>6, <1>7 DEF Adds
  <1> QED
    BY <1>8

\* There are sums over the sets of the first n channels.
LEMMA AddsExist ==
  ASSUME NEW w \in [Nat -> Nat], NEW n \in Nat
  PROVE  \E g : Adds(w, 0..(n - 1), g)
  <1> DEFINE R == {ss \in Nat \X Nat : ss[1] < ss[2]}
             B == {k \in Nat : ~ \E g : Adds(w, 0..(k - 1), g)}
  <1>1. IsWellFoundedOn(R, Nat)
    BY NatLessThanWellFounded DEF OpToRel
  <1>2. \A x, y \in Nat : x < y => <<x, y>> \in R
    OBVIOUS
  <1> HIDE DEF R
  <1> SUFFICES ASSUME B # {}  PROVE FALSE
    OBVIOUS
  <1>3. PICK k \in B : \A j \in B : ~ (<<j, k>> \in R)
    BY <1>1, WFMin
  <1>4. CASE k = 0
    <2> DEFINE g == [T \in SUBSET (0..(0 - 1)) |-> 0]
    <2>1. 0..(0 - 1) = {}
      OBVIOUS
    <2>2. Adds(w, 0..(0 - 1), g)
      BY <2>1 DEF Adds
    <2> QED
      BY <1>4, <2>2
  <1>5. CASE k # 0
    <2>1. k - 1 \in Nat /\ k - 1 < k /\ k \in Nat
      BY <1>5
    <2>2. k - 1 \notin B
      BY <1>2, <1>3, <2>1
    <2>3. PICK g : Adds(w, 0..((k - 1) - 1), g)
      BY <2>1, <2>2
    <2>4. \E h : Adds(w, 0..(k - 1), h)
      BY <2>1, <2>3, AddsMore
    <2> QED
      BY <2>4
  <1> QED
    BY <1>4, <1>5

\* The size of channel c of a transfer that started with st, and the fold.
SizeIn(st, c) == TransferSize(st.chan[c])
Rest(st, g, ss) == IF ss = {} THEN 0 ELSE LET x == CHOOSE x \in ss : TRUE IN SizeIn(st, x) + g[ss \ {x}]
SumIn(st, S) == (CHOOSE iter : iter = [ss \in SUBSET S |-> Rest(st, iter, ss)])[S]

LEMMA SumIs ==
  ASSUME NEW S
  PROVE  MapThenSumSet(Size, S) = SumIn(started, S)
  BY DEF MapThenSumSet, MapThenFoldSet, SumIn, Rest, Size, SizeIn

StartedType(st) == st.chan \in [Channels -> ChannelType]

\* The fold is such a sum.
LEMMA SumInAdds ==
  ASSUME NEW st, StartedType(st)
  PROVE  \E g : /\ Adds([c \in Nat |-> IF c \in Channels THEN SizeIn(st, c) ELSE 0], Channels, g)
                /\ \A S \in SUBSET Channels : SumIn(st, S) = g[S]
  <1> DEFINE w == [c \in Nat |-> IF c \in Channels THEN SizeIn(st, c) ELSE 0]
  <1>1. w \in [Nat -> Nat] /\ \A c \in Channels : w[c] = SizeIn(st, c)
    <2>1. \A c \in Channels : SizeIn(st, c) \in Nat
      BY SizeType, DmaAssumption DEF StartedType, SizeIn
    <2> QED
      BY <2>1, ChannelsAreNat
  <1> HIDE DEF w
  <1>2. Channels = 0..((LastChannel + 1) - 1) /\ LastChannel + 1 \in Nat
    BY DmaAssumption DEF Channels
  <1>3. PICK g : Adds(w, Channels, g)
    BY <1>1, <1>2, AddsExist
  <1>4. /\ g \in [SUBSET Channels -> Nat] /\ g[{}] = 0
        /\ \A T \in SUBSET Channels : \A x \in T : g[T] = SizeIn(st, x) + g[T \ {x}]
    BY <1>1, <1>3 DEF Adds
  <1>5. ASSUME NEW S \in SUBSET Channels  PROVE SumIn(st, S) = g[S]
    <2> DEFINE F(f) == [ss \in SUBSET S |-> Rest(st, f, ss)]
               k == [ss \in SUBSET S |-> g[ss]]
               iter == CHOOSE f : f = F(f)
    <2>1. k = F(k)
      <3> SUFFICES ASSUME NEW ss \in SUBSET S  PROVE g[ss] = Rest(st, k, ss)
        OBVIOUS
      <3>1. CASE ss = {}
        BY <1>4, <3>1 DEF Rest
      <3>2. CASE ss # {}
        <4> DEFINE x == CHOOSE x \in ss : TRUE
        <4>1. x \in ss
          BY <3>2
        <4> HIDE DEF x
        <4>2. ss \in SUBSET Channels /\ ss \ {x} \in SUBSET S
          OBVIOUS
        <4>3. g[ss] = SizeIn(st, x) + g[ss \ {x}] /\ k[ss \ {x}] = g[ss \ {x}]
          BY <1>4, <4>1, <4>2
        <4> QED
          BY <3>2, <4>3 DEF Rest, x
      <3> QED
        BY <3>1, <3>2
    <2>2. iter = F(iter)
      BY <2>1
    <2>3. SumIn(st, S) = iter[S]
      BY DEF SumIn
    <2> HIDE DEF iter
    <2>4. \A ss \in SUBSET S : iter[ss] = Rest(st, iter, ss)
      BY <2>2
    <2> DEFINE R == {p \in Nat \X Nat : p[1] < p[2]}
               B == {n \in Nat : \E ss \in SUBSET S : Cardinality(ss) = n /\ iter[ss] # g[ss]}
    <2>5. IsWellFoundedOn(R, Nat)
      BY NatLessThanWellFounded DEF OpToRel
    <2>6. \A x, y \in Nat : x < y => <<x, y>> \in R
      OBVIOUS
    <2> HIDE DEF R
    <2>7. \A ss \in SUBSET S : IsFiniteSet(ss) /\ Cardinality(ss) \in Nat
      <3>1. IsFiniteSet(Channels)
        BY FS_Interval, DmaAssumption DEF Channels
      <3> QED
        BY <3>1, FS_Subset, FS_CardinalityType
    <2>8. B = {}
      <3> SUFFICES ASSUME B # {}  PROVE FALSE
        OBVIOUS
      <3>1. PICK n \in B : \A m \in B : ~ (<<m, n>> \in R)
        BY <2>5, WFMin
      <3>2. PICK ss \in SUBSET S : Cardinality(ss) = n /\ iter[ss] # g[ss]
        BY <3>1
      <3>3. ss # {}
        BY <1>4, <2>4, <3>2 DEF Rest
      <3> DEFINE x == CHOOSE x \in ss : TRUE
      <3>4. x \in ss
        BY <3>3
      <3>5. iter[ss] = SizeIn(st, x) + iter[ss \ {x}]
        BY <2>4, <3>3 DEF Rest
      <3> HIDE DEF x
      <3>6. ss \in SUBSET Channels /\ ss \ {x} \in SUBSET S
        OBVIOUS
      <3>7. Cardinality(ss \ {x}) = n - 1 /\ Cardinality(ss \ {x}) \in Nat /\ n \in Nat
        BY <2>7, <3>2, <3>4, <3>6, FS_RemoveElement
      <3>8. n - 1 \notin B
        <4> DEFINE m == n - 1
        <4>1. m \in Nat /\ n \in Nat /\ m < n
          BY <3>7
        <4> HIDE DEF m, B
        <4>2. <<m, n>> \in R
          BY <2>6, <4>1
        <4>3. m \notin B
          BY <3>1, <4>2
        <4> QED
          BY <4>3 DEF m
      <3>9. iter[ss \ {x}] = g[ss \ {x}]
        BY <3>6, <3>7, <3>8
      <3>10. g[ss] = SizeIn(st, x) + g[ss \ {x}]
        BY <1>4, <3>4, <3>6
      <3> QED
        BY <3>2, <3>5, <3>9, <3>10
    <2>9. iter[S] = g[S]
      <3>1. S \in SUBSET S /\ Cardinality(S) \in Nat
        BY <2>7
      <3> QED
        BY <2>8, <3>1
    <2> QED
      BY <2>3, <2>9
  <1> QED
    BY <1>3, <1>5 DEF w

\* The fold over no channel, and over one channel more.
LEMMA SumSteps ==
  ASSUME NEW st, StartedType(st)
  PROVE  /\ SumIn(st, {}) = 0
         /\ \A S \in SUBSET Channels : SumIn(st, S) \in Nat
         /\ \A S \in SUBSET Channels : \A c \in Channels \ S :
              SumIn(st, S \cup {c}) = SumIn(st, S) + SizeIn(st, c)
  <1> DEFINE w == [c \in Nat |-> IF c \in Channels THEN SizeIn(st, c) ELSE 0]
  <1>1. PICK g : Adds(w, Channels, g) /\ \A S \in SUBSET Channels : SumIn(st, S) = g[S]
    BY SumInAdds
  <1>2. /\ g \in [SUBSET Channels -> Nat] /\ g[{}] = 0
        /\ \A T \in SUBSET Channels : \A x \in T : g[T] = w[x] + g[T \ {x}]
    BY <1>1 DEF Adds
  <1>3. \A c \in Channels : w[c] = SizeIn(st, c) /\ SizeIn(st, c) \in Nat
    BY SizeType, ChannelsAreNat, DmaAssumption DEF StartedType, SizeIn
  <1> HIDE DEF w
  <1>4. ASSUME NEW S \in SUBSET Channels, NEW c \in Channels \ S
        PROVE  SumIn(st, S \cup {c}) = SumIn(st, S) + SizeIn(st, c)
    <2>1. S \cup {c} \in SUBSET Channels /\ c \in S \cup {c} /\ (S \cup {c}) \ {c} = S
      OBVIOUS
    <2>2. g[S \cup {c}] = w[c] + g[S] /\ g[S] \in Nat
      BY <1>2, <2>1
    <2> QED
      BY <1>1, <1>3, <2>1, <2>2
  <1>5. {} \in SUBSET Channels
    OBVIOUS
  <1> QED
    BY <1>1, <1>2, <1>4, <1>5

-----------------------------------------------------------------------------
(* The cycles.  Those of the channels begun are charged, each in advance.  *)

Begun == IF pc \in {"read", "write"} THEN (started.mask \ mask) \cup {job.c}
         ELSE started.mask \ mask

Cost(st, S) == UnitCycles * (1 + Cardinality(S) + SumIn(st, S))

Charged == (pc # "cpu" \/ started.mask # {}) => cycles = Cost(started, Begun)

LEMMA CostSteps ==
  ASSUME NEW st, StartedType(st)
  PROVE  /\ Cost(st, {}) = UnitCycles
         /\ \A S \in SUBSET Channels : \A c \in Channels \ S :
              Cost(st, S \cup {c}) = Cost(st, S) + UnitCycles + UnitCycles * SizeIn(st, c)
  <1>0. UnitCycles \in Nat
    BY DmaAssumption
  <1>1. Cost(st, {}) = UnitCycles
    <2>1. Cardinality({}) = 0 /\ SumIn(st, {}) = 0
      BY FS_EmptySet, SumSteps
    <2>2. 1 + 0 + 0 = 1 /\ UnitCycles * 1 = UnitCycles
      BY <1>0
    <2> QED
      BY <2>1, <2>2 DEF Cost
  <1>2. ASSUME NEW S \in SUBSET Channels, NEW c \in Channels \ S
        PROVE  Cost(st, S \cup {c}) = Cost(st, S) + UnitCycles + UnitCycles * SizeIn(st, c)
    <2>1. IsFiniteSet(S)
      <3>1. IsFiniteSet(Channels)
        BY FS_Interval, DmaAssumption DEF Channels
      <3> QED
        BY <3>1, FS_Subset
    <2>2. Cardinality(S) \in Nat /\ Cardinality(S \cup {c}) = Cardinality(S) + 1
      BY <2>1, FS_AddElement, FS_CardinalityType
    <2>3. SumIn(st, S) \in Nat /\ SumIn(st, S \cup {c}) = SumIn(st, S) + SizeIn(st, c)
      BY SumSteps
    <2>4. SizeIn(st, c) \in Nat
      BY SizeType, DmaAssumption DEF StartedType, SizeIn
    <2>5. \A u, a, z, y \in Nat : u * (1 + (a + 1) + (z + y)) = u * (1 + a + z) + u + u * y
      OBVIOUS
    <2> QED
      BY <1>0, <2>2, <2>3, <2>4, <2>5 DEF Cost
  <1> QED
    BY <1>1, <1>2

LEMMA ChargedInit == Init => Charged
  BY DEF Init, Charged

LEMMA ChargedStep == IInv /\ Charged /\ [Next]_vars => Charged'
  <1> SUFFICES ASSUME IInv, Charged, [Next]_vars  PROVE Charged'
    OBVIOUS
  <1>0. /\ StartedType(started) /\ mask \subseteq started.mask /\ started.mask \subseteq Channels
        /\ chan \in [Channels -> ChannelType]
    BY DEF IInv, TypeOK, InOrder, StartedType
  <1>1. ASSUME NEW c \in Channels, NEW ch \in Settings[c], Store(c, ch)  PROVE Charged'
    BY <1>1 DEF Store, Charged, Begun
  <1>2. ASSUME NEW m \in SUBSET Channels, StoreMdmaen(m)  PROVE Charged'
    <2>1. /\ cycles' = UnitCycles /\ mask' = m /\ pc' = "next"
          /\ started' = [chan |-> chan, mask |-> m]
      BY <1>2 DEF StoreMdmaen
    <2>2. Begun' = {}
      BY <2>1 DEF Begun
    <2>3. StartedType(started')
      BY <1>0, <2>1 DEF StartedType
    <2> QED
      BY <2>1, <2>2, <2>3, CostSteps DEF Charged
  <1>3. CASE NextChannel
    <2>1. mask # {} /\ mask \in SUBSET Nat /\ mask \subseteq Channels
      BY <1>0, <1>3, ChannelsAreNat DEF IInv, InOrder, NextChannel
    <2>2. PICK c \in mask : c = Lowest(mask)
      BY <2>1, LowestIs
    <2>3. /\ pc = "next" /\ pc' = "read" /\ job'.c = c
          /\ cycles' = cycles + UnitCycles + UnitCycles * TransferSize(chan[c])
          /\ UNCHANGED <<mask, started>>
      BY <1>3, <2>2 DEF NextChannel
    <2>4. Begun = started.mask \ mask /\ Begun' = Begun \cup {c}
      BY <2>3 DEF Begun
    <2>5. Begun \in SUBSET Channels /\ c \in Channels \ Begun
      BY <1>0, <2>1, <2>2, <2>4
    <2>6. TransferSize(chan[c]) = SizeIn(started, c)
      BY <2>2 DEF IInv, InOrder, SizeIn
    <2>7. cycles = Cost(started, Begun)
      BY <2>3 DEF Charged
    <2>8. cycles' = Cost(started, Begun \cup {c})
      BY <1>0, <2>3, <2>5, <2>6, <2>7, CostSteps
    <2> QED
      BY <2>3, <2>4, <2>8 DEF Charged
  <1>4. CASE ReadByte \/ WriteByte
    <2>1. /\ pc \in {"read", "write"} /\ pc' \in {"read", "write"} /\ job'.c = job.c
          /\ UNCHANGED <<mask, started, cycles>>
      BY <1>4 DEF ReadByte, WriteByte, IInv, TypeOK, JobType
    <2>2. Begun' = Begun
      BY <2>1 DEF Begun
    <2> QED
      BY <2>1, <2>2 DEF Charged
  <1>5. CASE FinishChannel
    <2>1. /\ pc = "read" /\ mask' = mask \ {job.c} /\ pc' \in {"cpu", "next"}
          /\ UNCHANGED <<started, cycles>>
      BY <1>5 DEF FinishChannel
    <2>2. job.c \in mask
      BY <2>1, ServingIs
    <2>3. Begun' = Begun
      BY <1>0, <2>1, <2>2 DEF Begun
    <2> QED
      BY <2>1, <2>3 DEF Charged
  <1>6. CASE UNCHANGED vars
    BY <1>6 DEF vars, Charged, Begun
  <1> QED
    BY <1>1, <1>2, <1>3, <1>4, <1>5, <1>6 DEF Next, Transfer

\* When the CPU goes on, every channel of the mask has moved all its bytes, and
\* exactly their cycles have been charged (do_dma's result).
THEOREM DmaComplete == Spec => []Complete
  <1>1. IInv /\ Charged => Complete
    <2> SUFFICES ASSUME IInv, Charged, pc = "cpu", started.mask # {}
                 PROVE  /\ \A c \in started.mask : moved[c] = Size(c)
                        /\ cycles = UnitCycles * (1 + Cardinality(started.mask)
                                                   + MapThenSumSet(Size, started.mask))
      BY DEF Complete
    <2>1. mask = {} /\ Begun = started.mask
      BY DEF IInv, InOrder, Begun
    <2>2. \A c \in started.mask : moved[c] = Size(c)
      BY <2>1 DEF IInv, InOrder
    <2>3. cycles = Cost(started, started.mask)
      BY <2>1 DEF Charged
    <2> QED
      BY <2>2, <2>3, SumIs DEF Cost
  <1>2. Spec => []Charged
    BY ChargedInit, ChargedStep, DmaInvariance, PTL DEF Spec
  <1> QED
    BY <1>1, <1>2, DmaInvariance, PTL
=============================================================================
