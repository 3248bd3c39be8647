----------------------------- MODULE HdmaProofs -----------------------------
(***************************************************************************)
(* A channel enabled for a whole frame sends what its table says: for any  *)
(* number of channels, any width of the registers, any memory and any      *)
(* tables in it, whatever the program stores in the meantime.              *)
(***************************************************************************)
EXTENDS Hdma, Integers, TLAPS

-----------------------------------------------------------------------------
(* Bytes and addresses.                                                    *)

LEMMA MulMono ==
  ASSUME NEW a \in Nat, NEW x \in Nat, NEW y \in Nat, x <= y
  PROVE  a * x <= a * y
  OBVIOUS

\* Two bytes are an address.
LEMMA WordInRange ==
  ASSUME NEW B \in Nat \ {0}, NEW lo \in 0..(B - 1), NEW hi \in 0..(B - 1)
  PROVE  lo + B * hi \in 0..(B * B - 1)
  <1>1. B * hi <= B * (B - 1)
    BY MulMono
  <1>2. B * (B - 1) = B * B - B
    OBVIOUS
  <1>3. B * hi \in Nat /\ B * B \in Nat
    OBVIOUS
  <1> QED
    BY <1>1, <1>2, <1>3

\* So is an address whose low byte was replaced.
LEMMA LowInRange ==
  ASSUME NEW B \in Nat \ {0}, NEW lo \in 0..(B - 1), NEW a \in 0..(B * B - 1)
  PROVE  (a - (a % B)) + lo \in 0..(B * B - 1)
  <1>1. B * B \in Nat
    OBVIOUS
  <1>2. a \div B \in Nat /\ a % B \in 0..(B - 1) /\ a = B * (a \div B) + (a % B)
    BY <1>1
  <1>3. a \div B <= B - 1
    <2> SUFFICES ASSUME a \div B >= B  PROVE FALSE
      BY <1>2
    <2>1. B * B <= B * (a \div B)
      BY <1>2, MulMono
    <2> QED
      BY <2>1, <1>1, <1>2
  <1>4. B * (a \div B) <= B * (B - 1)
    BY <1>2, <1>3, MulMono
  <1>5. B * (B - 1) = B * B - B
    OBVIOUS
  <1>6. B * (a \div B) \in Nat
    BY <1>2
  <1> QED
    BY <1>1, <1>2, <1>4, <1>5, <1>6

LEMMA Sizes ==
  /\ RepeatBit \in Nat /\ RepeatBit > 1
  /\ ByteSize \in Nat \ {0} /\ ByteSize = 2 * RepeatBit
  /\ AddressSize \in Nat /\ AddressSize > 0
  /\ Top \in Address
  /\ 0 \in Byte /\ 0 \in Address /\ ByteSize - 1 \in Byte
  <1>1. RepeatBit \in Nat /\ RepeatBit > 1 /\ ByteSize \in Nat \ {0} /\ ByteSize = 2 * RepeatBit
    BY DmaAssumption DEF ByteSize
  <1>2. AddressSize \in Nat /\ AddressSize > 0
    <2>1. ByteSize * 1 <= ByteSize * ByteSize
      BY <1>1, MulMono
    <2> QED
      BY <1>1, <2>1 DEF AddressSize
  <1> QED
    BY <1>1, <1>2 DEF Top, Address, Byte

LEMMA PlusType ==
  ASSUME NEW a \in Nat, NEW n \in Nat
  PROVE  /\ Plus(a, n) \in Address
         /\ a + n < AddressSize => Plus(a, n) = a + n
  BY Sizes DEF Plus, Address

LEMMA AddressFits ==
  ASSUME NEW a \in Nat, a < AddressSize
  PROVE  a \in Address /\ a % AddressSize = a
  BY Sizes DEF Address

LEMMA StoredType ==
  ASSUME NEW word \in Address, NEW b \in Byte
  PROVE  SetLow(word, b) \in Address /\ SetHigh(word, b) \in Address
  <1>1. word % ByteSize \in 0..(ByteSize - 1)
    BY Sizes DEF Address
  <1> QED
    BY <1>1, Sizes, WordInRange, LowInRange DEF Address, Byte, AddressSize, SetLow, SetHigh

LEMMA LoadType ==
  ASSUME NEW ch \in ChannelType, NEW a \in Nat
  PROVE  Load(ch, a) \in Byte /\ LoadWord(ch, a) \in Address
  <1>1. ASSUME NEW x \in Nat  PROVE Load(ch, x) \in Byte
    <2>1. x % AddressSize \in Address
      BY Sizes DEF Address
    <2>2. Memory[ch.a_addr_bank] \in [Address -> Byte]
      BY DmaAssumption DEF ChannelType
    <2> QED
      BY <2>1, <2>2 DEF Load
  <1>2. Load(ch, a) \in Byte /\ Load(ch, a + 1) \in Byte
    BY <1>1
  <1> QED
    BY <1>2, Sizes, WordInRange DEF LoadWord, Byte, Address, AddressSize

-----------------------------------------------------------------------------
(* Type correctness.                                                       *)

LEMMA UnitType ==
  ASSUME NEW p \in ParamsType
  PROVE  UnitSize[p.mode + 1] \in Nat \ {0}
  <1>1. p.mode + 1 \in 1..Len(UnitSize)
    BY DmaAssumption DEF ParamsType
  <1> QED
    BY <1>1, DmaAssumption

\* The settings init_hdma and do_hdma leave alone.
SameSettings(new, ch) ==
  /\ new.params = ch.params /\ new.a_addr = ch.a_addr
  /\ new.a_addr_bank = ch.a_addr_bank
  /\ new.hdma_indirect_bank = ch.hdma_indirect_bank

LEMMA HdmaStateType ==
  ASSUME NEW ch \in ChannelType, NEW addr \in Address, NEW flags \in Byte,
         NEW size \in Address, NEW transfer \in BOOLEAN,
         NEW new, new = HdmaState(ch, addr, flags, size, transfer)
  PROVE  /\ new \in ChannelType
         /\ SameSettings(new, ch)
         /\ new.hdma_addr = addr /\ new.hdma_flags = flags
         /\ new.dma_size = size /\ new.hdma_do_transfer = transfer
  BY DEF ChannelType, HdmaState, SameSettings

\* What reading an entry does to a channel.
LEMMA ReadEntryType ==
  ASSUME NEW ch \in ChannelType, NEW a \in Address
  PROVE  LET new == ReadEntry(ch, a)
         IN  /\ new \in ChannelType
             /\ SameSettings(new, ch)
             /\ new.hdma_addr = Plus(a, IF ch.params.indirect THEN 3 ELSE 1)
             /\ new.hdma_flags = Load(ch, a)
             /\ new.dma_size = IF ch.params.indirect THEN LoadWord(ch, a + 1) ELSE ch.dma_size
             /\ new.hdma_do_transfer = TRUE
  <1> DEFINE addr  == Plus(a, IF ch.params.indirect THEN 3 ELSE 1)
             flags == Load(ch, a)
             size  == IF ch.params.indirect THEN LoadWord(ch, a + 1) ELSE ch.dma_size
             transfer == TRUE
  <1>1. a \in Nat /\ ch.dma_size \in Address
    BY Sizes DEF ChannelType, Address
  <1>2. addr \in Address /\ flags \in Byte /\ size \in Address
    BY <1>1, PlusType, LoadType
  <1>3. ReadEntry(ch, a) = HdmaState(ch, addr, flags, size, transfer)
    BY DEF ReadEntry
  <1>4. transfer \in BOOLEAN
    OBVIOUS
  <1> HIDE DEF addr, flags, size, transfer
  <1>5. LET new == ReadEntry(ch, a)
        IN  /\ new \in ChannelType
            /\ SameSettings(new, ch)
            /\ new.hdma_addr = addr /\ new.hdma_flags = flags
            /\ new.dma_size = size /\ new.hdma_do_transfer = transfer
    BY <1>2, <1>3, <1>4, HdmaStateType
  <1> QED
    BY <1>5 DEF addr, flags, size, transfer

\* What a line does to a channel: a unit is sent if the line has a transfer.
LEMMA CountLineType ==
  ASSUME NEW ch \in ChannelType, ~Halted(ch)
  PROVE  LET new  == CountLine(ch)
             unit == IF ch.hdma_do_transfer THEN UnitSize[ch.params.mode + 1] ELSE 0
         IN  /\ new \in ChannelType
             /\ SameSettings(new, ch)
             /\ new.hdma_addr = IF ch.params.indirect THEN ch.hdma_addr
                                ELSE Plus(ch.hdma_addr, unit)
             /\ new.hdma_flags = ch.hdma_flags - 1
             /\ new.dma_size = IF ch.params.indirect THEN Plus(ch.dma_size, unit)
                               ELSE ch.dma_size
             /\ new.hdma_do_transfer = (ch.hdma_flags - 1 >= RepeatBit)
  <1> DEFINE unit  == IF ch.hdma_do_transfer THEN UnitSize[ch.params.mode + 1] ELSE 0
             addr  == IF ch.params.indirect THEN ch.hdma_addr ELSE Plus(ch.hdma_addr, unit)
             flags == ch.hdma_flags - 1
             size  == IF ch.params.indirect THEN Plus(ch.dma_size, unit) ELSE ch.dma_size
             transfer == ch.hdma_flags - 1 >= RepeatBit
  <1>1. unit \in Nat
    BY UnitType DEF ChannelType
  <1>2. ch.dma_size \in Address /\ ch.hdma_addr \in Address /\ ch.hdma_flags \in Byte
    BY DEF ChannelType
  <1>3. ch.dma_size \in Nat /\ ch.hdma_addr \in Nat
    BY <1>2, Sizes DEF Address
  <1>4. flags \in Byte /\ transfer \in BOOLEAN
    BY <1>2, Sizes DEF Halted, Byte
  <1>5. CountLine(ch) = HdmaState(ch, addr, flags, size, transfer)
    BY DEF CountLine
  <1> HIDE DEF unit
  <1>6. addr \in Address /\ size \in Address
    BY <1>1, <1>2, <1>3, PlusType
  <1> HIDE DEF addr, size, flags, transfer
  <1>7. LET new == CountLine(ch)
        IN  /\ new \in ChannelType
            /\ SameSettings(new, ch)
            /\ new.hdma_addr = addr /\ new.hdma_flags = flags
            /\ new.dma_size = size /\ new.hdma_do_transfer = transfer
    BY <1>4, <1>5, <1>6, HdmaStateType
  <1> QED
    BY <1>7 DEF addr, size, flags, transfer, unit

LEMMA AfterLineType ==
  ASSUME NEW ch \in ChannelType
  PROVE  AfterLine(ch) \in ChannelType
  <1>1. CASE Halted(ch)
    BY <1>1 DEF AfterLine
  <1>2. CASE ~Halted(ch)
    <2>1. CountLine(ch) \in ChannelType
      BY <1>2, CountLineType
    <2>2. CountLine(ch).hdma_addr \in Address
      BY <2>1 DEF ChannelType
    <2> QED
      BY <1>2, <2>1, <2>2, ReadEntryType DEF AfterLine
  <1> QED
    BY <1>1, <1>2

-----------------------------------------------------------------------------
(* A channel and its table.                                                *)

\* What the layout of a table says of one entry.
LEMMA EntryFacts ==
  ASSUME NEW t \in Tables, NEW k \in 1..Len(t.entries)
  PROVE  /\ t.entries[k] \in [lines : Nat \ {0}, repeat : BOOLEAN]
         /\ t.unit \in Nat \ {0} /\ t.unit = UnitSize[t.params.mode + 1]
         /\ t.header[k] \in Nat /\ t.header[k] + 3 < AddressSize
         /\ t.header[k + 1] \in Nat /\ t.data[k] \in Nat
         /\ t.entries[k].repeat => t.entries[k].lines < RepeatBit
         /\ t.entries[k].lines <= RepeatBit
         /\ Memory[t.bank][t.header[k]] = Counter(t.entries[k])
         /\ t.data[k] = IF t.params.indirect THEN Pointer(t, k) ELSE t.header[k] + 1
         /\ t.header[k + 1] = IF t.params.indirect THEN t.header[k] + 3
                              ELSE t.header[k] + 1 + t.unit * UnitsOf(t.entries[k])
         /\ t.data[k] + t.unit * UnitsOf(t.entries[k]) < AddressSize
  <1>1. WellFormed(t)
    BY TableAssumption
  <1>2. Len(t.entries) \in Nat /\ t.entries[k] \in [lines : Nat \ {0}, repeat : BOOLEAN]
    <2> DEFINE E == [lines : Nat \ {0}, repeat : BOOLEAN]
    <2>1. t.entries \in Seq(E)
      BY <1>1, Zenon DEF WellFormed
    <2> HIDE DEF E
    <2>2. Len(t.entries) \in Nat /\ t.entries[k] \in E
      BY <2>1
    <2> QED
      BY <2>2 DEF E
  <1>3. t.unit \in Nat \ {0} /\ t.unit = UnitSize[t.params.mode + 1]
    BY <1>1, UnitType DEF WellFormed
  <1>4. t.header[k] \in Nat /\ t.header[k + 1] \in Nat /\ t.data[k] \in Nat
    <2>1. /\ t.header \in [1..(Len(t.entries) + 1) -> Nat]
          /\ t.data \in [1..Len(t.entries) -> Nat]
      BY <1>1, Zenon DEF WellFormed
    <2>2. k \in 1..(Len(t.entries) + 1) /\ k + 1 \in 1..(Len(t.entries) + 1)
      BY <1>2
    <2> QED
      BY <2>1, <2>2
  <1>5. /\ IF t.entries[k].repeat THEN t.entries[k].lines < RepeatBit
                                 ELSE t.entries[k].lines <= RepeatBit
        /\ t.header[k] + 3 < AddressSize
        /\ Memory[t.bank][t.header[k]] = Counter(t.entries[k])
        /\ t.data[k] = IF t.params.indirect THEN Pointer(t, k) ELSE t.header[k] + 1
        /\ t.header[k + 1] = IF t.params.indirect THEN t.header[k] + 3
                             ELSE t.header[k] + 1 + t.unit * UnitsOf(t.entries[k])
        /\ t.data[k] + t.unit * UnitsOf(t.entries[k]) < AddressSize
    BY <1>1, Zenon DEF WellFormed
  <1> QED
    BY <1>2, <1>3, <1>4, <1>5, Sizes

\* The channel has the settings of the table.
Settings(ch, t) ==
  /\ ch.params = t.params /\ ch.a_addr_bank = t.bank
  /\ t.params.indirect => ch.hdma_indirect_bank = t.data_bank

\* Reading the k-th header puts a channel at the beginning of entry k.
LEMMA ReadPlace ==
  ASSUME NEW ch \in ChannelType, NEW t \in Tables, NEW k \in 1..(Len(t.entries) + 1),
         Settings(ch, t)
  PROVE  /\ t.header[k] \in Address
         /\ Place(ReadEntry(ch, t.header[k]), t, k, 0)
  <1> DEFINE a == t.header[k]
             new == ReadEntry(ch, a)
  <1>1. Len(t.entries) \in Nat /\ a \in Nat
    BY TableAssumption DEF WellFormed
  <1>2. a + 3 < AddressSize
    <2>1. CASE k = Len(t.entries) + 1
      BY <2>1, TableAssumption DEF WellFormed
    <2>2. CASE k # Len(t.entries) + 1
      BY <2>2, <1>1, EntryFacts
    <2> QED
      BY <2>1, <2>2
  <1>3. a \in Address
    BY <1>1, <1>2, Sizes DEF Address
  <1>4. Load(ch, a) = Memory[t.bank][a]
    <2>1. a % AddressSize = a
      BY <1>1, <1>2, AddressFits, Sizes
    <2> QED
      BY <2>1 DEF Load, Settings
  <1>5. LoadWord(ch, a + 1) = Memory[t.bank][a + 1] + ByteSize * Memory[t.bank][a + 2]
    <2>1. a + 1 \in Nat /\ a + 2 \in Nat /\ a + 1 < AddressSize /\ a + 2 < AddressSize
      BY <1>1, <1>2, Sizes, SMTT(30)
    <2>2. (a + 1) % AddressSize = a + 1 /\ (a + 2) % AddressSize = a + 2
      BY <2>1, AddressFits
    <2>3. (a + 1) + 1 = a + 2
      BY <1>1
    <2> QED
      BY <2>2, <2>3 DEF LoadWord, Load, Settings
  <1>6. /\ Settings(new, t)
        /\ new.hdma_flags = Memory[t.bank][a]
        /\ new.hdma_do_transfer = TRUE
        /\ t.params.indirect => /\ new.hdma_addr = a + 3
                                /\ new.dma_size = LoadWord(ch, a + 1)
        /\ ~t.params.indirect => new.hdma_addr = a + 1
    <2>1. Plus(a, 3) = a + 3 /\ Plus(a, 1) = a + 1
      BY <1>1, <1>2, PlusType, Sizes
    <2> HIDE DEF a
    <2>2. /\ SameSettings(new, ch)
          /\ new.hdma_addr = Plus(a, IF ch.params.indirect THEN 3 ELSE 1)
          /\ new.hdma_flags = Load(ch, a)
          /\ new.dma_size = IF ch.params.indirect THEN LoadWord(ch, a + 1) ELSE ch.dma_size
          /\ new.hdma_do_transfer = TRUE
      BY <1>3, ReadEntryType
    <2> QED
      BY <2>1, <2>2, <1>4 DEF Settings, SameSettings
  <1>7. CASE k = Len(t.entries) + 1
    <2>1. Memory[t.bank][a] = 0
      BY <1>7, TableAssumption DEF WellFormed
    <2> HIDE DEF new
    <2>2. Place(new, t, k, 0)
      BY <2>1, <1>1, <1>6, <1>7 DEF Place, Halted, Settings
    <2> QED
      BY <2>2, <1>3 DEF new
  <1>8. CASE k # Len(t.entries) + 1
    <2>1. k \in 1..Len(t.entries)
      BY <1>1, <1>8
    <2>2. /\ t.entries[k].lines \in Nat \ {0} /\ t.unit \in Nat /\ t.data[k] \in Nat
          /\ Memory[t.bank][a] = Counter(t.entries[k])
          /\ t.data[k] = IF t.params.indirect THEN Pointer(t, k) ELSE a + 1
      BY <2>1, EntryFacts
    <2>3. t.data[k] + t.unit * UnitsSent(t.entries[k], 0) = t.data[k]
      BY <2>2 DEF UnitsSent
    <2>4. Counter(t.entries[k]) - 0 = Counter(t.entries[k])
      BY <2>2, Sizes DEF Counter
    <2> HIDE DEF new
    <2>5. t.params.indirect => new.dma_size = t.data[k] /\ new.hdma_addr = t.header[k] + 3
      BY <2>2, <1>5, <1>6 DEF Pointer
    <2>6. ~t.params.indirect => new.hdma_addr = t.data[k]
      BY <2>2, <1>6
    <2>7. new.hdma_do_transfer = (t.entries[k].repeat \/ 0 = 0)
      BY <1>6
    <2>8. 0 < t.entries[k].lines /\ ~(k > Len(t.entries))
      BY <2>1, <2>2, <1>1
    <2>9. Place(new, t, k, 0)
      BY <2>2, <2>3, <2>4, <2>5, <2>6, <2>7, <2>8, <1>6 DEF Place, Settings
    <2> QED
      BY <2>9, <1>3 DEF new
  <1> QED
    BY <1>7, <1>8

\* The data of an entry, unit by unit.
LEMMA UnitArithmetic ==
  ASSUME NEW u \in Nat, NEW lines \in Nat \ {0}, NEW r \in BOOLEAN,
         NEW n \in Nat, n < lines, NEW d \in Nat, NEW A \in Nat,
         NEW before, before = u * (IF r THEN n ELSE IF n = 0 THEN 0 ELSE 1),
         NEW after, after = u * (IF r THEN n + 1 ELSE IF n + 1 = 0 THEN 0 ELSE 1),
         NEW whole, whole = u * (IF r THEN lines ELSE 1),
         d + whole < A
  PROVE  /\ before \in Nat /\ after \in Nat
         /\ after = before + (IF r \/ n = 0 THEN u ELSE 0)
         /\ d + after < A
         /\ n + 1 = lines => after = whole
         /\ r \/ n = 0 => before = u * n
  <1>1. u * (n + 1) = u * n + u /\ u * n \in Nat /\ u * lines \in Nat /\ u * 0 = 0 /\ u * 1 = u
    OBVIOUS
  <1>2. u * (n + 1) <= u * lines
    BY MulMono
  <1>3. CASE r
    BY <1>1, <1>2, <1>3
  <1>4. CASE ~r
    BY <1>1, <1>4
  <1> QED
    BY <1>3, <1>4

\* A line of entry k: a unit is sent on the lines that have one, and the line
\* counter is done exactly on the entry's last line.
LEMMA LinePlace ==
  ASSUME NEW ch \in ChannelType, NEW t \in Tables, NEW k \in 1..Len(t.entries),
         NEW n \in Nat, Place(ch, t, k, n)
  PROVE  /\ ~Halted(ch)
         /\ ch.hdma_do_transfer = (t.entries[k].repeat \/ n = 0)
         /\ ch.hdma_do_transfer =>
              Source(ch) = [bank |-> t.data_bank, addr |-> t.data[k] + t.unit * n]
         /\ LineCounterDone(CountLine(ch)) <=> n + 1 = t.entries[k].lines
         /\ Place(AfterLine(ch), t,
                  IF n + 1 = t.entries[k].lines THEN k + 1 ELSE k,
                  IF n + 1 = t.entries[k].lines THEN 0 ELSE n + 1)
  <1> DEFINE e    == t.entries[k]
             sent_before == t.unit * UnitsSent(e, n)
             sent_after  == t.unit * UnitsSent(e, n + 1)
             new  == CountLine(ch)
  <1>1. /\ e.lines \in Nat \ {0} /\ e.repeat \in BOOLEAN
        /\ e.repeat => e.lines < RepeatBit
        /\ e.lines <= RepeatBit
        /\ t.unit \in Nat /\ t.unit = UnitSize[t.params.mode + 1]
        /\ t.data[k] \in Nat /\ t.header[k] \in Nat
        /\ t.data[k] + t.unit * UnitsOf(e) < AddressSize
        /\ t.data[k] = IF t.params.indirect THEN Pointer(t, k) ELSE t.header[k] + 1
        /\ t.header[k + 1] = IF t.params.indirect THEN t.header[k] + 3
                             ELSE t.header[k] + 1 + t.unit * UnitsOf(e)
    BY EntryFacts
  <1>2. /\ Settings(ch, t)
        /\ n < e.lines
        /\ ch.hdma_flags = Counter(e) - n
        /\ ch.hdma_do_transfer = (e.repeat \/ n = 0)
        /\ t.params.indirect => /\ ch.dma_size = t.data[k] + sent_before
                                /\ ch.hdma_addr = t.header[k] + 3
        /\ ~t.params.indirect => ch.hdma_addr = t.data[k] + sent_before
    <2>1. ~(k > Len(t.entries))
      <3>1. Len(t.entries) \in Nat
        BY TableAssumption DEF WellFormed
      <3> QED
        BY <3>1
    <2> QED
      BY <2>1 DEF Place, Settings
  <1>3. ~Halted(ch)
    BY <1>1, <1>2, Sizes DEF Halted, Counter
  <1>c. /\ (Counter(e) - n) - 1 \in Nat /\ Counter(e) - (n + 1) = (Counter(e) - n) - 1
        /\ ((Counter(e) - n) - 1) % RepeatBit = 0 <=> n + 1 = e.lines
        /\ n + 1 # e.lines => ((Counter(e) - n) - 1 >= RepeatBit <=> e.repeat)
    <2>1. Counter(e) = IF e.repeat THEN RepeatBit + e.lines ELSE e.lines
      BY DEF Counter
    <2> HIDE DEF e
    <2>2. PICK r \in BOOLEAN, lines \in Nat \ {0}, c \in Nat :
            r = e.repeat /\ lines = e.lines /\ c = Counter(e)
      BY <1>1, <2>1, Sizes, SMTT(30)
    <2>3. /\ lines <= RepeatBit /\ (r => lines < RepeatBit) /\ n < lines
          /\ c = IF r THEN RepeatBit + lines ELSE lines
      BY <1>1, <1>2, <2>1, <2>2
    <2>4. /\ (c - n) - 1 \in Nat /\ c - (n + 1) = (c - n) - 1
          /\ ((c - n) - 1) % RepeatBit = 0 <=> n + 1 = lines
          /\ n + 1 # lines => ((c - n) - 1 >= RepeatBit <=> r)
      <3> DEFINE left == lines - (n + 1)
      <3>1. left \in 0..(RepeatBit - 1) /\ (left = 0 <=> n + 1 = lines)
        BY <2>3, Sizes
      <3>2. (c - n) - 1 = IF r THEN RepeatBit + left ELSE left
        BY <2>3, Sizes
      <3>3. c - (n + 1) = (c - n) - 1
        BY <2>3, Sizes
      <3> HIDE DEF left
      <3>4. (RepeatBit + left) % RepeatBit = left /\ left % RepeatBit = left
        BY <3>1, Sizes
      <3>5. n + 1 # lines => ((c - n) - 1 >= RepeatBit <=> r)
        BY <3>1, <3>2, Sizes
      <3>6. (c - n) - 1 \in Nat
        BY <3>1, <3>2, Sizes
      <3>7. ((c - n) - 1) % RepeatBit = left
        BY <3>2, <3>4
      <3> QED
        BY <3>1, <3>3, <3>5, <3>6, <3>7
    <2> QED
      BY <2>2, <2>4
  <1>4. /\ sent_before \in Nat /\ sent_after \in Nat
        /\ sent_after = sent_before + (IF ch.hdma_do_transfer THEN t.unit ELSE 0)
        /\ t.data[k] + sent_after < AddressSize
        /\ n + 1 = e.lines => sent_after = t.unit * UnitsOf(e)
        /\ ch.hdma_do_transfer => sent_before = t.unit * n
    <2>1. /\ sent_before = t.unit * (IF e.repeat THEN n ELSE IF n = 0 THEN 0 ELSE 1)
          /\ sent_after = t.unit * (IF e.repeat THEN n + 1 ELSE IF n + 1 = 0 THEN 0 ELSE 1)
          /\ t.unit * UnitsOf(e) = t.unit * (IF e.repeat THEN e.lines ELSE 1)
      BY Zenon DEF UnitsSent, UnitsOf
    <2> HIDE DEF sent_before, sent_after, e
    <2>2. /\ sent_before \in Nat /\ sent_after \in Nat
          /\ sent_after = sent_before + (IF e.repeat \/ n = 0 THEN t.unit ELSE 0)
          /\ t.data[k] + sent_after < AddressSize
          /\ n + 1 = e.lines => sent_after = t.unit * UnitsOf(e)
          /\ e.repeat \/ n = 0 => sent_before = t.unit * n
      <3>a. UnitsOf(e) \in Nat
        BY <1>1 DEF UnitsOf
      <3>b. t.unit * UnitsOf(e) \in Nat
        BY <1>1, <3>a
      <3>1. PICK r \in BOOLEAN, lines \in Nat \ {0}, u \in Nat, d \in Nat, whole \in Nat :
              /\ r = e.repeat /\ lines = e.lines /\ u = t.unit /\ d = t.data[k]
              /\ whole = t.unit * UnitsOf(e)
        BY <1>1, <3>b
      <3>2. /\ n < lines /\ d + whole < AddressSize
            /\ sent_before = u * (IF r THEN n ELSE IF n = 0 THEN 0 ELSE 1)
            /\ sent_after = u * (IF r THEN n + 1 ELSE IF n + 1 = 0 THEN 0 ELSE 1)
            /\ whole = u * (IF r THEN lines ELSE 1)
        BY <1>1, <1>2, <2>1, <3>1
      <3>3. /\ sent_before \in Nat /\ sent_after \in Nat
            /\ sent_after = sent_before + (IF r \/ n = 0 THEN u ELSE 0)
            /\ d + sent_after < AddressSize
            /\ n + 1 = lines => sent_after = whole
            /\ r \/ n = 0 => sent_before = u * n
        BY <3>2, Sizes, UnitArithmetic
      <3> QED
        BY <3>1, <3>3
    <2> QED
      BY <1>2, <2>2
  <1>5. ch.hdma_do_transfer =>
          Source(ch) = [bank |-> t.data_bank, addr |-> t.data[k] + t.unit * n]
    <2>1. ~t.params.indirect => t.data_bank = t.bank
      BY TableAssumption DEF WellFormed
    <2> HIDE DEF sent_before
    <2> QED
      BY <1>2, <1>4, <2>1 DEF Source, Settings
  <1>6. /\ new \in ChannelType
        /\ Settings(new, t)
        /\ new.hdma_flags = (Counter(e) - n) - 1
        /\ new.hdma_do_transfer = ((Counter(e) - n) - 1 >= RepeatBit)
        /\ t.params.indirect => /\ new.dma_size = t.data[k] + sent_after
                                /\ new.hdma_addr = t.header[k] + 3
        /\ ~t.params.indirect => new.hdma_addr = t.data[k] + sent_after
    <2> DEFINE unit == IF ch.hdma_do_transfer THEN t.unit ELSE 0
    <2>1. unit = IF ch.hdma_do_transfer THEN UnitSize[ch.params.mode + 1] ELSE 0
      BY <1>1, <1>2 DEF Settings
    <2>2. unit \in Nat
      BY <1>1
    <2> HIDE DEF unit
    <2>3. /\ new \in ChannelType
          /\ SameSettings(new, ch)
          /\ new.hdma_addr = IF ch.params.indirect THEN ch.hdma_addr
                             ELSE Plus(ch.hdma_addr, unit)
          /\ new.hdma_flags = ch.hdma_flags - 1
          /\ new.dma_size = IF ch.params.indirect THEN Plus(ch.dma_size, unit) ELSE ch.dma_size
          /\ new.hdma_do_transfer = (ch.hdma_flags - 1 >= RepeatBit)
      BY <1>3, <2>1, CountLineType
    <2> HIDE DEF new, sent_before, sent_after
    <2>4. sent_after = sent_before + unit
      BY <1>4 DEF unit
    <2>5. Plus(t.data[k] + sent_before, unit) = t.data[k] + sent_after
      <3>1. PICK d \in Nat : d = t.data[k]
        BY <1>1
      <3>2. d + sent_before \in Nat /\ (d + sent_before) + unit = d + sent_after
        BY <1>4, <2>2, <2>4
      <3> QED
        BY <3>1, <3>2, <2>2, <1>4, PlusType
    <2> QED
      BY <2>3, <2>5, <1>2 DEF Settings, SameSettings
  <1>7. LineCounterDone(new) <=> n + 1 = e.lines
    BY <1>6, <1>c DEF LineCounterDone
  <1>8. CASE n + 1 = e.lines
    <2>1. k + 1 \in 1..(Len(t.entries) + 1)
      <3>1. Len(t.entries) \in Nat
        BY TableAssumption DEF WellFormed
      <3> QED
        BY <3>1
    <2>2. new.hdma_addr = t.header[k + 1]
      <3> HIDE DEF new, sent_after
      <3> QED
        BY <1>1, <1>4, <1>6, <1>8
    <2>3. Place(ReadEntry(new, new.hdma_addr), t, k + 1, 0)
      BY <1>6, <2>1, <2>2, ReadPlace
    <2>4. AfterLine(ch) = ReadEntry(new, new.hdma_addr)
      BY <1>3, <1>7, <1>8 DEF AfterLine
    <2> QED
      BY <1>3, <1>2, <1>5, <1>7, <1>8, <2>3, <2>4
  <1>9. CASE n + 1 # e.lines
    <2>1. AfterLine(ch) = new
      BY <1>3, <1>7, <1>9 DEF AfterLine
    <2>2. n + 1 < e.lines
      BY <1>1, <1>2, <1>9
    <2>3. (Counter(e) - n) - 1 >= RepeatBit <=> e.repeat
      BY <1>9, <1>c
    <2>4. Counter(e) - (n + 1) = (Counter(e) - n) - 1 /\ n + 1 # 0
      BY <1>c
    <2>5. ~(k > Len(t.entries)) /\ k \in 1..(Len(t.entries) + 1)
      <3>1. Len(t.entries) \in Nat
        BY TableAssumption DEF WellFormed
      <3> QED
        BY <3>1
    <2>6. new.hdma_do_transfer = (e.repeat \/ n + 1 = 0)
      BY <1>1, <1>6, <2>3, <2>4
    <2> HIDE DEF new
    <2>7. Place(new, t, k, n + 1)
      BY <1>6, <2>2, <2>4, <2>5, <2>6 DEF Place, Settings
    <2>8. Place(AfterLine(ch), t, IF n + 1 = e.lines THEN k + 1 ELSE k,
                                  IF n + 1 = e.lines THEN 0 ELSE n + 1)
      BY <1>9, <2>1, <2>7, Zenon
    <2> QED
      BY <1>3, <1>2, <1>5, <1>7, <2>8 DEF new
  <1> QED
    BY <1>8, <1>9

-----------------------------------------------------------------------------
(* The state.                                                              *)

LEMMA DisturbType ==
  ASSUME TypeOK, NEW S, Disturb(S)
  PROVE  /\ table' \in [Channels -> Tables \cup {None}]
         /\ entry' \in [Channels -> Nat] /\ spent' \in [Channels -> Nat]
         /\ sent' \in [Channels -> [bank : Byte, addr : Address] \cup {None}]
  BY DEF TypeOK, Disturb

\* What each store to a channel register makes of the channel.
LEMMA StoreType ==
  ASSUME TypeOK, NEW c \in Programmed, NEW new \in ChannelType, Store(c, new),
         NEW S, Disturb(S)
  PROVE  TypeOK'
  <1>1. chan' \in [Channels -> ChannelType]
    BY DmaAssumption DEF Store, TypeOK
  <1> QED
    BY <1>1, DisturbType DEF Store, TypeOK

LEMMA ProgramType ==
  ASSUME TypeOK, Program
  PROVE  TypeOK'
  <1> USE DEF DisturbIf
  <1>1. ASSUME NEW c \in Programmed, NEW p \in Params, StoreParams(c, p)  PROVE TypeOK'
    <2>0. chan[c] \in ChannelType /\ p \in ParamsType
      BY DmaAssumption DEF TypeOK
    <2>1. [chan[c] EXCEPT !.params = p] \in ChannelType
      BY <2>0 DEF ChannelType
    <2> QED
      BY <1>1, <2>1, StoreType DEF StoreParams
  <1>2. ASSUME NEW c \in Programmed, NEW b \in AddrBytes, StoreAAddr(c, b)  PROVE TypeOK'
    <2>1. SetLow(chan[c].a_addr, b) \in Address /\ SetHigh(chan[c].a_addr, b) \in Address
      BY DmaAssumption, StoredType DEF TypeOK, ChannelType
    <2>0. chan[c] \in ChannelType
      BY DmaAssumption DEF TypeOK
    <2>2. /\ [chan[c] EXCEPT !.a_addr = SetLow(@, b)] \in ChannelType
          /\ [chan[c] EXCEPT !.a_addr = SetHigh(@, b)] \in ChannelType
      BY <2>0, <2>1 DEF ChannelType
    <2> QED
      BY <1>2, <2>2, StoreType DEF StoreAAddr
  <1>3. ASSUME NEW c \in Programmed, NEW b \in SizeBytes, StoreSize(c, b)  PROVE TypeOK'
    <2>1. SetLow(chan[c].dma_size, b) \in Address /\ SetHigh(chan[c].dma_size, b) \in Address
      BY DmaAssumption, StoredType DEF TypeOK, ChannelType
    <2>0. chan[c] \in ChannelType
      BY DmaAssumption DEF TypeOK
    <2>2. /\ [chan[c] EXCEPT !.dma_size = SetLow(@, b)] \in ChannelType
          /\ [chan[c] EXCEPT !.dma_size = SetHigh(@, b)] \in ChannelType
      BY <2>0, <2>1 DEF ChannelType
    <2> QED
      BY <1>3, <2>2, StoreType DEF StoreSize
  <1>4. ASSUME NEW c \in Programmed, NEW b \in Banks,
               StoreABank(c, b) \/ StoreIndirectBank(c, b)
        PROVE  TypeOK'
    <2>0. chan[c] \in ChannelType /\ b \in Byte
      BY DmaAssumption DEF TypeOK
    <2>1. /\ [chan[c] EXCEPT !.a_addr_bank = b] \in ChannelType
          /\ [chan[c] EXCEPT !.hdma_indirect_bank = b] \in ChannelType
      BY <2>0 DEF ChannelType
    <2> QED
      BY <1>4, <2>1, StoreType DEF StoreABank, StoreIndirectBank
  <1>5. ASSUME NEW mask \in SUBSET Channels, StoreHdmaen(mask)  PROVE TypeOK'
    BY <1>5, DisturbType DEF StoreHdmaen, TypeOK
  <1>6. ASSUME NEW mask \in SUBSET Channels, StoreMdmaen(mask)  PROVE TypeOK'
    <2>1. \A c \in Channels : [chan[c] EXCEPT !.dma_size = 0] \in ChannelType
      BY Sizes DEF TypeOK, ChannelType
    <2>2. chan' \in [Channels -> ChannelType]
      BY <1>6, <2>1 DEF StoreMdmaen, TypeOK
    <2> QED
      BY <1>6, <2>2, DisturbType DEF StoreMdmaen, TypeOK
  <1> QED
    BY <1>1, <1>2, <1>3, <1>4, <1>5, <1>6 DEF Program

LEMMA HdmaStepType ==
  ASSUME TypeOK, InitHdma \/ DoHdma \/ EndFrame
  PROVE  TypeOK'
  <1>1. CASE InitHdma
    <2>1. \A c \in Channels : Started(chan[c]) \in ChannelType
      <3> TAKE c \in Channels
      <3>1. chan[c] \in ChannelType /\ chan[c].a_addr \in Address
        BY DEF TypeOK, ChannelType
      <3> QED
        BY <3>1, ReadEntryType DEF Started
    <2>2. \A ch : TableOf(ch) \in Tables \cup {None}
      BY DEF TableOf
    <2>3. 0 \in 0..LastVisible
      BY DmaAssumption
    <2> QED
      BY <1>1, <2>1, <2>2, <2>3 DEF InitHdma, TypeOK
  <1>2. CASE DoHdma
    <2>1. \A c \in Channels : AfterLine(chan[c]) \in ChannelType
      BY AfterLineType DEF TypeOK
    <2>2. \A c \in Channels : Source(chan[c]) \in [bank : Byte, addr : Address]
      BY DEF Source, TypeOK, ChannelType
    <2>3. phase' \in {"init", "lines", "vblank"} /\ line' \in 0..LastVisible
      BY <1>2, DmaAssumption DEF DoHdma, TypeOK
    <2>4. chan' \in [Channels -> ChannelType]
      BY <1>2, <2>1 DEF DoHdma, TypeOK
    <2>5. sent' \in [Channels -> [bank : Byte, addr : Address] \cup {None}]
      BY <1>2, <2>2 DEF DoHdma
    <2>6. entry' \in [Channels -> Nat] /\ spent' \in [Channels -> Nat]
      BY <1>2 DEF DoHdma, TypeOK
    <2> QED
      BY <1>2, <2>3, <2>4, <2>5, <2>6 DEF DoHdma, TypeOK
  <1>3. CASE EndFrame
    BY <1>3 DEF EndFrame, TypeOK
  <1> QED
    BY <1>1, <1>2, <1>3

LEMMA InitialType ==
  Init => TypeOK
  <1> SUFFICES ASSUME Init  PROVE TypeOK
    OBVIOUS
  <1>1. ResetChannel.params \in ParamsType
    <2>1. Len(UnitSize) - 1 \in 0..(Len(UnitSize) - 1)
      BY DmaAssumption
    <2> QED
      BY <2>1 DEF ResetChannel, ParamsType
  <1>2. ResetChannel \in ChannelType
    BY <1>1, Sizes DEF ResetChannel, ChannelType
  <1> QED
    BY <1>2, DmaAssumption DEF Init, TypeOK

\* The state of the channels is well-typed: every address stays in its bank,
\* every line counter in its byte (dma.rs).
THEOREM HdmaTypeCorrect ==
  Spec => []TypeOK
  <1>1. TypeOK /\ [Next]_vars => TypeOK'
    <2> SUFFICES ASSUME TypeOK, [Next]_vars  PROVE TypeOK'
      OBVIOUS
    <2>1. CASE Next
      BY <2>1, ProgramType, HdmaStepType DEF Next
    <2>2. CASE UNCHANGED vars
      BY <2>2 DEF vars, TypeOK
    <2> QED
      BY <2>1, <2>2
  <1> QED
    BY <1>1, InitialType, PTL DEF Spec

-----------------------------------------------------------------------------
(* The registers of a channel and the place in its table agree.            *)

\* The two channels are at the same place of whatever table they follow: a
\* direct channel does not look at DAS or at the indirect bank.
SamePlace(new, ch) ==
  /\ new.params = ch.params /\ new.a_addr_bank = ch.a_addr_bank
  /\ new.hdma_flags = ch.hdma_flags /\ new.hdma_addr = ch.hdma_addr
  /\ new.hdma_do_transfer = ch.hdma_do_transfer
  /\ ch.params.indirect => /\ new.dma_size = ch.dma_size
                           /\ new.hdma_indirect_bank = ch.hdma_indirect_bank

LEMMA PlaceKept ==
  ASSUME NEW new, NEW ch, SamePlace(new, ch), NEW t, NEW k, NEW n, Place(ch, t, k, n)
  PROVE  Place(new, t, k, n)
  BY DEF SamePlace, Place, Halted

InTable(c) ==
  IF table[c] = None THEN entry[c] = 1 /\ spent[c] = 0
  ELSE c \in hdmaen /\ Place(chan[c], table[c], entry[c], spent[c])

IInv == TypeOK /\ RegistersInTable

LEMMA InTableEverywhere ==
  RegistersInTable <=> \A c \in Channels : InTable(c)
  BY DEF RegistersInTable, InTable

\* A step of the program that keeps the place of every channel it does not
\* disturb, and that leaves no channel with a table switched off.
LEMMA DisturbKeepsTables ==
  ASSUME IInv, NEW S, Disturb(S),
         \A c \in Channels \ S : SamePlace(chan'[c], chan[c]) /\ (c \in hdmaen => c \in hdmaen')
  PROVE  RegistersInTable'
  <1> SUFFICES ASSUME NEW c \in Channels  PROVE InTable(c)'
    BY DEF RegistersInTable, InTable
  <1>1. InTable(c)
    BY InTableEverywhere DEF IInv
  <1>2. CASE c \in S
    <2>1. table'[c] = None /\ entry'[c] = 1 /\ spent'[c] = 0
      BY <1>2 DEF Disturb
    <2> QED
      BY <2>1 DEF InTable
  <1>3. CASE c \notin S
    <2>1. table'[c] = table[c] /\ entry'[c] = entry[c] /\ spent'[c] = spent[c]
      BY <1>3 DEF Disturb
    <2>2. Place(chan[c], table[c], entry[c], spent[c]) =>
            Place(chan'[c], table[c], entry[c], spent[c])
      BY <1>3, PlaceKept
    <2> QED
      BY <1>1, <1>3, <2>1, <2>2 DEF InTable
  <1> QED
    BY <1>2, <1>3

\* A store to channel c: the other channels stay as they are.
LEMMA StoreKeepsTables ==
  ASSUME IInv, NEW c \in Programmed, NEW new, Store(c, new), NEW S, Disturb(S),
         c \notin S => SamePlace(new, chan[c])
  PROVE  RegistersInTable'
  <1>1. hdmaen' = hdmaen /\ chan' = [chan EXCEPT ![c] = new] /\ c \in Channels
    BY DmaAssumption DEF Store
  <1>2. ASSUME NEW d \in Channels \ S  PROVE SamePlace(chan'[d], chan[d])
    <2>1. CASE d = c
      <3>1. chan'[d] = new
        BY <1>1, <2>1 DEF IInv, TypeOK
      <3> QED
        BY <2>1, <3>1
    <2>2. CASE d # c
      <3>1. chan'[d] = chan[d]
        BY <1>1, <2>2 DEF IInv, TypeOK
      <3> QED
        BY <3>1 DEF SamePlace
    <2> QED
      BY <2>1, <2>2
  <1> QED
    BY <1>1, <1>2, DisturbKeepsTables

LEMMA ProgramKeepsTables ==
  ASSUME IInv, Program
  PROVE  RegistersInTable'
  <1> USE DEF DisturbIf
  <1>0. ASSUME NEW c \in Programmed  PROVE c \in Channels /\ chan[c] \in ChannelType
    BY <1>0, DmaAssumption DEF IInv, TypeOK
  <1>1. ASSUME NEW c \in Programmed, NEW p \in Params, StoreParams(c, p)
        PROVE  RegistersInTable'
    <2>1. p = chan[c].params => SamePlace([chan[c] EXCEPT !.params = p], chan[c])
      BY <1>0 DEF SamePlace, ChannelType
    <2> QED
      BY <1>1, <2>1, StoreKeepsTables DEF StoreParams
  <1>2. ASSUME NEW c \in Programmed, NEW b \in AddrBytes, StoreAAddr(c, b)
        PROVE  RegistersInTable'
    <2>1. \A a : SamePlace([chan[c] EXCEPT !.a_addr = a], chan[c])
      BY <1>0 DEF SamePlace, ChannelType
    <2>2. \A a : Store(c, [chan[c] EXCEPT !.a_addr = a]) => RegistersInTable'
      BY <1>2, <2>1, StoreKeepsTables DEF StoreAAddr
    <2> QED
      BY <1>2, <2>2 DEF StoreAAddr
  <1>3. ASSUME NEW c \in Programmed, NEW b \in SizeBytes, StoreSize(c, b)
        PROVE  RegistersInTable'
    <2>1. \A size : ~chan[c].params.indirect =>
                      SamePlace([chan[c] EXCEPT !.dma_size = size], chan[c])
      BY <1>0 DEF SamePlace, ChannelType
    <2>2. \A size : Store(c, [chan[c] EXCEPT !.dma_size = size]) => RegistersInTable'
      BY <1>3, <2>1, StoreKeepsTables DEF StoreSize
    <2> QED
      BY <1>3, <2>2 DEF StoreSize
  <1>4. ASSUME NEW c \in Programmed, NEW b \in Banks, StoreABank(c, b)
        PROVE  RegistersInTable'
    <2>1. b = chan[c].a_addr_bank => SamePlace([chan[c] EXCEPT !.a_addr_bank = b], chan[c])
      BY <1>0 DEF SamePlace, ChannelType
    <2> QED
      BY <1>4, <2>1, StoreKeepsTables DEF StoreABank
  <1>5. ASSUME NEW c \in Programmed, NEW b \in Banks, StoreIndirectBank(c, b)
        PROVE  RegistersInTable'
    <2>1. ~(chan[c].params.indirect /\ b # chan[c].hdma_indirect_bank) =>
            SamePlace([chan[c] EXCEPT !.hdma_indirect_bank = b], chan[c])
      BY <1>0 DEF SamePlace, ChannelType
    <2> QED
      BY <1>5, <2>1, StoreKeepsTables DEF StoreIndirectBank
  <1>6. ASSUME NEW mask \in SUBSET Channels, StoreHdmaen(mask)
        PROVE  RegistersInTable'
    <2>1. \A c \in Channels \ (Channels \ mask) :
             SamePlace(chan'[c], chan[c]) /\ (c \in hdmaen => c \in hdmaen')
      BY <1>6 DEF StoreHdmaen, SamePlace
    <2>2. Disturb(Channels \ mask)
      BY <1>6 DEF StoreHdmaen
    <2> QED
      BY <2>1, <2>2, DisturbKeepsTables
  <1>7. ASSUME NEW mask \in SUBSET Channels, StoreMdmaen(mask)
        PROVE  RegistersInTable'
    <2> DEFINE S == {c \in mask : chan[c].params.indirect}
    <2>1. ASSUME NEW c \in Channels \ S
          PROVE  SamePlace(chan'[c], chan[c]) /\ (c \in hdmaen => c \in hdmaen')
      <3>1. chan[c] \in ChannelType /\ hdmaen' = hdmaen
        BY <1>7 DEF IInv, TypeOK, StoreMdmaen
      <3>2. chan'[c] = IF c \in mask THEN [chan[c] EXCEPT !.dma_size = 0] ELSE chan[c]
        BY <1>7 DEF StoreMdmaen
      <3>3. c \in mask => ~chan[c].params.indirect
        OBVIOUS
      <3> QED
        BY <3>1, <3>2, <3>3 DEF SamePlace, ChannelType
    <2>2. Disturb(S)
      BY <1>7 DEF StoreMdmaen
    <2> HIDE DEF S
    <2> QED
      BY <2>1, <2>2, DisturbKeepsTables
  <1> QED
    BY <1>1, <1>2, <1>3, <1>4, <1>5, <1>6, <1>7 DEF Program

\* init_hdma puts every enabled channel at the beginning of its table.
LEMMA InitHdmaSetsTables ==
  ASSUME IInv, InitHdma
  PROVE  RegistersInTable'
  <1> SUFFICES ASSUME NEW c \in Channels  PROVE InTable(c)'
    BY DEF RegistersInTable, InTable
  <1>1. /\ table'[c] = (IF c \in hdmaen THEN TableOf(chan[c]) ELSE None)
        /\ entry'[c] = 1 /\ spent'[c] = 0 /\ hdmaen' = hdmaen
        /\ c \in hdmaen => chan'[c] = ReadEntry(chan[c], chan[c].a_addr)
    BY DEF InitHdma, Started
  <1>2. CASE table'[c] = None
    BY <1>1, <1>2 DEF InTable
  <1>3. CASE table'[c] # None
    <2>1. c \in hdmaen /\ table'[c] = TableOf(chan[c])
      BY <1>1, <1>3
    <2>2. table'[c] \in Tables /\ SetUp(chan[c], table'[c])
      BY <1>3, <2>1 DEF TableOf
    <2>3. 1 \in 1..(Len(table'[c].entries) + 1)
      BY <2>2, TableAssumption DEF WellFormed
    <2>4. Settings(chan[c], table'[c]) /\ chan[c].a_addr = table'[c].header[1]
      BY <2>2 DEF SetUp, Settings
    <2>5. chan[c] \in ChannelType
      BY DEF IInv, TypeOK
    <2>6. Place(chan'[c], table'[c], 1, 0)
      BY <1>1, <2>1, <2>2, <2>3, <2>4, <2>5, ReadPlace
    <2> QED
      BY <1>1, <1>3, <2>1, <2>6 DEF InTable
  <1> QED
    BY <1>2, <1>3

\* do_hdma, for a channel that follows a table: on a line of an entry it sends
\* what the entry says and moves on by one line, after the last it does nothing.
LineOfEntry(c) ==
  LET t == table[c]  k == entry[c]  n == spent[c]
  IN  /\ k \in 1..Len(t.entries)
      /\ sent'[c] = IF t.entries[k].repeat \/ n = 0
                      THEN [bank |-> t.data_bank, addr |-> t.data[k] + t.unit * n] ELSE None
      /\ entry'[c] = IF n + 1 = t.entries[k].lines THEN k + 1 ELSE k
      /\ spent'[c] = IF n + 1 = t.entries[k].lines THEN 0 ELSE n + 1

LineAfterTable(c) ==
  /\ entry[c] > Len(table[c].entries)
  /\ sent'[c] = None /\ entry'[c] = entry[c] /\ spent'[c] = spent[c]

LEMMA LineStep ==
  ASSUME IInv, DoHdma, NEW c \in Channels, table[c] # None
  PROVE  InTable(c)' /\ (LineOfEntry(c) \/ LineAfterTable(c))
  <1> DEFINE t == table[c]
             k == entry[c]
             n == spent[c]
             ch == chan[c]
  <1>1. /\ t \in Tables /\ n \in Nat /\ c \in hdmaen /\ Place(ch, t, k, n)
        /\ ch \in ChannelType
    BY InTableEverywhere DEF IInv, TypeOK, InTable
  <1>2. k \in 1..(Len(t.entries) + 1) /\ Len(t.entries) \in Nat
    BY <1>1, TableAssumption DEF Place, WellFormed
  <1>3. /\ table' = table /\ hdmaen' = hdmaen
        /\ chan'[c] = AfterLine(ch)
        /\ sent'[c] = (IF ~Halted(ch) /\ ch.hdma_do_transfer THEN Source(ch) ELSE None)
        /\ entry'[c] = (IF ReadsCounter(ch) THEN k + 1 ELSE k)
        /\ spent'[c] = (IF Halted(ch) THEN n ELSE IF ReadsCounter(ch) THEN 0 ELSE n + 1)
    BY <1>1 DEF DoHdma, Served, Follows
  <1>4. CASE k \in 1..Len(t.entries)
    <2>1. /\ ~Halted(ch)
          /\ ch.hdma_do_transfer = (t.entries[k].repeat \/ n = 0)
          /\ ch.hdma_do_transfer =>
               Source(ch) = [bank |-> t.data_bank, addr |-> t.data[k] + t.unit * n]
          /\ LineCounterDone(CountLine(ch)) <=> n + 1 = t.entries[k].lines
          /\ Place(AfterLine(ch), t,
                   IF n + 1 = t.entries[k].lines THEN k + 1 ELSE k,
                   IF n + 1 = t.entries[k].lines THEN 0 ELSE n + 1)
      BY <1>1, <1>4, LinePlace, SMTT(30)
    <2>2. ReadsCounter(ch) <=> n + 1 = t.entries[k].lines
      BY <2>1 DEF ReadsCounter
    <2>3. /\ entry'[c] = (IF n + 1 = t.entries[k].lines THEN k + 1 ELSE k)
          /\ spent'[c] = (IF n + 1 = t.entries[k].lines THEN 0 ELSE n + 1)
      BY <1>3, <2>1, <2>2
    <2>4. Place(chan'[c], table'[c], entry'[c], spent'[c])
      BY <1>3, <2>1, <2>3
    <2>5. InTable(c)'
      BY <1>1, <1>3, <2>4 DEF InTable
    <2>6. sent'[c] = IF t.entries[k].repeat \/ n = 0
                      THEN [bank |-> t.data_bank, addr |-> t.data[k] + t.unit * n] ELSE None
      BY <1>3, <2>1
    <2> QED
      BY <1>4, <2>3, <2>5, <2>6 DEF LineOfEntry
  <1>5. CASE k \notin 1..Len(t.entries)
    <2>1. k > Len(t.entries)
      BY <1>2, <1>5
    <2>2. Halted(ch)
      BY <1>1, <2>1 DEF Place
    <2>3. AfterLine(ch) = ch /\ ~ReadsCounter(ch)
      BY <2>2 DEF AfterLine, ReadsCounter
    <2>4. InTable(c)'
      BY <1>1, <1>3, <2>2, <2>3 DEF InTable
    <2> QED
      BY <1>3, <2>1, <2>2, <2>3, <2>4 DEF LineAfterTable
  <1> QED
    BY <1>4, <1>5

LEMMA DoHdmaKeepsTables ==
  ASSUME IInv, DoHdma
  PROVE  RegistersInTable'
  <1> SUFFICES ASSUME NEW c \in Channels  PROVE InTable(c)'
    BY DEF RegistersInTable, InTable
  <1>1. CASE table[c] = None
    <2>1. InTable(c)
      BY InTableEverywhere DEF IInv
    <2>2. table'[c] = None /\ entry'[c] = entry[c] /\ spent'[c] = spent[c]
      BY <1>1 DEF DoHdma, Follows
    <2> QED
      BY <1>1, <2>1, <2>2 DEF InTable
  <1>2. CASE table[c] # None
    BY <1>2, LineStep
  <1> QED
    BY <1>1, <1>2

\* The inductive invariant.
THEOREM HdmaInvariance ==
  Spec => []IInv
  <1>1. Init => IInv
    <2> SUFFICES ASSUME Init  PROVE RegistersInTable
      BY InitialType DEF IInv
    <2> QED
      BY DEF Init, RegistersInTable
  <1>2. IInv /\ [Next]_vars => IInv'
    <2> SUFFICES ASSUME IInv, [Next]_vars  PROVE IInv'
      OBVIOUS
    <2>1. CASE Program
      BY <2>1, ProgramType, ProgramKeepsTables DEF IInv
    <2>2. CASE InitHdma
      BY <2>2, HdmaStepType, InitHdmaSetsTables DEF IInv
    <2>3. CASE DoHdma
      BY <2>3, HdmaStepType, DoHdmaKeepsTables DEF IInv
    <2>4. CASE EndFrame
      <3>1. RegistersInTable'
        BY <2>4 DEF IInv, EndFrame, RegistersInTable
      <3> QED
        BY <2>4, <3>1, HdmaStepType DEF IInv
    <2>5. CASE UNCHANGED vars
      BY <2>5 DEF vars, IInv, TypeOK, RegistersInTable
    <2> QED
      BY <2>1, <2>2, <2>3, <2>4, <2>5 DEF Next
  <1> QED
    BY <1>1, <1>2, PTL DEF Spec

\* The registers of a channel agree with its place in its table, and a channel
\* the program interfered with is not followed (do_hdma, dma.rs).
THEOREM RegistersFollowTable ==
  Spec => []RegistersInTable
  BY HdmaInvariance, PTL DEF IInv

-----------------------------------------------------------------------------
(* Every channel implements HdmaTable.                                     *)

\* A step that disturbs some channels interferes with those and leaves what
\* the others promise alone.
LEMMA DisturbImplements ==
  ASSUME IInv, NEW S, Disturb(S), NEW c \in Channels
  PROVE  [Channel(c)!TableNext]_(Channel(c)!tvars)
  <1>1. CASE c \in S
    <2>1. table'[c] = None /\ entry'[c] = 1 /\ spent'[c] = 0
      BY <1>1 DEF Disturb
    <2>2. Channel(c)!Interfere
      BY <2>1 DEF Channel!Interfere
    <2> QED
      BY <2>2 DEF Channel!TableNext
  <1>2. CASE c \notin S
    <2>1. /\ table'[c] = table[c] /\ entry'[c] = entry[c] /\ spent'[c] = spent[c]
          /\ sent'[c] = sent[c]
      BY <1>2 DEF Disturb
    <2> QED
      BY <2>1 DEF Channel!tvars
  <1> QED
    BY <1>1, <1>2

\* A store disturbs some set of channels.
LEMMA ProgramDisturbs ==
  ASSUME Program
  PROVE  \E S : Disturb(S)
  <1> USE DEF DisturbIf
  <1>1. ASSUME NEW c \in Programmed, NEW p \in Params, StoreParams(c, p)
        PROVE  \E S : Disturb(S)
    BY <1>1 DEF StoreParams
  <1>2. ASSUME NEW c \in Programmed, NEW b \in AddrBytes, StoreAAddr(c, b)
        PROVE  \E S : Disturb(S)
    BY <1>2 DEF StoreAAddr
  <1>3. ASSUME NEW c \in Programmed, NEW b \in SizeBytes, StoreSize(c, b)
        PROVE  \E S : Disturb(S)
    BY <1>3 DEF StoreSize
  <1>4. ASSUME NEW c \in Programmed, NEW b \in Banks,
               StoreABank(c, b) \/ StoreIndirectBank(c, b)
        PROVE  \E S : Disturb(S)
    BY <1>4 DEF StoreABank, StoreIndirectBank
  <1>5. ASSUME NEW mask \in SUBSET Channels, StoreHdmaen(mask) \/ StoreMdmaen(mask)
        PROVE  \E S : Disturb(S)
    BY <1>5 DEF StoreHdmaen, StoreMdmaen
  <1> QED
    BY <1>1, <1>2, <1>3, <1>4, <1>5 DEF Program

LEMMA InitHdmaImplements ==
  ASSUME IInv, InitHdma, NEW c \in Channels
  PROVE  Channel(c)!TableNext
  <1>1. /\ table'[c] \in Tables \cup {None}
        /\ entry'[c] = 1 /\ spent'[c] = 0 /\ sent'[c] = None
    BY DEF InitHdma, TableOf
  <1>2. Channel(c)!NewFrame
    BY <1>1 DEF Channel!NewFrame
  <1> QED
    BY <1>2 DEF Channel!TableNext

LEMMA DoHdmaImplements ==
  ASSUME IInv, DoHdma, NEW c \in Channels
  PROVE  [Channel(c)!TableNext]_(Channel(c)!tvars)
  <1>0. table' = table
    BY DEF DoHdma
  <1>1. CASE table[c] = None
    <2>1. entry'[c] = entry[c] /\ spent'[c] = spent[c]
      BY <1>1 DEF DoHdma, Follows
    <2> QED
      BY <1>0, <1>1, <2>1 DEF Channel!tvars
  <1>2. CASE table[c] # None /\ LineOfEntry(c)
    <2>1. /\ table[c] \in Tables /\ Len(table[c].entries) \in Nat
      BY <1>2, TableAssumption DEF IInv, TypeOK, WellFormed
    <2>2. entry[c] \in 1..Len(table[c].entries)
      BY <1>2 DEF LineOfEntry
    <2>3. ~(entry[c] > Len(table[c].entries))
      BY <2>1, <2>2
    <2>4. Channel(c)!Line
      BY <1>0, <1>2, <2>3
         DEF LineOfEntry, Channel!Line, Channel!Ended, Channel!Sends, Channel!Unit
    <2> QED
      BY <2>4 DEF Channel!TableNext
  <1>3. CASE table[c] # None /\ LineAfterTable(c)
    <2>1. Channel(c)!LineAfterEnd
      BY <1>0, <1>3 DEF LineAfterTable, Channel!LineAfterEnd, Channel!Ended
    <2> QED
      BY <2>1 DEF Channel!TableNext
  <1> QED
    BY <1>1, <1>2, <1>3, LineStep

\* A channel enabled for the whole frame sends what its table says on every
\* line, whatever the program does meanwhile to the other channels, to the
\* start address or to the DMA size of a direct channel (do_hdma, dma.rs).
THEOREM ChannelsFollowTables ==
  Spec => FollowsTable
  <1>1. Init => \A c \in Channels : Channel(c)!Idle
    <2> SUFFICES ASSUME Init, NEW c \in Channels  PROVE Channel(c)!Idle
      OBVIOUS
    <2> QED
      BY DEF Init, Channel!Idle
  <1>2. IInv /\ [Next]_vars =>
          [\A c \in Channels : [Channel(c)!TableNext]_(Channel(c)!tvars)]_vars
    <2> SUFFICES ASSUME IInv, Next, NEW c \in Channels
                 PROVE  [Channel(c)!TableNext]_(Channel(c)!tvars)
      OBVIOUS
    <2>1. CASE InitHdma
      BY <2>1, InitHdmaImplements
    <2>2. CASE DoHdma
      BY <2>2, DoHdmaImplements
    <2>3. CASE EndFrame
      BY <2>3 DEF EndFrame, Channel!tvars
    <2>4. CASE Program
      BY <2>4, ProgramDisturbs, DisturbImplements
    <2> QED
      BY <2>1, <2>2, <2>3, <2>4 DEF Next
  <1> QED
    BY <1>1, <1>2, HdmaInvariance, PTL DEF Spec, FollowsTable
=============================================================================
