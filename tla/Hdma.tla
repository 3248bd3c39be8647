-------------------------------- MODULE Hdma --------------------------------
(***************************************************************************)
(* HDMA and the channel registers: breeze_core/dma.rs, and the registers   *)
(* that drive it in snes.rs.                                               *)
(*                                                                         *)
(* The frame loop calls init_hdma once per frame and do_hdma on each of    *)
(* the lines 0..LastVisible; between any two calls the program stores to   *)
(* the channel registers, to HDMAEN and to MDMAEN, whose store runs a      *)
(* whole general purpose DMA (see Dma).                                    *)
(*                                                                         *)
(* Numbers keep their width: a byte is below 2*RepeatBit (256 in the code, *)
(* the bit 0x80 being the repeat bit of a line counter), an address is two *)
(* bytes.  The memory the tables are in does not change; B-bus addresses   *)
(* only choose a register of another component and are left out, and so    *)
(* are the cycles each call returns.  Additions wrap, as they do in the    *)
(* release build.                                                          *)
(***************************************************************************)
EXTENDS Naturals, Sequences

CONSTANTS
  Channels,     \* 0..7
  LastVisible,  \* 224
  RepeatBit,    \* 128
  Memory,       \* Memory[bank][address]
  UnitSize,     \* UnitSize[mode + 1]: bytes of one transfer
  Tables,       \* the HDMA tables that lie in Memory
  Programmed,   \* the channels whose registers the program stores to
  Params, AddrBytes, SizeBytes, Banks,  \* what it stores to them
  None

ByteSize    == 2 * RepeatBit
AddressSize == ByteSize * ByteSize
Byte        == 0..(ByteSize - 1)
Address     == 0..(AddressSize - 1)

ParamsType == [indirect : BOOLEAN, mode : 0..(Len(UnitSize) - 1)]

ASSUME DmaAssumption ==
  /\ LastVisible \in Nat
  /\ RepeatBit \in Nat /\ RepeatBit > 1
  /\ Memory \in [Byte -> [Address -> Byte]]
  /\ UnitSize \in Seq(Nat \ {0}) /\ Len(UnitSize) > 0
  /\ Programmed \subseteq Channels
  /\ Params \subseteq ParamsType
  /\ AddrBytes \cup SizeBytes \cup Banks \subseteq Byte

(***************************************************************************)
(* A table has been assembled into Memory: header[k] is the address of     *)
(* entry k's line counter, the last header that of the zero which ends the *)
(* table.  Direct data follows its counter; for an indirect table a        *)
(* pointer to the data does.                                               *)
(***************************************************************************)
Counter(e) == IF e.repeat THEN RepeatBit + e.lines ELSE e.lines

Pointer(t, k) == Memory[t.bank][t.header[k] + 1] + ByteSize * Memory[t.bank][t.header[k] + 2]

UnitsOf(e) == IF e.repeat THEN e.lines ELSE 1

WellFormed(t) ==
  LET n == Len(t.entries)
  IN  /\ t.params \in ParamsType
      /\ t.bank \in Byte /\ t.data_bank \in Byte
      /\ t.unit = UnitSize[t.params.mode + 1]
      /\ t.entries \in Seq([lines : Nat \ {0}, repeat : BOOLEAN])
      /\ t.header \in [1..(n + 1) -> Nat]
      /\ t.data \in [1..n -> Nat]
      /\ t.header[n + 1] + 3 < AddressSize
      /\ Memory[t.bank][t.header[n + 1]] = 0
      /\ ~t.params.indirect => t.data_bank = t.bank
      /\ \A k \in 1..n :
           LET e == t.entries[k]
           IN  /\ t.header[k] + 3 < AddressSize
               /\ IF e.repeat THEN e.lines < RepeatBit ELSE e.lines <= RepeatBit
               /\ Memory[t.bank][t.header[k]] = Counter(e)
               /\ t.data[k] = IF t.params.indirect THEN Pointer(t, k) ELSE t.header[k] + 1
               /\ t.header[k + 1] = IF t.params.indirect THEN t.header[k] + 3
                                    ELSE t.header[k] + 1 + t.unit * UnitsOf(e)
               /\ t.data[k] + t.unit * UnitsOf(e) < AddressSize

ASSUME TableAssumption == None \notin Tables /\ \A t \in Tables : WellFormed(t)

VARIABLES
  phase,    \* the next call of the frame loop: init_hdma, do_hdma, or none
  line,     \* the next line of do_hdma
  hdmaen,   \* the set of channels enabled for HDMA
  chan,     \* chan[c]: DmaChannel
  sent,     \* sent[c]: where the last line read the unit it sent
  table,    \* history: the table c started the frame with and still follows
  entry,    \* history: line counters read since then
  spent     \* history: lines since the last one was read

vars == <<phase, line, hdmaen, chan, sent, table, entry, spent>>

ChannelType == [params : ParamsType, a_addr : Address, a_addr_bank : Byte,
                dma_size : Address, hdma_indirect_bank : Byte, hdma_addr : Address,
                hdma_flags : Byte, hdma_do_transfer : BOOLEAN]

TypeOK ==
  /\ phase \in {"init", "lines", "vblank"}
  /\ line \in 0..LastVisible
  /\ hdmaen \subseteq Channels
  /\ chan \in [Channels -> ChannelType]
  /\ sent \in [Channels -> [bank : Byte, addr : Address] \cup {None}]
  /\ table \in [Channels -> Tables \cup {None}]
  /\ entry \in [Channels -> Nat] /\ spent \in [Channels -> Nat]

Top == AddressSize - 1

\* impl Default for DmaChannel; params 0xff are indirect, in the last mode.
ResetChannel ==
  [params |-> [indirect |-> TRUE, mode |-> Len(UnitSize) - 1],
   a_addr |-> Top, a_addr_bank |-> ByteSize - 1, dma_size |-> Top,
   hdma_indirect_bank |-> ByteSize - 1, hdma_addr |-> 0, hdma_flags |-> 0,
   hdma_do_transfer |-> FALSE]

Init ==
  /\ phase = "init" /\ line = 0
  /\ hdmaen = {}
  /\ chan = [c \in Channels |-> ResetChannel]
  /\ sent  = [c \in Channels |-> None]
  /\ table = [c \in Channels |-> None]
  /\ entry = [c \in Channels |-> 1]
  /\ spent = [c \in Channels |-> 0]

-----------------------------------------------------------------------------
(* The program's stores to the channel registers ($43x0-$43x7).            *)

SetLow(word, b)  == (word - (word % ByteSize)) + b
SetHigh(word, b) == (word % ByteSize) + ByteSize * b

\* The channels of S are disturbed: what they send until the next frame is
\* nobody's promise.
Disturb(S) ==
  /\ table' = [c \in Channels |-> IF c \in S THEN None ELSE table[c]]
  /\ entry' = [c \in Channels |-> IF c \in S THEN 1 ELSE entry[c]]
  /\ spent' = [c \in Channels |-> IF c \in S THEN 0 ELSE spent[c]]
  /\ sent'  = [c \in Channels |-> IF c \in S THEN None ELSE sent[c]]

DisturbIf(c, cond) == Disturb(IF cond THEN {c} ELSE {})

Store(c, ch) ==
  /\ c \in Programmed
  /\ chan' = [chan EXCEPT ![c] = ch]
  /\ UNCHANGED <<phase, line, hdmaen>>

StoreParams(c, p) ==
  /\ Store(c, [chan[c] EXCEPT !.params = p])
  /\ DisturbIf(c, p # chan[c].params)

\* The start address is copied by init_hdma: a store to it does not reach
\* the transfer of the current frame.
StoreAAddr(c, b) ==
  /\ \/ Store(c, [chan[c] EXCEPT !.a_addr = SetLow(@, b)])
     \/ Store(c, [chan[c] EXCEPT !.a_addr = SetHigh(@, b)])
  /\ Disturb({})

\* The bank is not copied.
StoreABank(c, b) ==
  /\ Store(c, [chan[c] EXCEPT !.a_addr_bank = b])
  /\ DisturbIf(c, b # chan[c].a_addr_bank)

\* DAS holds the indirect address of an indirect channel.
StoreSize(c, b) ==
  /\ \/ Store(c, [chan[c] EXCEPT !.dma_size = SetLow(@, b)])
     \/ Store(c, [chan[c] EXCEPT !.dma_size = SetHigh(@, b)])
  /\ DisturbIf(c, chan[c].params.indirect)

StoreIndirectBank(c, b) ==
  /\ Store(c, [chan[c] EXCEPT !.hdma_indirect_bank = b])
  /\ DisturbIf(c, chan[c].params.indirect /\ b # chan[c].hdma_indirect_bank)

\* $420c
StoreHdmaen(mask) ==
  /\ hdmaen' = mask
  /\ Disturb(Channels \ mask)
  /\ UNCHANGED <<phase, line, chan>>

\* $420b: every channel of the mask is run to the end of its transfer.  Only
\* DAS is written back, and an indirect channel keeps its data address there.
StoreMdmaen(mask) ==
  /\ chan' = [c \in Channels |->
                IF c \in mask THEN [chan[c] EXCEPT !.dma_size = 0] ELSE chan[c]]
  /\ Disturb({c \in mask : chan[c].params.indirect})
  /\ UNCHANGED <<phase, line, hdmaen>>

-----------------------------------------------------------------------------
(* init_hdma.                                                              *)

Plus(a, n) == (a + n) % AddressSize

Load(ch, a)     == Memory[ch.a_addr_bank][a % AddressSize]
LoadWord(ch, a) == Load(ch, a) + ByteSize * Load(ch, a + 1)

\* The fields HDMA works with; the other settings stay.
HdmaState(ch, addr, flags, size, transfer) ==
  [ch EXCEPT !.hdma_addr = addr, !.hdma_flags = flags,
             !.dma_size = size, !.hdma_do_transfer = transfer]

\* Mutant: the transfer flag is left as the last line had it.
ReadEntryQuiet(ch, addr) ==
  HdmaState(ch,
            Plus(addr, IF ch.params.indirect THEN 3 ELSE 1),
            Load(ch, addr),
            IF ch.params.indirect THEN LoadWord(ch, addr + 1) ELSE ch.dma_size,
            ch.hdma_do_transfer)

\* A line counter is read at addr and, by an indirect channel, the pointer
\* that follows it; the entry's first line has a transfer.
ReadEntry(ch, addr) ==
  HdmaState(ch,
            Plus(addr, IF ch.params.indirect THEN 3 ELSE 1),
            Load(ch, addr),
            IF ch.params.indirect THEN LoadWord(ch, addr + 1) ELSE ch.dma_size,
            TRUE)

Started(ch) == ReadEntry(ch, ch.a_addr)

\* The program has pointed the channel at table t.
SetUp(ch, t) ==
  /\ ch.params = t.params /\ ch.a_addr_bank = t.bank /\ ch.a_addr = t.header[1]
  /\ t.params.indirect => ch.hdma_indirect_bank = t.data_bank

TableOf(ch) ==
  IF \E t \in Tables : SetUp(ch, t) THEN CHOOSE t \in Tables : SetUp(ch, t) ELSE None

InitHdma ==
  /\ phase = "init"
  /\ phase' = "lines" /\ line' = 0
  /\ chan' = [c \in Channels |-> IF c \in hdmaen THEN Started(chan[c]) ELSE chan[c]]
  /\ table' = [c \in Channels |-> IF c \in hdmaen THEN TableOf(chan[c]) ELSE None]
  /\ entry' = [c \in Channels |-> 1]
  /\ spent' = [c \in Channels |-> 0]
  /\ sent'  = [c \in Channels |-> None]
  /\ hdmaen' = hdmaen

-----------------------------------------------------------------------------
(* do_hdma, channel by channel; channels do not see each other.            *)

Source(ch) ==
  IF ch.params.indirect
    THEN [bank |-> ch.hdma_indirect_bank, addr |-> ch.dma_size]
    ELSE [bank |-> ch.a_addr_bank, addr |-> ch.hdma_addr]

\* Mutant: the repeat bit is tested before the line is counted.
CountLineLate(ch) ==
  LET unit == IF ch.hdma_do_transfer THEN UnitSize[ch.params.mode + 1] ELSE 0
  IN  HdmaState(ch,
                IF ch.params.indirect THEN ch.hdma_addr ELSE Plus(ch.hdma_addr, unit),
                ch.hdma_flags - 1,
                IF ch.params.indirect THEN Plus(ch.dma_size, unit) ELSE ch.dma_size,
                ch.hdma_flags >= RepeatBit)

\* The address the unit sent was read from catches up, and one line is
\* counted; the next line has a transfer if the repeat bit is (still) there.
CountLine(ch) ==
  LET unit == IF ch.hdma_do_transfer THEN UnitSize[ch.params.mode + 1] ELSE 0
  IN  HdmaState(ch,
                IF ch.params.indirect THEN ch.hdma_addr ELSE Plus(ch.hdma_addr, unit),
                ch.hdma_flags - 1,
                IF ch.params.indirect THEN Plus(ch.dma_size, unit) ELSE ch.dma_size,
                ch.hdma_flags - 1 >= RepeatBit)

LineCounterDone(ch) == ch.hdma_flags % RepeatBit = 0

Halted(ch) == ch.hdma_flags = 0

AfterLine(ch) ==
  LET counted == CountLine(ch)
  IN  IF Halted(ch) THEN ch
      ELSE IF LineCounterDone(counted) THEN ReadEntry(counted, counted.hdma_addr)
      ELSE counted

ReadsCounter(ch) == ~Halted(ch) /\ LineCounterDone(CountLine(ch))

Served == {c \in hdmaen : ~Halted(chan[c])}
Follows(c) == c \in hdmaen /\ table[c] # None

DoHdma ==
  /\ phase = "lines"
  /\ IF line = LastVisible THEN phase' = "vblank" /\ line' = 0
                           ELSE phase' = "lines" /\ line' = line + 1
  /\ chan' = [c \in Channels |-> IF c \in hdmaen THEN AfterLine(chan[c]) ELSE chan[c]]
  /\ sent' = [c \in Channels |->
                IF c \in Served /\ chan[c].hdma_do_transfer THEN Source(chan[c]) ELSE None]
  /\ entry' = [c \in Channels |->
                 IF Follows(c) /\ ReadsCounter(chan[c]) THEN entry[c] + 1 ELSE entry[c]]
  /\ spent' = [c \in Channels |->
                 IF ~Follows(c) \/ Halted(chan[c]) THEN spent[c]
                 ELSE IF ReadsCounter(chan[c]) THEN 0 ELSE spent[c] + 1]
  /\ UNCHANGED <<hdmaen, table>>

\* The frame ends.
EndFrame ==
  /\ phase = "vblank"
  /\ phase' = "init"
  /\ UNCHANGED <<line, hdmaen, chan, sent, table, entry, spent>>

-----------------------------------------------------------------------------
Program ==
  \/ \E c \in Programmed, p \in Params : StoreParams(c, p)
  \/ \E c \in Programmed, b \in AddrBytes : StoreAAddr(c, b)
  \/ \E c \in Programmed, b \in SizeBytes : StoreSize(c, b)
  \/ \E c \in Programmed, b \in Banks : StoreABank(c, b) \/ StoreIndirectBank(c, b)
  \/ \E mask \in SUBSET Channels : StoreHdmaen(mask) \/ StoreMdmaen(mask)

Next == InitHdma \/ DoHdma \/ EndFrame \/ Program

Spec == Init /\ [][Next]_vars

-----------------------------------------------------------------------------
(* What HDMA promises.                                                     *)

\* The table channel c has been following since the frame began.
Channel(c) ==
  INSTANCE HdmaTable WITH
    table <- table[c], entry <- entry[c], spent <- spent[c],
    sent  <- IF table[c] = None THEN None ELSE sent[c]

\* A channel enabled for the whole frame sends what its table says, line by
\* line, whatever the program does in the meantime to the other channels, to
\* the start address, or to the DMA size of a direct channel, general purpose
\* DMA on the same channel included.
FollowsTable ==
  /\ \A c \in Channels : Channel(c)!Idle
  /\ [][\A c \in Channels : [Channel(c)!TableNext]_(Channel(c)!tvars)]_vars

UnitsSent(e, lines) == IF e.repeat THEN lines ELSE IF lines = 0 THEN 0 ELSE 1

\* The registers of a channel that has spent some lines of entry k of table t.
Place(ch, t, k, lines) ==
  LET e    == t.entries[k]
      data == t.data[k] + t.unit * UnitsSent(e, lines)
  IN  /\ ch.params = t.params /\ ch.a_addr_bank = t.bank
      /\ t.params.indirect => ch.hdma_indirect_bank = t.data_bank
      /\ k \in 1..(Len(t.entries) + 1)
      /\ IF k > Len(t.entries) THEN Halted(ch) /\ lines = 0
         ELSE /\ lines < e.lines
              /\ ch.hdma_flags = Counter(e) - lines
              /\ ch.hdma_do_transfer = (e.repeat \/ lines = 0)
              /\ IF t.params.indirect
                   THEN ch.dma_size = data /\ ch.hdma_addr = t.header[k] + 3
                   ELSE ch.hdma_addr = data

\* The registers of a channel and the place it has reached in its table agree,
\* and a channel that has lost its table is not followed.
RegistersInTable ==
  \A c \in Channels :
    IF table[c] = None THEN entry[c] = 1 /\ spent[c] = 0
    ELSE c \in hdmaen /\ Place(chan[c], table[c], entry[c], spent[c])
=============================================================================
