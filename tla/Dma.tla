-------------------------------- MODULE Dma --------------------------------
(***************************************************************************)
(* General purpose DMA: do_dma and dma_transfer of breeze_core/dma.rs.     *)
(*                                                                         *)
(* A store to MDMAEN ($420b) stops the CPU and runs the channels of a mask *)
(* one after the other.  A channel moves its bytes in units of 1, 2 or 4,  *)
(* each byte by a read on one bus and a write on the other; a unit in      *)
(* which the size runs out is cut short.                                   *)
(*                                                                         *)
(* Numbers keep their width: addresses of the A-bus and the DMA size are   *)
(* words, below WordSize.  What lies behind an address and the bytes       *)
(* themselves are left out.  The A-bus side is memory: a channel aimed at  *)
(* $420b itself would start a transfer inside the transfer, and is not     *)
(* modelled.                                                               *)
(***************************************************************************)
EXTENDS Integers, Sequences, FiniteSetsExt

CONSTANTS
  LastChannel,   \* 7
  WordSize,      \* 65536
  UnitCycles,    \* master cycles per transfer, per channel and per byte: 8
  Settings,      \* Settings[c]: what the program stores to channel c's registers
  None           \* no access

Channels == 0..LastChannel
Word     == 0..(WordSize - 1)
Modes    == 0..7

ChannelType == [write_to_a : BOOLEAN, inc : {-1, 0, 1}, mode : Modes,
                b_addr : Nat, a_addr : Word, dma_size : Word]

ASSUME DmaAssumption ==
  /\ LastChannel \in Nat
  /\ WordSize \in Nat /\ WordSize > 1
  /\ UnitCycles \in Nat
  /\ Settings \in [Channels -> SUBSET ChannelType]

VARIABLES
  pc,      \* the CPU's turn, between channels, or before a read or a write
  chan,    \* chan[c]: the channel's registers
  mask,    \* the channels still to serve
  job,     \* the local variables of the channel being served
  cycles,  \* dma_cy
  access,  \* history: the byte just moved, as [a, b], its two addresses
  started, \* history: chan and mask when the transfer began
  moved    \* history: moved[c]: the bytes channel c has moved

vars == <<pc, chan, mask, job, cycles, access, started, moved>>

JobType == [c : Channels, bytes : 0..WordSize, a_addr : Word, step : 0..3]

TypeOK ==
  /\ pc \in {"cpu", "next", "read", "write"}
  /\ chan \in [Channels -> ChannelType]
  /\ mask \in SUBSET Channels
  /\ job \in JobType
  /\ cycles \in Nat
  /\ access \in [a : Word, b : Nat] \cup {None}
  /\ started \in [chan : [Channels -> ChannelType], mask : SUBSET Channels]
  /\ moved \in [Channels -> Nat]

\* The B-bus offsets of the bytes of a unit, by TransferMode.
Offsets(mode) ==
  CASE mode = 0        -> <<0>>
    [] mode = 1        -> <<0, 1>>
    [] mode \in {2, 6} -> <<0, 0>>
    [] mode \in {3, 7} -> <<0, 0, 1, 1>>
    [] mode = 4        -> <<0, 1, 2, 3>>
    [] mode = 5        -> <<0, 1, 0, 1>>

\* Mutant: the size is taken as it is stored.
TransferSizeStored(ch) == ch.dma_size

TransferSize(ch) == IF ch.dma_size = WordSize - 1 THEN WordSize ELSE ch.dma_size

Reset == [write_to_a |-> TRUE, inc |-> 0, mode |-> 7, b_addr |-> 255,
          a_addr |-> WordSize - 1, dma_size |-> WordSize - 1]

Init ==
  /\ pc = "cpu"
  /\ chan = [c \in Channels |-> Reset]
  /\ mask = {}
  /\ job = [c |-> 0, bytes |-> 0, a_addr |-> 0, step |-> 0]
  /\ cycles = 0
  /\ access = None
  /\ started = [chan |-> chan, mask |-> {}]
  /\ moved = [c \in Channels |-> 0]

\* The program sets a channel up, register by register.
Store(c, ch) ==
  /\ pc = "cpu"
  /\ chan' = [chan EXCEPT ![c] = ch]
  /\ UNCHANGED <<pc, mask, job, cycles, access, started, moved>>

-----------------------------------------------------------------------------
StoreMdmaen(m) ==
  /\ pc = "cpu" /\ m # {}
  /\ pc' = "next"
  /\ mask' = m
  /\ cycles' = UnitCycles
  /\ started' = [chan |-> chan, mask |-> m]
  /\ moved' = [c \in Channels |-> 0]
  /\ access' = None
  /\ UNCHANGED <<chan, job>>

\* Mutant: the mask is scanned from its top bit.
LowestDown(S) == CHOOSE c \in S : \A d \in S : c >= d

Lowest(S) == CHOOSE c \in S : \A d \in S : c <= d

\* The lowest channel of the mask is served first; its registers are copied.
NextChannel ==
  /\ pc = "next"
  /\ \E c \in {Lowest(mask)} :
       /\ job' = [c |-> c, bytes |-> TransferSize(chan[c]), a_addr |-> chan[c].a_addr, step |-> 0]
       /\ cycles' = cycles + UnitCycles + UnitCycles * TransferSize(chan[c])
  /\ pc' = "read"
  /\ access' = None
  /\ UNCHANGED <<chan, mask, started, moved>>

Serving == chan[job.c]

\* a_addr steps with the access to the A-bus: the read or the write.
Stepped == (job.a_addr + Serving.inc) % WordSize

\* A read with no byte left reads nothing, and the unit goes on.
ReadByte ==
  /\ pc = "read"
  /\ job.bytes > 0
  /\ pc' = "write"
  /\ access' = [a |-> job.a_addr, b |-> Serving.b_addr + Offsets(Serving.mode)[job.step + 1]]
  /\ job' = IF Serving.write_to_a THEN job ELSE [job EXCEPT !.a_addr = Stepped]
  /\ UNCHANGED <<chan, mask, cycles, started, moved>>

\* Mutant: a unit has one byte too few.
NextStepShort == IF job.step + 2 < Len(Offsets(Serving.mode)) THEN job.step + 1 ELSE 0

NextStep == IF job.step + 1 < Len(Offsets(Serving.mode)) THEN job.step + 1 ELSE 0

\* Mutant: the size is not counted down on the last byte of a unit.
WriteByteUncounted ==
  /\ pc = "write"
  /\ pc' = "read"
  /\ job' = [job EXCEPT !.bytes = IF NextStep = 0 THEN @ ELSE @ - 1,
                        !.a_addr = IF Serving.write_to_a THEN Stepped ELSE @,
                        !.step = NextStep]
  /\ moved' = [moved EXCEPT ![job.c] = IF @ < WordSize THEN @ + 1 ELSE @]
  /\ UNCHANGED <<chan, mask, cycles, access, started>>

WriteByte ==
  /\ pc = "write"
  /\ pc' = "read"
  /\ job' = [job EXCEPT !.bytes = @ - 1,
                        !.a_addr = IF Serving.write_to_a THEN Stepped ELSE @,
                        !.step = NextStep]
  /\ moved' = [moved EXCEPT ![job.c] = @ + 1]
  /\ UNCHANGED <<chan, mask, cycles, access, started>>

FinishChannel ==
  /\ pc = "read" /\ job.bytes = 0
  /\ chan' = [chan EXCEPT ![job.c].dma_size = 0]
  /\ mask' = mask \ {job.c}
  /\ pc' = IF mask' = {} THEN "cpu" ELSE "next"
  /\ UNCHANGED <<job, cycles, access, started, moved>>

-----------------------------------------------------------------------------
Transfer == NextChannel \/ ReadByte \/ WriteByte \/ FinishChannel

Next == \/ \E c \in Channels : \E ch \in Settings[c] : Store(c, ch)
        \/ \E m \in SUBSET Channels : StoreMdmaen(m)
        \/ Transfer

Spec == Init /\ [][Next]_vars

\* do_dma is a loop of its own: the CPU does nothing until it returns.
Fairness == WF_vars(Transfer)

FairSpec == Spec /\ Fairness

-----------------------------------------------------------------------------
(* What a transfer promises, in terms of the registers it started with.    *)

Size(c) == TransferSize(started.chan[c])

\* The k-th byte goes between these two addresses.
PlaceOf(ch, k) ==
  [a |-> (ch.a_addr + ch.inc * k) % WordSize,
   b |-> ch.b_addr + Offsets(ch.mode)[(k % Len(Offsets(ch.mode))) + 1]]

\* Byte by byte, a channel moves its block to or from the B-bus addresses of
\* its mode, whatever it moved before (do_dma, dma_transfer).
BytesInPlace ==
  [][pc = "read" /\ pc' = "write" =>
       access' = PlaceOf(started.chan[job.c], moved[job.c])]_vars

\* No channel moves more than its size, though the size need not be a whole
\* number of units, and a channel only begins when those below it are done
\* (do_dma's loop over the mask and its hard limit).
ChannelsInTurn ==
  \A c \in Channels :
    /\ moved[c] <= IF c \in started.mask THEN Size(c) ELSE 0
    /\ moved[c] > 0 => \A d \in started.mask : d < c => moved[d] = Size(d)

\* When the CPU goes on, every channel of the mask has moved all its bytes and
\* the cycles of exactly these have been charged (do_dma's result).
Complete ==
  pc = "cpu" /\ started.mask # {} =>
    /\ \A c \in started.mask : moved[c] = Size(c)
    /\ cycles = UnitCycles * (1 + Cardinality(started.mask)
                               + MapThenSumSet(Size, started.mask))

\* A transfer ends (the while loop of do_dma).
TransferEnds == pc # "cpu" ~> pc = "cpu"

=============================================================================
