------------------------------- MODULE Ports --------------------------------
(***************************************************************************)
(* The registers through which a program reaches memories it has no        *)
(* address for, byte by byte: VRAM, OAM and CGRAM (breeze_core/ppu/mod.rs) *)
(* and WRAM (breeze_core/snes.rs).  The program sets an address once, then *)
(* stores or loads a stream of bytes, and the port counts.  Three more     *)
(* groups of registers take or give a word as two bytes: the scroll and    *)
(* Mode 7 registers, which are written twice, and the position counters,   *)
(* which are read twice.                                                   *)
(*                                                                         *)
(* An action is an access.  A word the code keeps as a number to count     *)
(* with is a number here; one it only takes apart is a record of halves.   *)
(*                                                                         *)
(* The groups share no state, so that a behaviour is about one of them:    *)
(* uses, which says which one.                                             *)
(***************************************************************************)
EXTENDS Integers, Sequences, FiniteSets, Screen

CONSTANTS
  Radix,       \* values of a byte: 256
  Steps,       \* increments of the VRAM address: 1, 32, 64, 128
  LowTable,    \* bytes of the low table of OAM: 512
  HighTable,   \* bytes of the high table: 32
  Fine,        \* what the low bits of a horizontal offset count: 8 dots
  WramPages,   \* WRAM in pages of Radix * Radix bytes: 2
  Values,      \* the bytes a program stores
  Modes,       \* settings of VMAIN a program uses: when and how far to count
  Groups,      \* the groups of registers programs use
  MaxSets,     \* bound of the model: stores to registers that hold an address
  MaxMoves     \* bound of the model: bytes stored or loaded

ASSUME PortsAssumption ==
  /\ Radix \in Nat /\ Radix > 1
  /\ Steps \in [0..3 -> Nat]
  /\ HighTable \in Nat \ {0} /\ LowTable = Radix * 2 /\ LowTable % HighTable = 0
  /\ Fine \in 1..Radix /\ Radix % Fine = 0
  /\ WramPages \in 1..Radix
  /\ Dots \in 1..(Radix * Radix) /\ Lines \in 1..(Radix * Radix)
  /\ Values \subseteq 0..(Radix - 1)
  /\ Modes \subseteq BOOLEAN \X (0..3)
  /\ Groups \subseteq {"vram", "oam", "cgram", "wram", "twice", "counters"}
  /\ MaxSets \in Nat /\ MaxMoves \in Nat

VARIABLES
  uses,    \* the group of registers the program uses
  vram, vp,      \* memory; late, step, addr and prefetch of its port
  oam, op,       \* memory; addl, addh, addr and lsb
  cgram, cp,     \* memory; add and low
  wram, wmadd,   \* memory; its address
  ofs, bg_old, m7, m7_old,   \* the registers written twice, and the byte before
  cnt,     \* position, latches and flip-flops
  stream,  \* history: the bytes stored or loaded since the address was set
  whole,   \* history: words stored to a register as two bytes in sequence
  seen     \* history: what has been read of the latched counters

vramVars  == <<vram, vp>>
oamVars   == <<oam, op>>
cgramVars == <<cgram, cp>>
wramVars  == <<wram, wmadd>>
twiceVars == <<ofs, bg_old, m7, m7_old, whole>>
cntVars   == <<cnt, seen>>
vars == <<uses, vramVars, oamVars, cgramVars, wramVars, twiceVars, cntVars, stream>>

\* What an access through a group leaves alone.
NotByVram == <<uses, oamVars, cgramVars, wramVars, twiceVars, cntVars>>
NotByOam == <<uses, vramVars, cgramVars, wramVars, twiceVars, cntVars>>
NotByCgram == <<uses, vramVars, oamVars, wramVars, twiceVars, cntVars>>
NotByWram == <<uses, vramVars, oamVars, cgramVars, twiceVars, cntVars>>
NotByTwice == <<uses, vramVars, oamVars, cgramVars, wramVars, cntVars, stream>>
NotByCounters == <<uses, vramVars, oamVars, cgramVars, wramVars, twiceVars, stream>>

Byte == 0..(Radix - 1)
Word == 0..(Radix * Radix - 1)
Lo(w) == w % Radix
Hi(w) == w \div Radix
NONE == -1              \* no byte: Option::None
Halves == [lo : Byte, hi : Byte]

WramSize == WramPages * Radix * Radix
OamBits  == 2 * LowTable         \* addresses the OAM port counts through: 1024

BgRegs == {"h", "v"}             \* BGnHOFS and BGnVOFS, of one background
M7Regs == {"m7hofs", "m7vofs", "m7a"}
AllRegs == BgRegs \cup M7Regs

-----------------------------------------------------------------------------
(* The history of a stream.                                                *)

Restart(a) ==
  /\ stream.sets < MaxSets
  /\ stream' = [stream EXCEPT !.kind = "none", !.start = a, !.data = <<>>, !.sets = @ + 1]

\* A byte more, in the direction (and through the register) the stream has.
\* Anything else ends it.
Extend(kind, inTurn, b) ==
  /\ stream.moves < MaxMoves
  /\ stream' = IF stream.kind \in {"none", kind} /\ inTurn
               THEN [stream EXCEPT !.kind = kind, !.data = Append(@, b), !.moves = @ + 1]
               ELSE [stream EXCEPT !.kind = "mixed", !.data = <<>>, !.moves = @ + 1]

-----------------------------------------------------------------------------
(* VRAM.                                                                   *)

Half(port) == IF port = "low" THEN 0 ELSE 1

VramIndex(addr, half) == (addr * 2 + half) % (Radix * Radix)

VramAt(addr) == [lo |-> vram[VramIndex(addr, 0)], hi |-> vram[VramIndex(addr, 1)]]

\* The increment of a store: after the half that late names.
VramInc(p, port) == IF p.late = (port = "high") THEN Steps[p.step] ELSE 0

\* The increment of a load, as the code has it for both halves.
VramLoadInc(p) == IF p.late THEN Steps[p.step] ELSE 0

StoreVmain(late, step) ==
  /\ uses = "vram"
  /\ vp' = [vp EXCEPT !.late = late, !.step = step]
  /\ Restart(vp.addr)
  /\ UNCHANGED <<vram, NotByVram>>

\* No prefetch, although the comment of vram_prefetch promises one.
StoreVmadd(port, b) ==
  /\ uses = "vram"
  /\ LET addr == IF port = "low" THEN Hi(vp.addr) * Radix + b ELSE b * Radix + Lo(vp.addr)
     IN  /\ vp' = [vp EXCEPT !.addr = addr]
         /\ Restart(addr)
  /\ UNCHANGED <<vram, NotByVram>>

\* Whether a half is the next one of a stream of words.
VramTurn(port) ==
  (Len(stream.data) % 2 = 0) = (port = IF vp.late THEN "low" ELSE "high")

StoreVram(port, b) ==
  /\ uses = "vram"
  /\ vram' = [vram EXCEPT ![VramIndex(vp.addr, Half(port))] = b]
  /\ vp' = [vp EXCEPT !.addr = (@ + VramInc(vp, port)) % (Radix * Radix)]
  /\ Extend("store", VramTurn(port), b)
  /\ UNCHANGED NotByVram

\* Mutant: the address counts before the word is fetched.
LoadVramAhead(port) ==
  /\ uses = "vram"
  /\ LET next == (vp.addr + VramLoadInc(vp)) % (Radix * Radix)
     IN  vp' = IF next = vp.addr THEN vp
               ELSE [vp EXCEPT !.prefetch = VramAt(next), !.addr = next]
  /\ Extend(port, TRUE, IF port = "low" THEN vp.prefetch.lo ELSE vp.prefetch.hi)
  /\ UNCHANGED <<vram, NotByVram>>

\* What was prefetched is read; if the address counts, the word it was at is
\* fetched first.
LoadVram(port) ==
  /\ uses = "vram"
  /\ LET inc == VramLoadInc(vp)
     IN  vp' = IF inc = 0 THEN vp
               ELSE [vp EXCEPT !.prefetch = VramAt(vp.addr),
                               !.addr = (@ + inc) % (Radix * Radix)]
  /\ Extend(port, TRUE, IF port = "low" THEN vp.prefetch.lo ELSE vp.prefetch.hi)
  /\ UNCHANGED <<vram, NotByVram>>

-----------------------------------------------------------------------------
(* OAM.  The low table is written a word at a time.                        *)

OamIndex(a) == IF a < LowTable THEN a ELSE LowTable + (a % HighTable)

\* update_oam_addr: a word address of nine bits.
OamReload(addl, addh) == ((addh % 2) * Radix + addl) * 2

StoreOamadd(addl, addh) ==
  /\ uses = "oam"
  /\ op' = [op EXCEPT !.addl = addl, !.addh = addh, !.addr = OamReload(addl, addh)]
  /\ Restart(OamReload(addl, addh))
  /\ UNCHANGED <<oam, NotByOam>>

\* Mutant: the byte kept is the one stored last, whatever its address.
KeepLsbAlways(b) == b

KeepLsb(b) == IF op.addr % 2 = 0 THEN b ELSE op.lsb

StoreOam(b) ==
  /\ uses = "oam"
  /\ LET a == op.addr
     IN  /\ oam' = IF a >= LowTable THEN [oam EXCEPT ![OamIndex(a)] = b]
                   ELSE IF a % 2 = 1 THEN [oam EXCEPT ![a - 1] = KeepLsb(b), ![a] = b]
                   ELSE oam
         /\ op' = [op EXCEPT !.lsb = KeepLsb(b), !.addr = (a + 1) % OamBits]
  /\ Extend("store", TRUE, b)
  /\ UNCHANGED NotByOam

LoadOam ==
  /\ uses = "oam"
  /\ op' = [op EXCEPT !.addr = (@ + 1) % OamBits]
  /\ Extend("load", TRUE, oam[OamIndex(op.addr)])
  /\ UNCHANGED <<oam, NotByOam>>

-----------------------------------------------------------------------------
(* CGRAM.  A colour is written whole, and cannot be read.                  *)

StoreCgadd(b) ==
  /\ uses = "cgram"
  /\ cp' = [add |-> b, low |-> NONE]
  /\ Restart(b)
  /\ UNCHANGED <<cgram, NotByCgram>>

StoreCgram(b) ==
  /\ uses = "cgram"
  /\ IF cp.low = NONE
     THEN cp' = [cp EXCEPT !.low = b] /\ cgram' = cgram
     ELSE /\ cgram' = [cgram EXCEPT ![2 * cp.add] = cp.low, ![2 * cp.add + 1] = b]
          /\ cp' = [add |-> (cp.add + 1) % Radix, low |-> NONE]
  /\ Extend("store", TRUE, b)
  /\ UNCHANGED NotByCgram

-----------------------------------------------------------------------------
(* WRAM.  The address is in three registers, of which the last has a bit.  *)

StoreWmadd(reg, b) ==
  /\ uses = "wram"
  /\ wmadd' = CASE reg = "l" -> (wmadd \div Radix) * Radix + b
                [] reg = "m" -> (wmadd \div (Radix * Radix)) * Radix * Radix + b * Radix + Lo(wmadd)
                [] reg = "h" -> (b % WramPages) * Radix * Radix + (wmadd % (Radix * Radix))
  /\ Restart(wmadd')
  /\ UNCHANGED <<wram, NotByWram>>

NextWmadd == (wmadd + 1) % WramSize

StoreWram(b) ==
  /\ uses = "wram"
  /\ wram' = [wram EXCEPT ![wmadd] = b]
  /\ wmadd' = NextWmadd
  /\ Extend("store", TRUE, b)
  /\ UNCHANGED NotByWram

LoadWram ==
  /\ uses = "wram"
  /\ wmadd' = NextWmadd
  /\ Extend("load", TRUE, wram[wmadd])
  /\ UNCHANGED <<wram, NotByWram>>

-----------------------------------------------------------------------------
(* Registers written twice.                                                *)

\* Mutant: the other byte's low bits are kept.
HorizontalKeeps(reg, b) == [hi |-> b, lo |-> (bg_old - (bg_old % Fine)) + (reg.lo % Fine)]

Horizontal(reg, b) == [hi |-> b, lo |-> (bg_old - (bg_old % Fine)) + (reg.hi % Fine)]

Vertical(b) == [hi |-> b, lo |-> bg_old]

\* After a store of b to the registers of a set: a register whose last two
\* stores follow each other within its group holds the word they make.
WholeAfter(stored, b) ==
  [s \in AllRegs |->
     IF s \in stored
     THEN [half |-> b, ok |-> whole[s].half # NONE, word |-> [lo |-> whole[s].half, hi |-> b]]
     ELSE IF \E r \in stored : (r \in BgRegs) = (s \in BgRegs)
          THEN [whole[s] EXCEPT !.half = NONE] ELSE whole[s]]

\* A store to a scroll register of a background other than the first.
StoreBgofs(r, b) ==
  /\ uses = "twice"
  /\ ofs' = [ofs EXCEPT ![r] = IF r = "h" THEN Horizontal(@, b) ELSE Vertical(b)]
  /\ bg_old' = b
  /\ whole' = WholeAfter({r}, b)
  /\ UNCHANGED <<m7, m7_old, NotByTwice>>

StoreM7(r, b) ==
  /\ uses = "twice"
  /\ m7' = [m7 EXCEPT ![r] = [hi |-> b, lo |-> m7_old]]
  /\ m7_old' = b
  /\ whole' = WholeAfter({r}, b)
  /\ UNCHANGED <<ofs, bg_old, NotByTwice>>

\* $210d and $210e belong to both groups.
StoreBg1ofs(r, b) ==
  LET m == IF r = "h" THEN "m7hofs" ELSE "m7vofs"
  IN  /\ uses = "twice"
      /\ ofs' = [ofs EXCEPT ![r] = IF r = "h" THEN Horizontal(@, b) ELSE Vertical(b)]
      /\ m7' = [m7 EXCEPT ![m] = [hi |-> b, lo |-> m7_old]]
      /\ bg_old' = b /\ m7_old' = b
      /\ whole' = WholeAfter({r, m}, b)
      /\ UNCHANGED NotByTwice

-----------------------------------------------------------------------------
(* Position counters.                                                      *)

\* Ppu::update, of which only the position matters here.
Advance ==
  /\ uses = "counters"
  /\ cnt' = [cnt EXCEPT !.x = NextDot(@), !.line = NextLine(cnt.x, @)]
  /\ UNCHANGED <<seen, NotByCounters>>

\* A store to $4201.
StoreWrio(can) ==
  /\ uses = "counters"
  /\ cnt' = [cnt EXCEPT !.can = can]
  /\ UNCHANGED <<seen, NotByCounters>>

\* A load from $2137.  The flip-flops stay.
LatchCounters ==
  /\ uses = "counters"
  /\ cnt' = IF cnt.can THEN [cnt EXCEPT !.ophct = cnt.x, !.opvct = cnt.line, !.ext = TRUE] ELSE cnt
  /\ seen' = IF cnt.can THEN [c \in DOMAIN seen |-> IF Len(seen[c].bytes) = 1 \/ seen[c].torn
                                                    THEN [torn |-> TRUE, bytes |-> <<>>]
                                                    ELSE [torn |-> FALSE, bytes |-> <<>>]]
             ELSE seen
  /\ UNCHANGED NotByCounters

See(c, b) == seen' = [seen EXCEPT ![c].bytes = IF seen[c].torn THEN @
                                               ELSE IF Len(@) = 2 THEN <<b>> ELSE Append(@, b)]

\* Mutant: one flip-flop for both counters.
LoadOphctSharesFlag ==
  /\ uses = "counters"
  /\ See("h", IF cnt.hHigh THEN Hi(cnt.ophct) ELSE Lo(cnt.ophct))
  /\ cnt' = [cnt EXCEPT !.hHigh = ~@, !.vHigh = ~@]
  /\ UNCHANGED NotByCounters

LoadOphct ==
  /\ uses = "counters"
  /\ See("h", IF cnt.hHigh THEN Hi(cnt.ophct) ELSE Lo(cnt.ophct))
  /\ cnt' = [cnt EXCEPT !.hHigh = ~@]
  /\ UNCHANGED NotByCounters

LoadOpvct ==
  /\ uses = "counters"
  /\ See("v", IF cnt.vHigh THEN Hi(cnt.opvct) ELSE Lo(cnt.opvct))
  /\ cnt' = [cnt EXCEPT !.vHigh = ~@]
  /\ UNCHANGED NotByCounters

\* A load from $213f.  The flag of the latch stays set for good.
LoadStat78 ==
  /\ uses = "counters"
  /\ cnt' = [cnt EXCEPT !.hHigh = FALSE, !.vHigh = FALSE]
  /\ seen' = [c \in DOMAIN seen |-> [torn |-> FALSE, bytes |-> <<>>]]
  /\ UNCHANGED NotByCounters

-----------------------------------------------------------------------------
Init ==
  /\ uses \in Groups
  /\ vram = [a \in Word |-> 0]
  /\ vp = [late |-> FALSE, step |-> 0, addr |-> 0, prefetch |-> [lo |-> 0, hi |-> 0]]
  /\ oam = [a \in 0..(LowTable + HighTable - 1) |-> 0]
  /\ op = [addl |-> 0, addh |-> 0, addr |-> 0, lsb |-> 0]
  /\ cgram = [a \in 0..(2 * Radix - 1) |-> 0] /\ cp = [add |-> 0, low |-> NONE]
  /\ wram = [a \in 0..(WramSize - 1) |-> 0] /\ wmadd = 0
  /\ ofs = [r \in BgRegs |-> [lo |-> 0, hi |-> 0]] /\ bg_old = 0
  /\ m7 = [r \in M7Regs |-> [lo |-> 0, hi |-> 0]] /\ m7_old = 0
  /\ cnt = [x |-> 0, line |-> 0, can |-> FALSE, ophct |-> 0, opvct |-> 0,
            hHigh |-> FALSE, vHigh |-> FALSE, ext |-> FALSE]
  /\ stream = [kind |-> "none", start |-> 0, data |-> <<>>, sets |-> 0, moves |-> 0]
  /\ whole = [s \in AllRegs |-> [half |-> NONE, ok |-> FALSE, word |-> [lo |-> 0, hi |-> 0]]]
  /\ seen = [c \in {"h", "v"} |-> [torn |-> FALSE, bytes |-> <<>>]]

VramAccess ==
  \/ \E mode \in Modes : StoreVmain(mode[1], mode[2])
  \/ \E port \in {"low", "high"} : \/ LoadVram(port)
                                  \/ \E b \in Values : StoreVmadd(port, b) \/ StoreVram(port, b)

OamAccess ==
  \/ LoadOam
  \/ \E b \in Values : StoreOam(b) \/ StoreOamadd(b, op.addh) \/ StoreOamadd(op.addl, b)

CgramAccess == \E b \in Values : StoreCgadd(b) \/ StoreCgram(b)

WramAccess ==
  \/ LoadWram
  \/ \E b \in Values : StoreWram(b) \/ \E reg \in {"l", "m", "h"} : StoreWmadd(reg, b)

TwiceAccess ==
  \E b \in Values : \/ \E r \in BgRegs : StoreBgofs(r, b) \/ StoreBg1ofs(r, b)
                    \/ StoreM7("m7a", b)

CounterAccess ==
  \/ LatchCounters \/ LoadOphct \/ LoadOpvct \/ LoadStat78
  \/ \E can \in BOOLEAN : StoreWrio(can)

Next == VramAccess \/ OamAccess \/ CgramAccess \/ WramAccess \/ TwiceAccess
        \/ CounterAccess \/ Advance

Spec == Init /\ [][Next]_vars

-----------------------------------------------------------------------------
VramOK ==
  /\ vram \in [Word -> Byte]
  /\ vp \in [late : BOOLEAN, step : 0..3, addr : Word, prefetch : Halves]

OamOK ==
  /\ oam \in [0..(LowTable + HighTable - 1) -> Byte]
  /\ op \in [addl : Byte, addh : Byte, addr : 0..(OamBits - 1), lsb : Byte]

CgramOK == cgram \in [0..(2 * Radix - 1) -> Byte] /\ cp \in [add : Byte, low : Byte \cup {NONE}]

WramOK == wram \in [0..(WramSize - 1) -> Byte] /\ wmadd \in 0..(WramSize - 1)

WholeType == [half : Byte \cup {NONE}, ok : BOOLEAN, word : [lo : Byte \cup {NONE}, hi : Byte]]

TwiceOK ==
  /\ ofs \in [BgRegs -> Halves] /\ bg_old \in Byte
  /\ m7 \in [M7Regs -> Halves] /\ m7_old \in Byte
  /\ whole \in [AllRegs -> WholeType]

CountersOK ==
  /\ cnt \in [x : 0..(Dots - 1), line : 0..(Lines - 1), can : BOOLEAN, ophct : 0..(Dots - 1),
              opvct : 0..(Lines - 1), hHigh : BOOLEAN, vHigh : BOOLEAN, ext : BOOLEAN]
  /\ seen \in [{"h", "v"} -> [torn : BOOLEAN, bytes : Seq(Byte)]]

StreamOK ==
  /\ stream \in [kind : {"none", "load", "store", "low", "high", "mixed"}, start : Nat,
                 data : Seq(Byte), sets : 0..MaxSets, moves : 0..MaxMoves]
  /\ Len(stream.data) <= stream.moves

TypeOK ==
  uses \in Groups /\ VramOK /\ OamOK /\ CgramOK /\ WramOK /\ TwiceOK /\ CountersOK /\ StreamOK

\* The cell the k-th byte of a stream belongs in, counted from the address set.
Cell(k) ==
  CASE uses = "vram"  -> (2 * (stream.start + ((k - 1) \div 2) * Steps[vp.step])
                           + (IF vp.late THEN (k - 1) % 2 ELSE k % 2)) % Cardinality(Word)
    [] uses = "oam"   -> LET a == (stream.start + k - 1) % OamBits
                         IN  IF a < LowTable THEN a ELSE LowTable + ((a - LowTable) % HighTable)
    [] uses = "cgram" -> 2 * ((stream.start + (k - 1) \div 2) % Radix) + ((k - 1) % 2)
    [] uses = "wram"  -> (stream.start + k - 1) % WramSize

Memory == CASE uses = "vram" -> vram [] uses = "oam" -> oam
            [] uses = "cgram" -> cgram [] uses = "wram" -> wram

\* The first half of a word of OAM's low table and of a colour waits for the second.
Waits(k) == /\ k = Len(stream.data) /\ k % 2 = 1
            /\ uses = "cgram" \/ (uses = "oam" /\ Cell(k) < LowTable)

\* What a program stores in sequence lands in consecutive cells from the
\* address it set, words whole, however the address wraps, is mirrored or
\* counts, and whatever was stored through the port before.
StreamsLand ==
  stream.kind = "store" =>
    \A k \in 1..Len(stream.data) :
      Waits(k) \/ (\E l \in (k + 1)..Len(stream.data) : Cell(l) = Cell(k) /\ ~Waits(l))
      \/ Memory[Cell(k)] = stream.data[k]

\* What a program loads in sequence are consecutive cells from the address
\* it set; of VRAM, the same half of consecutive words, from the second load on,
\* if the address counts.
LoadsInOrder ==
  /\ stream.kind = "load" =>
       \A k \in 1..Len(stream.data) : stream.data[k] = Memory[Cell(k)]
  /\ uses = "vram" /\ stream.kind \in {"low", "high"} /\ vp.late /\ Steps[vp.step] # 0 =>
       \A k \in 2..Len(stream.data) :
         stream.data[k] = vram[(2 * (stream.start + (k - 2) * Steps[vp.step]) + Half(stream.kind))
                               % Cardinality(Word)]

\* Two stores to a register with no other to its group in between make it
\* the word stored, whatever it and the other registers held, and no access
\* to another register changes it.
WrittenTwiceWhole ==
  \A s \in AllRegs : whole[s].ok => whole[s].word = IF s \in BgRegs THEN ofs[s] ELSE m7[s]

\* Two loads of a counter since its flip-flop was reset, with no latching in
\* between, give the position latched, low byte first.
CountersReadWhole ==
  \A c \in {"h", "v"} :
    Len(seen[c].bytes) = 2 =>
      seen[c].bytes[1] + Radix * seen[c].bytes[2] = IF c = "h" THEN cnt.ophct ELSE cnt.opvct
=============================================================================
