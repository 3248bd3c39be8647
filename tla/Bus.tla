-------------------------------- MODULE Bus ---------------------------------
(***************************************************************************)
(* What an address of the CPU reaches (Peripherals in breeze_core/snes.rs, *)
(* the word accesses of wdc65816/lib.rs): a cartridge is inserted, and the *)
(* program loads and stores bytes and words, at addresses it names or at   *)
(* operands of any addressing mode.  Each access is recorded with the      *)
(* cells it reached, in their order, and the cycles it waited; what the    *)
(* cells do is in the modules of the components.                           *)
(***************************************************************************)
EXTENDS Cartridge, Addressing

CONSTANTS
  Headers,    \* the headers an image has at either place
  Lengths,    \* its length in bytes
  BankSet, Addrs,          \* the addresses the program names
  Registers,  \* the CPU's registers when it names an operand
  Operands, Pointers       \* the operands, and what is at their pointers

\* The widths the code gives them; a length is any, and so is a size byte.
ASSUME BusAssumption ==
  /\ Headers \subseteq [checked : BOOLEAN, ascii : BOOLEAN, mode : Nat, rom : Nat, ram : Nat]
  /\ Lengths \subseteq Nat
  /\ BankSet \subseteq 0..255 /\ Addrs \subseteq 0..(W16 - 1)
  /\ Registers \subseteq [d : 0..(W16 - 1), x : 0..(W16 - 1), y : 0..(W16 - 1),
                         s : 0..(W16 - 1), pc : 0..(W16 - 1), pbr : 0..255, dbr : 0..255]
  /\ Operands \subseteq 0..(256 * W16 - 1) /\ Pointers \subseteq 0..(256 * W16 - 1)

VARIABLES
  checks,     \* the build checks additions for overflow
  image,      \* history: the image just inserted
  cart,       \* what Rom keeps of it
  memsel,     \* FastROM
  last,       \* the last access
  operand     \* history: how its address came about

busVars == <<checks, image, cart, memsel, last, operand>>

None == [op |-> "none"]
NoOperand == [mode |-> "none"]
NoImage == [raw |-> -1]
NoCart == [type |-> "none", rom |-> 0, ram |-> 0]
Ops == {"loadb", "loadw", "storeb", "storew"}

-----------------------------------------------------------------------------
(* One byte.                                                               *)

System(bank) == bank \in 0..\h3f \cup \h80..\hbf

\* Bytes of the console's and the cartridge's memory, and registers.
Wram(index) == Cell("wram", index)
Reg(addr) == Cell("reg", addr)
Open == Cell("open", 0)                   \* a warning, and 0 is read

\* Stores pass the registers of one device more or less.
ReadOnly == \h2134..\h213f
WriteOnly == (\h2100..\h2133) \cup (\h2181..\h2183)
LoadableIo == {\h2180, \h4016, \h4017, \h4202, \h4203} \cup (\h4210..\h4212) \cup (\h4214..\h421f)
StorableIo == {\h2180, \h4016} \cup (\h4200..\h420d)

\* 16 channels with 16 registers have an address, 8 and 8 of them exist.
DmaReg(addr) == IF (addr \div 16) % 16 < 8 /\ addr % 16 < 8 THEN Reg(addr) ELSE STOP

Memory(bank, addr) ==
  ResolveAddr([type |-> cart.type, rom |-> cart.rom, ram |-> cart.ram, checks |-> checks],
              bank, addr)

\* Peripherals::load
LoadCell(bank, addr) ==
  IF System(bank)
  THEN CASE addr <= \h1fff -> Wram(addr)
         [] addr \in ReadOnly -> Reg(addr)
         [] addr \in \h2140..\h217f -> Reg(\h2140 + (addr % 4))
         [] addr \in LoadableIo -> Reg(addr)
         [] addr \in \h4300..\h43ff -> DmaReg(addr)
         [] addr >= \h6000 -> Memory(bank, addr)
         [] OTHER -> Open
  ELSE IF bank \in {\h7e, \h7f} THEN Wram((bank - \h7e) * W16 + addr)
  ELSE Memory(bank, addr)

\* Mutant: the bank of WRAM is lost in a store.
StoreCellLow(bank, addr) == IF bank = \h7f THEN Wram(addr) ELSE LoadCell(bank, addr)

\* Peripherals::store.  A store nothing answers to is fatal.
StoreCell(bank, addr) ==
  IF System(bank)
  THEN CASE addr <= \h1fff -> Wram(addr)
         [] addr \in WriteOnly -> Reg(addr)
         [] addr \in \h2140..\h217f -> Reg(\h2140 + (addr % 4))
         [] addr \in ReadOnly \cup \h2184..\h21ff -> Open
         [] addr \in StorableIo -> Reg(addr)
         [] addr \in \h4300..\h43ff -> DmaReg(addr)
         [] addr >= \h8000 -> Memory(bank, addr)
         [] OTHER -> STOP
  ELSE IF bank \in {\h7e, \h7f} THEN Wram((bank - \h7e) * W16 + addr)
  ELSE Memory(bank, addr)

\* Peripherals::do_io_cycle
Wait(bank, addr) ==
  LET rom == IF memsel THEN 0 ELSE 2
  IN  IF bank >= \hc0 THEN rom
      ELSE IF ~System(bank) THEN 2
      ELSE CASE addr <= \h1fff \/ addr \in \h6000..\h7fff -> 2
             [] addr \in \h4000..\h41ff -> 6
             [] addr >= \h8000 -> IF bank >= \h80 THEN rom ELSE 2
             [] OTHER -> 0

-----------------------------------------------------------------------------
(* Words.                                                                  *)

\* Where the second byte of a word is (loadw, storew).  At the end of a bank a
\* load is fatal; a store goes on in the next bank, if the build lets it.
Second(op, at) ==
  IF at.addr < W16 - 1 THEN At(at.bank, at.addr + 1)
  ELSE IF op = "loadw" \/ (checks /\ at.bank = 255) THEN Stopped
  ELSE At((at.bank + 1) % 256, 0)

CellOf(op, at) ==
  IF at = Stopped THEN STOP
  ELSE IF op \in {"loadb", "loadw"} THEN LoadCell(at.bank, at.addr)
  ELSE StoreCell(at.bank, at.addr)

Places(op, at) ==
  IF at # Stopped /\ op \in {"loadw", "storew"}
  THEN IF op = "loadw" /\ Second(op, at) = Stopped THEN <<Stopped>> ELSE <<at, Second(op, at)>>
  ELSE <<at>>

Waits(at) == IF at = Stopped THEN 0 ELSE Wait(at.bank, at.addr)

Access(op, at) ==
  LET places == Places(op, at)
  IN  [op |-> op, at |-> at, places |-> places,
       cells |-> [k \in DOMAIN places |-> CellOf(op, places[k])],
       waits |-> [k \in DOMAIN places |-> Waits(places[k])]]

-----------------------------------------------------------------------------
BusInit ==
  /\ checks \in BOOLEAN
  /\ image = NoImage /\ cart = NoCart
  /\ memsel = FALSE
  /\ last = None /\ operand = NoOperand

\* process_args opens the image before there is a console.
InsertImage(lo, hi, raw) ==
  /\ image' = [lo |-> lo, hi |-> hi, raw |-> raw]
  /\ cart' = Insert(lo, hi, raw)
  /\ UNCHANGED <<checks, memsel, last, operand>>

\* The console is built with it, and the processor reads its reset vector.
PowerOn ==
  /\ image # NoImage /\ cart.type # "error"
  /\ \A addr \in {\hfffc, \hfffd} : LoadCell(0, addr) # STOP
  /\ image' = NoImage
  /\ UNCHANGED <<checks, cart, memsel, last, operand>>

Ready == cart.type \in Types /\ image = NoImage /\ last = None

\* The program sets $420d.
SetMemsel(fast) ==
  /\ Ready
  /\ memsel' = fast
  /\ UNCHANGED <<checks, image, cart, last, operand>>

\* An access to an address, or to an operand.
AccessAt(op, bank, addr) ==
  /\ last' = Access(op, At(bank, addr))
  /\ operand' = NoOperand
  /\ UNCHANGED <<checks, image, cart, memsel>>

AccessOperand(op, mode, r, v, ptr) ==
  /\ last' = Access(op, Effective(checks, mode, r, v, ptr))
  /\ operand' = [mode |-> mode, r |-> r, v |-> v, ptr |-> ptr]
  /\ UNCHANGED <<checks, image, cart, memsel>>

\* The program goes on after it, unless it was fatal.
Continue ==
  /\ last # None
  /\ \A k \in DOMAIN last.cells : last.cells[k] # STOP
  /\ last' = None /\ operand' = NoOperand
  /\ UNCHANGED <<checks, image, cart, memsel>>

Insertion == cart = NoCart /\ \E lo, hi \in Headers, raw \in Lengths : InsertImage(lo, hi, raw)

Accesses ==
  /\ Ready
  /\ \/ \E op \in Ops, bank \in BankSet, addr \in Addrs : AccessAt(op, bank, addr)
     \/ \E op \in Ops, mode \in Modes, r \in Registers, v \in Operands, ptr \in Pointers :
          AccessOperand(op, mode, r, v, ptr)

BusNext == Insertion \/ PowerOn \/ (\E fast \in BOOLEAN : SetMemsel(fast)) \/ Accesses \/ Continue

BusSpec == BusInit /\ [][BusNext]_busVars

-----------------------------------------------------------------------------
(* What must hold.                                                         *)

\* Whatever lies where the other header would be: an image with one header
\* that nothing is wrong with is taken for what that header says (from_bytes).
Faultless(h, type) == h.checked /\ h.ascii /\ h.mode = (IF type = "hi" THEN 1 ELSE 0)

RightHeader ==
  (image # NoImage /\ cart.type # "error") =>
    \A type, other \in Types :
      LET h == [lo |-> image.lo, hi |-> image.hi]
          len == Stripped(image.raw)
          sound == {t \in Types : len >= Place(t) /\ Faultless(h[t], t)}
      IN  sound = {type} =>
            cart.type = type /\ cart.ram = KB * 2^(h[type].ram % 16)
              /\ cart.rom >= len /\ cart.rom >= KB * 2^(h[type].rom % 16)

\* The wires of a LoROM board leave out bit 15 of the address, and both
\* boards the top bits of the bank: the byte of ROM an address selects,
\* whichever of the mirrors of the bank it is in.
Wired(bank, addr) ==
  IF cart.type = "lo" THEN (bank % 128) * 32 * KB + (addr % (32 * KB))
  ELSE (bank % 64) * 64 * KB + addr

Reached(dev) == {k \in DOMAIN last.cells : last.cells[k].dev = dev}

\* Every access to ROM, the first byte of a word or the second, reaches the
\* byte the wires select; the system area is the same in all its banks; and
\* only FastROM makes two mirrors differ, in the time they take.
MirrorsAgree ==
  last # None =>
    /\ \A k \in Reached("rom") :
         last.cells[k].index = Wired(last.places[k].bank, last.places[k].addr)
    /\ \A k \in DOMAIN last.cells :
         LET p == last.places[k]
             mirror == At((p.bank + 128) % 256, p.addr)
         IN  (p # Stopped /\ System(p.bank)) =>
               /\ CellOf(last.op, mirror) = last.cells[k]
               /\ last.waits[k] = Waits(mirror) \/ (memsel /\ p.addr >= \h8000)
    /\ \A k \in DOMAIN last.cells :
         LET p == last.places[k]
         IN  (p # Stopped /\ p.bank < 128 /\ last.cells[k].dev \in {"rom", "ram", "wram"})
               => last.waits[k] = 2

\* What a store leaves in memory is found by a load from there: byte by byte,
\* and a word where the word is loaded again, unless that load is fatal.
Memories == {"wram", "rom", "ram"}

StoresAreFound ==
  (last # None /\ last.op \in {"storeb", "storew"}) =>
    /\ \A k \in DOMAIN last.cells :
         last.cells[k].dev \in Memories =>
           LoadCell(last.places[k].bank, last.places[k].addr) = last.cells[k]
    /\ last.op = "storew" =>
         LET again == Access("loadw", last.at)
         IN  \/ STOP \in {again.cells[k] : k \in DOMAIN again.cells}
             \/ \A k \in DOMAIN last.cells : last.cells[k].dev \in Memories =>
                  again.cells[k] = last.cells[k]

\* The direct page and the stack are in bank 0 and jumps stay in their bank.
\* Elsewhere an index carries into the next bank, and no further than memory:
\* but for an index added to an absolute address, which stays in its bank.
BankOf(mode, r) ==
  CASE mode \in {"d", "d,x", "d,y", "d,s"} -> {0}
    [] mode \in {"rel", "rell", "(abs)", "(abs,x)"} -> {r.pbr}
    [] mode \in {"abs", "abs,x", "abs,y", "(d)", "(d,x)"} -> {r.dbr}
    [] OTHER -> 0..255

OperandsInPlace ==
  (operand # NoOperand /\ last.at # Stopped) =>
    LET r == operand.r
        long == operand.ptr
        wide == r.dbr * W16 + (operand.ptr % W16)
    IN  /\ last.at.bank \in BankOf(operand.mode, r)
        /\ operand.mode = "(d),y" => Linear(last.at) - wide = r.y
        /\ operand.mode = "[d],y" => Linear(last.at) - long = r.y
        /\ operand.mode = "long,x" => Linear(last.at) - operand.v = r.x
=============================================================================
