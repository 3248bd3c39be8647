----------------------------- MODULE Cartridge ------------------------------
(***************************************************************************)
(* The cartridge (breeze_core/rom.rs): which of two headers an image is    *)
(* taken to have, how much ROM and RAM that gives, and which of their      *)
(* bytes an address of the CPU reaches.  Numbers are those of the code.    *)
(***************************************************************************)
EXTENDS Integers, Sequences

KB == 1024
STOP == [dev |-> "stop", index |-> 0]     \* the emulator panics
Cell(dev, index) == [dev |-> dev, index |-> index]

-----------------------------------------------------------------------------
(* Headers.  Of a header only what it is judged by is kept: whether the    *)
(* checksum matches its complement, whether the title is printable, the    *)
(* map mode, and the exponents of the sizes.                               *)

Types == {"lo", "hi"}
Place(type) == IF type = "lo" THEN 32 * KB ELSE 64 * KB   \* where its header ends

TypeOfMode(mode) == IF mode = 1 THEN "hi" ELSE "lo"

\* Mutant: a map mode of the other type is not counted against a header.
ScoreNoType(h, type, len) ==
  IF len < Place(type) THEN -32768
  ELSE (IF h.checked THEN 0 ELSE -4) + (IF h.ascii THEN 0 ELSE -2)
       + (IF h.mode \in {0, 1} THEN 0 ELSE -10)

\* RomHeader::load
Score(h, type, len) ==
  IF len < Place(type) THEN -32768
  ELSE (IF h.checked THEN 0 ELSE -4) + (IF h.ascii THEN 0 ELSE -2)
       + (IF h.mode \in {0, 1} THEN 0 ELSE -10)
       + (IF TypeOfMode(h.mode) = type THEN 0 ELSE -3)

\* The type is that of the place: the map mode only counts in the score.  If
\* there is not even room for a header, one that promises nothing is used.
Decoded(h, type, len) ==
  IF len < Place(type) THEN [type |-> "lo", rom |-> 0, ram |-> 0]
  ELSE [type |-> type, rom |-> KB * 2^(h.rom % 16), ram |-> KB * 2^(h.ram % 16)]

\* An image may begin with 512 bytes of a copier.
Stripped(len) == IF len % KB = 512 THEN len - 512 ELSE len

\* Rom::from_bytes.  The mapping is that of the place where the chosen header
\* was found, whatever its map mode says.  ROM repeats the image up to the
\* promised size.
Insert(lo, hi, raw) ==
  LET len == Stripped(raw)
      header == IF Score(lo, "lo", len) > Score(hi, "hi", len)
                THEN Decoded(lo, "lo", len) ELSE Decoded(hi, "hi", len)
  IN  IF raw % KB \notin {0, 512} THEN [type |-> "error", rom |-> 0, ram |-> 0]
      ELSE [header EXCEPT !.rom = IF @ > len THEN @ ELSE len]

-----------------------------------------------------------------------------
(* Addresses.                                                              *)

Within(cart, dev, index) ==
  IF 0 <= index /\ index < (IF dev = "rom" THEN cart.rom ELSE cart.ram)
  THEN Cell(dev, index) ELSE STOP

\* Mutant: banks $fe and $ff are taken for the first ones of their range.
LoRomFirst(cart, bank, addr) ==
  IF addr >= 32 * KB THEN Within(cart, "rom", (bank % 64) * 32 * KB + addr - 32 * KB)
  ELSE STOP

\* resolve_lorom.  The size of RAM less 64 KB is an overflow if there is
\* less RAM, which only a build with overflow checks notices.
ResolveLoRom(cart, bank, addr) ==
  IF addr < 32 * KB
  THEN CASE bank \in \h70..\h7d -> Within(cart, "ram", (bank - \h70) * 32 * KB + addr)
         [] bank \in \hfe..\hff ->
              IF cart.checks /\ cart.ram < 64 * KB THEN STOP
              ELSE Within(cart, "ram", cart.ram - 64 * KB + (bank - \hfe) * 32 * KB + addr)
         [] OTHER -> STOP
  ELSE CASE bank = \hfe -> Within(cart, "rom", \h3f0000 + addr - 32 * KB)
         [] bank = \hff -> Within(cart, "rom", \h3f8000 + addr - 32 * KB)
         [] bank \in (\h80..\hfd) \cup (0..\h7d) ->
              Within(cart, "rom", (bank % 128) * 32 * KB + addr - 32 * KB)
         [] OTHER -> STOP

\* resolve_hirom
ResolveHiRom(cart, bank, addr) ==
  CASE bank \in (0..\h3f) \cup (\h80..\hbf) /\ addr >= 32 * KB ->
         Within(cart, "rom", (bank % 64) * 64 * KB + addr)
    [] bank \in (\h20..\h3f) \cup (\ha0..\hbf) /\ addr \in \h6000..\h7fff ->
         Within(cart, "ram", addr % (8 * KB))
    [] bank \in (\h40..\h7d) \cup (\hc0..\hfd) ->
         Within(cart, "rom", ((bank % 128) - 64) * 64 * KB + addr)
    [] bank \in \hfe..\hff -> Within(cart, "rom", (bank - \hfe + \h3e) * 64 * KB + addr)
    [] OTHER -> STOP

ResolveAddr(cart, bank, addr) ==
  IF cart.type = "lo" THEN ResolveLoRom(cart, bank, addr) ELSE ResolveHiRom(cart, bank, addr)
=============================================================================
