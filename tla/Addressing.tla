----------------------------- MODULE Addressing -----------------------------
(***************************************************************************)
(* The effective addresses of the 65816's operands                         *)
(* (AddressingMode::address in wdc65816/addressing.rs).  A mode computes   *)
(* an address from the operand and the registers, or where a pointer is    *)
(* and from that an address; ptr is what the pointer's bytes hold.  16-bit *)
(* additions the code leaves to the build stop the emulator if the build   *)
(* checks for overflow, and wrap if not.                                   *)
(***************************************************************************)
EXTENDS Integers

W16 == 65536
Stopped == [bank |-> -1, addr |-> 0]
At(bank, addr) == [bank |-> bank, addr |-> addr]
Linear(a) == a.bank * W16 + a.addr
FromLinear(l) == IF l >= 256 * W16 THEN Stopped ELSE At(l \div W16, l % W16)   \* asserted

\* A sum in a bank that the code writes as a plain addition.
Plain(checks, bank, sum) == IF checks /\ sum >= W16 THEN Stopped ELSE At(bank, sum % W16)

\* The pointer of an indirect mode: n bytes read one by one from the first on,
\* of whose addresses all but the first are plain sums.
BytesAt(checks, first, n) == ~checks \/ first + n - 1 < W16

\* The pointer is read as a word, which may not cross the end of the bank.
WordAt(checks, sum) == (checks => sum < W16) /\ sum % W16 # W16 - 1

Direct(r, v) == (r.d + v) % W16

\* Mutant: the index is added within the bank.
IndexedInBank(base, index) == At(base.bank, (base.addr + index) % W16)

Indexed(base, index) == FromLinear(Linear(base) + index)

\* A signed displacement of n bits.
Signed(v, n) == IF v >= 2^(n - 1) THEN v - 2^n ELSE v

\* v: the operand of one to three bytes; ptr: what is at the pointer.
Effective(checks, mode, r, v, ptr) ==
  LET word == At(r.dbr, ptr % W16)
      long == At(ptr \div W16, ptr % W16)
      Pointer(first, n, result) == IF BytesAt(checks, first, n) THEN result ELSE Stopped
      Jump(sum, result) == IF WordAt(checks, sum) THEN result ELSE Stopped
  IN
  CASE mode = "abs" -> At(r.dbr, v % W16)
    [] mode = "long" -> FromLinear(v)
    [] mode = "long,x" -> Indexed(FromLinear(v), r.x)
    [] mode = "abs,x" -> Plain(checks, r.dbr, (v % W16) + r.x)
    [] mode = "abs,y" -> Plain(checks, r.dbr, (v % W16) + r.y)
    [] mode = "(abs,x)" ->
         Jump((v % W16) + r.x, At(r.pbr, ptr % W16))
    [] mode = "(abs)" -> Jump(v % W16, At(r.pbr, ptr % W16))
    [] mode = "[abs]" -> Jump(v % W16, Pointer(v % W16, 3, long))
    [] mode = "rel" -> At(r.pbr, (r.pc + Signed(v % 256, 8)) % W16)
    [] mode = "rell" -> At(r.pbr, (r.pc + Signed(v % W16, 16)) % W16)
    [] mode = "d" -> At(0, Direct(r, v % 256))
    [] mode = "d,x" -> At(0, (Direct(r, v % 256) + r.x) % W16)
    [] mode = "d,y" -> At(0, (Direct(r, v % 256) + r.y) % W16)
    [] mode = "(d,x)" -> Pointer((Direct(r, v % 256) + r.x) % W16, 2, word)
    [] mode = "(d)" -> Pointer(Direct(r, v % 256), 2, word)
    [] mode = "(d),y" -> Pointer(Direct(r, v % 256), 2, Indexed(word, r.y))
    [] mode = "[d]" -> Pointer(Direct(r, v % 256), 3, long)
    [] mode = "[d],y" -> Pointer(Direct(r, v % 256), 3, Indexed(long, r.y))
    [] mode = "d,s" -> Plain(checks, 0, r.s + (v % 256))

Modes == {"abs", "long", "long,x", "abs,x", "abs,y", "(abs,x)", "(abs)", "[abs]", "rel", "rell",
          "d", "d,x", "d,y", "(d,x)", "(d)", "(d),y", "[d]", "[d],y", "d,s"}
=============================================================================
