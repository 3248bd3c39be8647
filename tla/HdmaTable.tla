----------------------------- MODULE HdmaTable -----------------------------
(***************************************************************************)
(* What one HDMA channel promises during one frame, in terms of its table. *)
(*                                                                         *)
(* A table is a list of entries.  An entry covers a number of scanlines;   *)
(* a repeating entry sends a unit of data on each of them, any other entry *)
(* sends one unit, on its first line.  After the last entry nothing is     *)
(* sent until the next frame.                                              *)
(***************************************************************************)
EXTENDS Naturals, Sequences

CONSTANTS
  Tables,  \* [entries, unit, data_bank, data, ...]: data[k] is where entry k's data is
  None     \* no table, nothing promised; and no unit sent on a line

VARIABLES
  table,   \* the table the frame started with, until something interferes
  entry,   \* the entry of the next line
  spent,   \* the lines of that entry already spent
  sent     \* the unit the last line sent: where its first byte was read

tvars == <<table, entry, spent, sent>>

Ended(t, k)    == k > Len(t.entries)
Sends(t, k, j) == t.entries[k].repeat \/ j = 0
Unit(t, k, j)  == [bank |-> t.data_bank, addr |-> t.data[k] + t.unit * j]

Idle == table = None /\ entry = 1 /\ spent = 0 /\ sent = None

\* A new frame: the channel is on with a table, or it is not.
NewFrame ==
  /\ table' \in Tables \cup {None}
  /\ entry' = 1 /\ spent' = 0 /\ sent' = None

\* A scanline of an entry.
Line ==
  /\ table # None /\ ~Ended(table, entry)
  /\ sent' = IF Sends(table, entry, spent) THEN Unit(table, entry, spent) ELSE None
  /\ IF spent + 1 = table.entries[entry].lines
       THEN entry' = entry + 1 /\ spent' = 0
       ELSE entry' = entry /\ spent' = spent + 1
  /\ table' = table

\* A scanline after the last entry.
LineAfterEnd ==
  /\ table # None /\ Ended(table, entry)
  /\ sent' = None
  /\ UNCHANGED <<table, entry, spent>>

\* The program interferes with the transfer in the middle of the frame.
Interfere == table' = None /\ entry' = 1 /\ spent' = 0 /\ sent' = None

TableNext == NewFrame \/ Line \/ LineAfterEnd \/ Interfere

TableSpec == Idle /\ [][TableNext]_tvars
=============================================================================
