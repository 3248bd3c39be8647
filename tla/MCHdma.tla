------------------------------- MODULE MCHdma -------------------------------
(* Bytes of three bits, so addresses of six: the line counter has two bits  *)
(* besides the repeat bit.  Bank 0 holds a direct table with both kinds of  *)
(* entries, and an indirect one whose first entry has the longest count     *)
(* there is, the bare repeat bit (4 lines here, 128 in the code).           *)
EXTENDS Hdma

Direct   == [indirect |-> FALSE, mode |-> 0]
Indirect == [indirect |-> TRUE, mode |-> 1]

Entry(n, r) == [lines |-> n, repeat |-> r]

DirectTable ==
  [params |-> Direct, bank |-> 0, data_bank |-> 0, unit |-> 1,
   entries |-> <<Entry(2, FALSE), Entry(2, TRUE)>>,
   header |-> <<9, 11, 14>>, data |-> <<10, 12>>]

IndirectTable ==
  [params |-> Indirect, bank |-> 0, data_bank |-> 1, unit |-> 2,
   entries |-> <<Entry(4, FALSE), Entry(1, TRUE)>>,
   header |-> <<15, 18, 21>>, data |-> <<10, 40>>]

MCTables == {DirectTable, IndirectTable}

Zero  == [a \in 0..63 |-> 0]
Bank0 == [Zero EXCEPT ![9]  = 2, ![11] = 6,
                      ![15] = 4, ![16] = 2, ![17] = 1,
                      ![18] = 5, ![19] = 0, ![20] = 5]

MCMemory == [b \in 0..7 |-> IF b = 0 THEN Bank0 ELSE Zero]

MCChannels   == {0}
MCProgrammed == {0}
MCUnitSize   == <<1, 2>>
MCParams     == {Direct, Indirect}
MCAddrBytes  == {1}
MCSizeBytes  == {0}
MCBanks      == {0, 1}
=============================================================================
