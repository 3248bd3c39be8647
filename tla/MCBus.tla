------------------------------- MODULE MCBus -------------------------------
EXTENDS Bus

\* Sizes are exponents: 128 KB and 4 MB of ROM, 1 KB to 512 KB of RAM.
MCHeaders ==
  [checked : BOOLEAN, ascii : {TRUE}, mode : {0, 1, 2}, rom : {7, 12}, ram : {0, 9}]
  \cup [checked : {TRUE}, ascii : {FALSE}, mode : {0, 1}, rom : {7}, ram : {5}]

\* Too short for either header, for one only, with a copier's header, cut off.
MCLengths == {16 * KB, 32 * KB, 128 * KB + 512, 700}

MCBanks == {\h00, \h1f, \h20, \h3f, \h40, \h6f, \h70, \h7d, \h7e, \h7f, \h80, \ha0, \hbf,
            \hc0, \hf0, \hfd, \hfe, \hff}

MCAddrs == {\h0000, \h1fff, \h2000, \h2100, \h2133, \h2134, \h213f, \h2143, \h2180, \h2183,
            \h21ff, \h2200, \h4016, \h4017, \h41ff, \h420b, \h4211, \h4300, \h437f, \h4380,
            \h4400, \h5fff, \h6000, \h7fff, \h8000, \hffff}

\* An ordinary program, one in emulation mode, and one at the ends of its banks.
MCRegisters ==
  {[d |-> 0, x |-> 1, y |-> \hff, s |-> \h1ff, pc |-> \h8000, pbr |-> 0, dbr |-> \h7e],
   [d |-> \hff80, x |-> \hffff, y |-> 1, s |-> \hfff0, pc |-> \hfff0, pbr |-> \hff, dbr |-> \hff]}

MCOperands == {0, \h80, \hff, \hffff, \h7effff, \hffffff}
MCPointers == {\h1234, \h7effff, \hffffff}
============================================================================
