\* A fatal access ends the program.
CHECK_DEADLOCK FALSE
SPECIFICATION BusSpec
CONSTANTS
  Headers <- MCHeaders
  Lengths <- MCLengths
  BankSet <- MCBanks
  Addrs <- MCAddrs
  Registers <- MCRegisters
  Operands <- MCOperands
  Pointers <- MCPointers
INVARIANTS
  RightHeader
  MirrorsAgree
  StoresAreFound
  OperandsInPlace
