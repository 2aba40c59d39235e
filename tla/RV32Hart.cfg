\* Any program of 30 instructions, from three start addresses.
SPECIFICATION Spec
CONSTANTS
  ByteBits = 1
  MemMap <- MCMap
  RamLen = 4
  RomFileLen = 10
  Registers = {0, 1}
  Insts <- MCInsts
  Compressible <- MCCompressible
  CsrAddrs = {832, 3072}
  RamAddrs = {8, 9, 10, 11}
  Sets <- MCSets
  StartAddrs = {0, 2, 8}
INVARIANTS TypeOK JumpsAreMarked
PROPERTY ImplementsIsa
