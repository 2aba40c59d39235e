\* A decompressor that answers what inst_fetch asks it.
SPECIFICATION Spec
CONSTANTS
  ByteBits = 2
  MemMap <- MCMap
  RamLen = 4
  RomFileLen = 0
  Expand <- MCExpand
  Mnemonics = {}
  Compared = {}
  FormOperands = {}
  Comprs = {"tells"}
INVARIANT FetchedIsThere
\* A behaviour is one case.
CHECK_DEADLOCK FALSE
