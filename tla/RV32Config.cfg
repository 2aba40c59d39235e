\* Every region of a space of six addresses, three regions; four names, one
\* of them in two spellings, for three objects.
SPECIFICATION Spec
CONSTANTS
  AddrSpace = 6
  Devices = {dev}
  MaxMems = 3
  ByteBits = 8
  Spellings = {"F", "I", "i", "PRIVILEGED", "Z"}
  Names <- MCNames
  Upper <- MCUpper
  Objects = {"rv32i", "zicsr", "priv"}
  Class <- MCClass
  Words <- MCWords
  MaxInsts = 3
INVARIANTS MemsInv FirstByteOwned OverlapsContain
INVARIANTS ConfigInv MisaTellsI OrderedNamesRun
PROPERTIES RoutesStay TakersStay
\* A map that is full may refuse nothing and accept nothing.
CHECK_DEADLOCK FALSE
