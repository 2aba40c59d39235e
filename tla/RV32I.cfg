\* Immediates of their true width; operands of eight bits, all pairs.
SPECIFICATION Spec
CONSTANTS
  ByteBits = 2
  MemMap <- MCMap
  RamLen = 4
  RomFileLen = 0
  Expand <- MCExpand
  Mnemonics <- AllButOri
  Compared <- AllButSlti
  Comprs = {"none", "tells"}
  FormOperands <- MCForms
INVARIANTS DecodesBack ImmediateBack ValuesAgree BranchesAgree StoreThenLoad
INVARIANTS CsrAgrees FetchDelivers
\* A behaviour is one case.
CHECK_DEADLOCK FALSE
