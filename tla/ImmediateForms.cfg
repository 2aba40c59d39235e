\* The lowest register and the immediate 1 for every immediate form.
SPECIFICATION Spec
CONSTANTS
  ByteBits = 2
  MemMap <- MCMap
  RamLen = 4
  RomFileLen = 0
  Expand <- MCExpand
  Mnemonics = {}
  Compared = {}
  FormOperands <- MCForms
  Comprs = {}
INVARIANT ImmediateFormsAgree
\* A behaviour is one case.
CHECK_DEADLOCK FALSE
