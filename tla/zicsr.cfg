SPECIFICATION SectionSpec
CONSTANTS
  Bit = {0, 1}
  LowBit = {0}
  Reg = {x0, x1, x2}
  X0 = x0
  CsrName = {sstatus, sscratch}
  Program <- MCProgram
  Status = sstatus
  Enable = {0}
INVARIANTS CsrTypeOK MaskedInside
PROPERTIES OnlyKnownBreaks LeaveRestores
