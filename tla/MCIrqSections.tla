--------------------------- MODULE MCIrqSections ---------------------------
(***************************************************************************)
(* Two nested sections on a two-bit status register with one enable bit,   *)
(* which is the bit that an immediate reaches, and one other CSR.  The     *)
(* program has every CSR instruction with every choice of registers, the   *)
(* same register twice included.                                           *)
(***************************************************************************)
EXTENDS IrqSections

RegisterForms ==
  [name : {"csrrw", "csrrs", "csrrc"}, rd : Reg, rs1 : Reg, imm : {{}}, csr : CsrName]

ImmediateForms ==
  [name : {"csrrwi", "csrrsi", "csrrci"}, rd : Reg, rs1 : {X0}, imm : SUBSET LowBit, csr : CsrName]

Integers ==
  [name : {"integer"}, rd : Reg, rs1 : {X0}, imm : SUBSET Bit, csr : CsrName]

MCProgram == RegisterForms \cup ImmediateForms \cup Integers

=============================================================================
