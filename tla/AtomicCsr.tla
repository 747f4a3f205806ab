----------------------------- MODULE AtomicCsr -----------------------------
(***************************************************************************)
(* What the comments of cpu_csr.c promise of a CSR instruction: one        *)
(* indivisible exchange between a register and a CSR.  rd receives the CSR *)
(* as it was; the CSR receives, gains or loses the bits of the operand as  *)
(* it was.  The handlers of Zicsr break these promises in the cases that   *)
(* Zicsr!BreaksPromise lists.  A word is the set of its bits that are one. *)
(***************************************************************************)
CONSTANTS
  Bit,        \* the bits of a word
  LowBit,     \* the bits a 5-bit immediate can hold
  Reg,        \* register numbers
  X0,         \* the register that is always zero
  CsrName,    \* CSR numbers
  Program     \* the instructions the guest executes

Name == {"csrrw", "csrrs", "csrrc", "csrrwi", "csrrsi", "csrrci", "integer"}

\* imm is the immediate of the i-forms and, of an integer instruction, its result.
Instruction == [name : Name, rd : Reg, rs1 : Reg, imm : SUBSET Bit, csr : CsrName]

ASSUME CsrAssumption == X0 \in Reg /\ LowBit \subseteq Bit /\ Program \subseteq Instruction

VARIABLES
  regs,          \* state->x
  csrs,          \* state->csr
  instruction    \* the instruction executed last

csrVars == <<regs, csrs, instruction>>

CsrInit ==
  /\ regs = [r \in Reg |-> {}]
  /\ csrs = [c \in CsrName |-> {}]
  /\ instruction \in Program

Received(rd, value) == IF rd = X0 THEN regs ELSE [regs EXCEPT ![rd] = value]

Exchange(i, new) ==
  /\ regs' = Received(i.rd, csrs[i.csr])
  /\ csrs' = [csrs EXCEPT ![i.csr] = new]

Swap(i, operand)  == Exchange(i, operand)
Set(i, operand)   == Exchange(i, csrs[i.csr] \cup operand)
Clear(i, operand) == Exchange(i, csrs[i.csr] \ operand)

\* csrrwi is the swap: "instead of rs1 use a zero-extended 5-bit unsigned
\* immediate" (cpu_csr.c:56).
Promise(i) ==
  \/ i.name = "csrrw"   /\ Swap(i, regs[i.rs1])
  \/ i.name = "csrrs"   /\ Set(i, regs[i.rs1])
  \/ i.name = "csrrc"   /\ Clear(i, regs[i.rs1])
  \/ i.name = "csrrwi"  /\ Swap(i, i.imm)
  \/ i.name = "csrrsi"  /\ Set(i, i.imm)
  \/ i.name = "csrrci"  /\ Clear(i, i.imm)
  \/ i.name = "integer" /\ regs' = Received(i.rd, i.imm) /\ UNCHANGED csrs

AtomicNext == \E i \in Program : instruction' = i /\ Promise(i)

\* Every instruction is the exchange its comment promises.  The code does
\* otherwise: the run that checks this expects a counterexample.
AtomicSpec == CsrInit /\ [][AtomicNext]_csrVars

=============================================================================
