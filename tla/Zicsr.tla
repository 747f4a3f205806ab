------------------------------- MODULE Zicsr -------------------------------
(***************************************************************************)
(* The six CSR instructions as cpu_csr.c executes them: in each handler    *)
(* the register file is written before or after the operand is read, and   *)
(* `after` is the register file the rest of the handler sees.              *)
(***************************************************************************)
EXTENDS AtomicCsr

\* Mutant of set_reg: x0 is written like any register.
set_any_reg(x, index, value) == [x EXCEPT ![index] = value]

set_reg(x, index, value) == IF index = X0 THEN x ELSE [x EXCEPT ![index] = value]

write_csr(csr, value) == csrs' = [csrs EXCEPT ![csr] = value]

\* Mutant of csrrw: the swap without its temporary.
csrrwInPlace(i) ==
  /\ write_csr(i.csr, regs[i.rs1])
  /\ regs' = set_reg(regs, i.rd, csrs'[i.csr])

csrrw(i) ==
  /\ write_csr(i.csr, regs[i.rs1])
  /\ regs' = set_reg(regs, i.rd, csrs[i.csr])

csrrs(i) ==
  LET after == set_reg(regs, i.rd, csrs[i.csr])
  IN  regs' = after /\ write_csr(i.csr, csrs[i.csr] \cup after[i.rs1])

csrrc(i) ==
  LET after == set_reg(regs, i.rd, csrs[i.csr])
  IN  regs' = after /\ write_csr(i.csr, csrs[i.csr] \ after[i.rs1])

csrrwi(i) ==
  /\ regs' = set_reg(regs, i.rd, csrs[i.csr])
  /\ write_csr(i.csr, csrs[i.csr] \ i.imm)

csrrsi(i) ==
  /\ regs' = set_reg(regs, i.rd, csrs[i.csr])
  /\ IF i.imm = {} THEN UNCHANGED csrs ELSE write_csr(i.csr, csrs[i.csr] \cup i.imm)

\* Mutant of csrrci: rd receives the CSR after the bits are cleared.
csrrciReadsLate(i) ==
  /\ write_csr(i.csr, csrs[i.csr] \ i.imm)
  /\ regs' = set_reg(regs, i.rd, csrs'[i.csr])

\* Mutant of csrrci: the write is skipped whenever there is an rd.
csrrciReadsOnly(i) ==
  /\ regs' = set_reg(regs, i.rd, csrs[i.csr])
  /\ IF i.rd # X0 THEN UNCHANGED csrs ELSE write_csr(i.csr, csrs[i.csr] \ i.imm)

csrrci(i) ==
  /\ regs' = set_reg(regs, i.rd, csrs[i.csr])
  /\ IF i.imm = {} THEN UNCHANGED csrs ELSE write_csr(i.csr, csrs[i.csr] \ i.imm)

\* Any other instruction with a result.
Integer(i) == regs' = set_reg(regs, i.rd, i.imm) /\ UNCHANGED csrs

Execute(i) ==
  \/ i.name = "csrrw"   /\ csrrw(i)
  \/ i.name = "csrrs"   /\ csrrs(i)
  \/ i.name = "csrrc"   /\ csrrc(i)
  \/ i.name = "csrrwi"  /\ csrrwi(i)
  \/ i.name = "csrrsi"  /\ csrrsi(i)
  \/ i.name = "csrrci"  /\ csrrci(i)
  \/ i.name = "integer" /\ Integer(i)

CsrStep(i) == instruction' = i /\ Execute(i)

CsrNext == \E i \in Program : CsrStep(i)

CsrSpec == CsrInit /\ [][CsrNext]_csrVars

-----------------------------------------------------------------------------
\* The register file and the CSR file keep their shape, and x0 stays zero:
\* set_reg refuses it in every handler.
CsrTypeOK ==
  /\ regs \in [Reg -> SUBSET Bit]
  /\ csrs \in [CsrName -> SUBSET Bit]
  /\ instruction \in Program
  /\ regs[X0] = {}

\* When a handler does not do to the CSR what AtomicCsr promises: csrrwi clears
\* the bits of its immediate where it should store it (cpu_csr.c:68), and csrrs
\* and csrrc read their mask after they have written rd, so that with rd = rs1
\* it is the old CSR (cpu_csr.c:14 and cpu_csr.c:51).
BreaksPromise(i) ==
  \/ i.name = "csrrwi" /\ (i.imm # {} \/ csrs[i.csr] # {})
  \/ /\ i.rd = i.rs1 /\ i.rd # X0
     /\ \/ i.name = "csrrs" /\ ~(regs[i.rs1] \subseteq csrs[i.csr])
        \/ i.name = "csrrc" /\ ~(csrs[i.csr] \subseteq regs[i.rs1])

\* Whatever registers an instruction names, it hands rd the CSR of before and
\* changes no other register; and it is the exchange its comment promises in
\* every case but those of BreaksPromise, and in none of those.
OnlyKnownBreaks ==
  [][ LET i == instruction'
      IN  /\ i.name # "integer" => regs' = Received(i.rd, csrs[i.csr])
          /\ Promise(i) <=> ~BreaksPromise(i) ]_csrVars

=============================================================================
