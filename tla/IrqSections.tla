---------------------------- MODULE IrqSections ----------------------------
(***************************************************************************)
(* A guest that masks interrupts around nested critical sections with the  *)
(* instructions of Zicsr, as a kernel does: csrrci saves the status        *)
(* register in a register and clears the enable bits, an and-immediate     *)
(* keeps those bits of the saved word, and csrrs puts them back.           *)
(* Meanwhile the guest sets and clears the other bits, and executes any    *)
(* instruction that leaves the registers in use and the status alone.      *)
(***************************************************************************)
EXTENDS Zicsr, Sequences, SequencesExt

CONSTANTS
  Status,     \* the CSR that holds the enable bits
  Enable      \* the enable bits, which fit an immediate

ASSUME SectionAssumption == Status \in CsrName /\ Enable \subseteq LowBit

VARIABLE sections   \* the open sections, innermost last

sectionVars == <<regs, csrs, instruction, sections>>

SectionInit == CsrInit /\ sections = <<>>

Guest(name, rd, rs1, imm) ==
  CsrStep([name |-> name, rd |-> rd, rs1 |-> rs1, imm |-> imm, csr |-> Status])

InUse == {sections[k].reg : k \in DOMAIN sections}

Enter(r) ==
  /\ r \notin InUse \cup {X0}
  /\ Guest("csrrci", r, X0, Enable)
  /\ sections' = Append(sections, [reg |-> r, before |-> csrs[Status] \cap Enable, raw |-> TRUE])

Innermost == Last(sections)

KeepEnableBits ==
  /\ sections # <<>>
  /\ Innermost.raw
  /\ Guest("integer", Innermost.reg, X0, regs[Innermost.reg] \cap Enable)
  /\ sections' = Append(Front(sections), [Innermost EXCEPT !.raw = FALSE])

Leave ==
  /\ sections # <<>>
  /\ ~Innermost.raw
  /\ Guest("csrrs", X0, Innermost.reg, {})
  /\ sections' = Front(sections)

\* Outside every section the guest also sets the enable bits.
OtherStatus ==
  /\ \E imm \in SUBSET (IF sections = <<>> THEN LowBit ELSE LowBit \ Enable) :
       Guest("csrrsi", X0, X0, imm) \/ Guest("csrrci", X0, X0, imm)
  /\ UNCHANGED sections

OtherInstruction ==
  /\ \E i \in Program : i.csr # Status /\ i.rd \notin InUse /\ CsrStep(i)
  /\ UNCHANGED sections

SectionNext ==
  \/ \E r \in Reg : Enter(r)
  \/ KeepEnableBits \/ Leave \/ OtherStatus \/ OtherInstruction

SectionSpec == SectionInit /\ [][SectionNext]_sectionVars

\* Interrupts stay masked from the first entry to the last exit: csrrci clears
\* the bits although it also writes rd, and no inner restore sets them.
MaskedInside == sections # <<>> => csrs[Status] \cap Enable = {}

\* Leaving a section puts back the enable bits that were there when it was
\* entered, however many sections were opened and closed inside it, and leaves
\* the other bits alone: csrrci hands out the CSR of before the clear.
RestoredByLeave ==
  Len(sections') < Len(sections) =>
    csrs'[Status] = Innermost.before \cup (csrs[Status] \ Enable)

LeaveRestores == [][RestoredByLeave]_sectionVars

=============================================================================
