---------------------------- MODULE ZicsrProofs ----------------------------
(***************************************************************************)
(* Theorems about Zicsr: its type invariant; which promises of its         *)
(* comments the handlers keep, and in which cases they break them, for     *)
(* every word length, register file and program; and that nested critical  *)
(* sections built from them mask and restore interrupts.                   *)
(***************************************************************************)
EXTENDS IrqSections, TLAPS

\* The fields of an instruction.
LEMMA InstructionFacts ==
  ASSUME NEW i \in Instruction
  PROVE  i.name \in Name /\ i.rd \in Reg /\ i.rs1 \in Reg /\ i.imm \subseteq Bit /\ i.csr \in CsrName
BY DEF Instruction

\* set_reg keeps a register file well formed, with x0 zero.
LEMMA SetRegFacts ==
  ASSUME NEW x \in [Reg -> SUBSET Bit], x[X0] = {}, NEW r \in Reg, NEW v \in SUBSET Bit
  PROVE  set_reg(x, r, v) \in [Reg -> SUBSET Bit] /\ set_reg(x, r, v)[X0] = {}
BY CsrAssumption DEF set_reg

\* A CSR write keeps the shape of the CSR file.
LEMMA WriteCsrFacts ==
  ASSUME csrs \in [CsrName -> SUBSET Bit], NEW c \in CsrName, NEW v \in SUBSET Bit,
         write_csr(c, v)
  PROVE  csrs' \in [CsrName -> SUBSET Bit]
BY DEF write_csr

FilesOK ==
  regs \in [Reg -> SUBSET Bit] /\ regs[X0] = {} /\ csrs \in [CsrName -> SUBSET Bit]

\* One instruction keeps the shape of the files, whatever its operands.
LEMMA StepKeepsFiles ==
  ASSUME FilesOK, NEW i \in Instruction, CsrStep(i)
  PROVE  FilesOK'
<1> DEFINE after == set_reg(regs, i.rd, csrs[i.csr])
<1>i. i.rd \in Reg /\ i.rs1 \in Reg /\ i.imm \in SUBSET Bit /\ i.csr \in CsrName
  BY InstructionFacts
<1>t. /\ regs \in [Reg -> SUBSET Bit] /\ regs[X0] = {}
      /\ csrs \in [CsrName -> SUBSET Bit]
      /\ csrs[i.csr] \in SUBSET Bit /\ regs[i.rs1] \in SUBSET Bit
  BY <1>i DEF FilesOK
<1>a. after \in [Reg -> SUBSET Bit] /\ after[X0] = {} /\ after[i.rs1] \in SUBSET Bit
  BY <1>i, <1>t, SetRegFacts
<1>b. set_reg(regs, i.rd, i.imm) \in [Reg -> SUBSET Bit] /\ set_reg(regs, i.rd, i.imm)[X0] = {}
  BY <1>i, <1>t, SetRegFacts
<1> HIDE DEF after
<1>c. \A v \in SUBSET Bit : write_csr(i.csr, v) => csrs' \in [CsrName -> SUBSET Bit]
  BY <1>i, <1>t, WriteCsrFacts
<1>1. CASE csrrw(i)
  BY <1>1, <1>a, <1>c, <1>t DEF csrrw, FilesOK, after
<1>2. CASE csrrs(i)
  <2>1. csrs[i.csr] \cup after[i.rs1] \in SUBSET Bit
    BY <1>a, <1>t
  <2> QED
    BY <2>1, <1>2, <1>a, <1>c DEF csrrs, FilesOK, after
<1>3. CASE csrrc(i)
  <2>1. csrs[i.csr] \ after[i.rs1] \in SUBSET Bit
    BY <1>a, <1>t
  <2> QED
    BY <2>1, <1>3, <1>a, <1>c DEF csrrc, FilesOK, after
<1>4. CASE csrrwi(i) \/ csrrci(i)
  <2>1. csrs[i.csr] \ i.imm \in SUBSET Bit
    BY <1>t
  <2> QED
    BY <2>1, <1>4, <1>a, <1>c, <1>t DEF csrrwi, csrrci, FilesOK, after
<1>5. CASE csrrsi(i)
  <2>1. csrs[i.csr] \cup i.imm \in SUBSET Bit
    BY <1>t, <1>i
  <2> QED
    BY <2>1, <1>5, <1>a, <1>c, <1>t DEF csrrsi, FilesOK, after
<1>6. CASE Integer(i)
  BY <1>6, <1>b, <1>t DEF Integer, FilesOK
<1> QED
  BY <1>1, <1>2, <1>3, <1>4, <1>5, <1>6 DEF CsrStep, Execute

\* Another register and another CSR stay what they were.
LEMMA StepKeepsOthers ==
  ASSUME FilesOK, NEW i \in Instruction, CsrStep(i)
  PROVE  /\ \A r \in Reg \ {i.rd} : regs'[r] = regs[r]
         /\ \A c \in CsrName \ {i.csr} : csrs'[c] = csrs[c]
<1>1. \A v : \A r \in Reg \ {i.rd} : set_reg(regs, i.rd, v)[r] = regs[r]
  BY DEF set_reg, FilesOK
<1>2. \A v : write_csr(i.csr, v) => \A c \in CsrName \ {i.csr} : csrs'[c] = csrs[c]
  BY DEF write_csr, FilesOK
<1>3. \E v : regs' = set_reg(regs, i.rd, v)
  BY DEF CsrStep, Execute, csrrw, csrrs, csrrc, csrrwi, csrrsi, csrrci, Integer
<1>4. csrs' = csrs \/ \E v : write_csr(i.csr, v)
  BY DEF CsrStep, Execute, csrrw, csrrs, csrrc, csrrwi, csrrsi, csrrci, Integer
<1> QED
  BY <1>1, <1>2, <1>3, <1>4

\* An instruction of the program keeps the types.
LEMMA StepKeepsTypes ==
  ASSUME CsrTypeOK, NEW i \in Program, CsrStep(i)
  PROVE  CsrTypeOK'
<1>1. i \in Instruction
  BY CsrAssumption
<1>2. FilesOK'
  BY <1>1, StepKeepsFiles DEF CsrTypeOK, FilesOK
<1> QED
  BY <1>2 DEF CsrTypeOK, FilesOK, CsrStep

\* Storing two words into one CSR gives the same file only for the same word.
LEMMA SameWrite ==
  ASSUME csrs \in [CsrName -> SUBSET Bit], NEW c \in CsrName, NEW v, NEW w
  PROVE  [csrs EXCEPT ![c] = v] = [csrs EXCEPT ![c] = w] <=> v = w
<1>1. [csrs EXCEPT ![c] = v][c] = v /\ [csrs EXCEPT ![c] = w][c] = w
  OBVIOUS
<1> QED
  BY <1>1

\* One instruction hands out the CSR of before, and is the exchange promised in
\* every case but those of BreaksPromise, whichever registers it names.
LEMMA StepBreaksOnlyKnown ==
  ASSUME CsrTypeOK, NEW i \in Program, CsrStep(i)
  PROVE  /\ i.name # "integer" => regs' = Received(i.rd, csrs[i.csr])
         /\ Promise(i) <=> ~BreaksPromise(i)
<1> DEFINE old == csrs[i.csr]
           mask == regs[i.rs1]
           after == set_reg(regs, i.rd, old)
<1>i. i.rd \in Reg /\ i.rs1 \in Reg /\ i.csr \in CsrName
  BY InstructionFacts, CsrAssumption
<1>t. regs \in [Reg -> SUBSET Bit] /\ csrs \in [CsrName -> SUBSET Bit]
  BY DEF CsrTypeOK
<1>r. after = Received(i.rd, old) /\ set_reg(regs, i.rd, i.imm) = Received(i.rd, i.imm)
  BY DEF set_reg, Received
<1>m. after[i.rs1] = IF i.rd = i.rs1 /\ i.rd # X0 THEN old ELSE mask
  BY <1>i, <1>t DEF set_reg
<1>n. csrs = [csrs EXCEPT ![i.csr] = old]
  BY <1>t
<1>w. \A v, w : [csrs EXCEPT ![i.csr] = v] = [csrs EXCEPT ![i.csr] = w] <=> v = w
  BY <1>i, <1>t, SameWrite
<1>1. CASE i.name = "csrrw" /\ csrrw(i)
  BY <1>1, <1>r DEF csrrw, write_csr, Promise, Swap, Exchange, BreaksPromise
<1>2. CASE i.name = "csrrs" /\ csrrs(i)
  <2>1. regs' = Received(i.rd, old) /\ csrs' = [csrs EXCEPT ![i.csr] = old \cup after[i.rs1]]
    BY <1>2, <1>r DEF csrrs, write_csr
  <2>2. Promise(i) <=> old \cup after[i.rs1] = old \cup mask
    BY <1>2, <1>w, <2>1 DEF Promise, Set, Exchange
  <2>3. BreaksPromise(i) <=> i.rd = i.rs1 /\ i.rd # X0 /\ ~(mask \subseteq old)
    BY <1>2 DEF BreaksPromise
  <2>4. old \cup old = old \cup mask <=> mask \subseteq old
    OBVIOUS
  <2>5. Promise(i) <=> ~BreaksPromise(i)
    <3> HIDE DEF old, mask, after
    <3> QED
      BY <1>m, <2>2, <2>3, <2>4
  <2> QED
    BY <2>1, <2>5
<1>3. CASE i.name = "csrrc" /\ csrrc(i)
  <2>1. regs' = Received(i.rd, old) /\ csrs' = [csrs EXCEPT ![i.csr] = old \ after[i.rs1]]
    BY <1>3, <1>r DEF csrrc, write_csr
  <2>2. Promise(i) <=> old \ after[i.rs1] = old \ mask
    BY <1>3, <1>w, <2>1 DEF Promise, Clear, Exchange
  <2>3. BreaksPromise(i) <=> i.rd = i.rs1 /\ i.rd # X0 /\ ~(old \subseteq mask)
    BY <1>3 DEF BreaksPromise
  <2>4. old \ old = old \ mask <=> old \subseteq mask
    OBVIOUS
  <2>5. Promise(i) <=> ~BreaksPromise(i)
    <3> HIDE DEF old, mask, after
    <3> QED
      BY <1>m, <2>2, <2>3, <2>4
  <2> QED
    BY <2>1, <2>5
<1>4. CASE i.name = "csrrwi" /\ csrrwi(i)
  <2>1. regs' = Received(i.rd, old) /\ csrs' = [csrs EXCEPT ![i.csr] = old \ i.imm]
    BY <1>4, <1>r DEF csrrwi, write_csr
  <2>2. Promise(i) <=> old \ i.imm = i.imm
    BY <1>4, <1>w, <2>1 DEF Promise, Swap, Exchange
  <2>3. BreaksPromise(i) <=> i.imm # {} \/ old # {}
    BY <1>4 DEF BreaksPromise
  <2>4. old \ i.imm = i.imm <=> i.imm = {} /\ old = {}
    OBVIOUS
  <2> QED
    BY <2>1, <2>2, <2>3, <2>4
<1>5. CASE i.name = "csrrsi" /\ csrrsi(i)
  <2>1. i.imm = {} => old \cup i.imm = old
    OBVIOUS
  <2> QED
    BY <2>1, <1>5, <1>r, <1>n DEF csrrsi, write_csr, Promise, Set, Exchange, BreaksPromise
<1>6. CASE i.name = "csrrci" /\ csrrci(i)
  <2>1. i.imm = {} => old \ i.imm = old
    OBVIOUS
  <2> QED
    BY <2>1, <1>6, <1>r, <1>n DEF csrrci, write_csr, Promise, Clear, Exchange, BreaksPromise
<1>7. CASE i.name = "integer" /\ Integer(i)
  BY <1>7, <1>r DEF Integer, Promise, BreaksPromise
<1> QED
  BY <1>1, <1>2, <1>3, <1>4, <1>5, <1>6, <1>7 DEF CsrStep, Execute

\* Type correctness of the CSR instructions, and x0 stays zero.
THEOREM CsrTypes == CsrSpec => []CsrTypeOK
<1>1. CsrInit => CsrTypeOK
  BY CsrAssumption DEF CsrInit, CsrTypeOK
<1>2. CsrTypeOK /\ [CsrNext]_csrVars => CsrTypeOK'
  <2> SUFFICES ASSUME CsrTypeOK, [CsrNext]_csrVars PROVE CsrTypeOK'
    OBVIOUS
  <2>1. CASE CsrNext
    BY <2>1, StepKeepsTypes DEF CsrNext
  <2>2. CASE UNCHANGED csrVars
    BY <2>2 DEF csrVars, CsrTypeOK
  <2> QED
    BY <2>1, <2>2
<1> QED
  BY <1>1, <1>2, PTL DEF CsrSpec

\* Every handler of cpu_csr.c hands out the CSR of before, and keeps the promise
\* of its comment in every case but two: csrrwi, and csrrs and csrrc with one
\* register as destination and mask.  Nothing is assumed of the program.
THEOREM PromisesBrokenAreKnown == CsrSpec => OnlyKnownBreaks
<1> DEFINE Step == LET i == instruction'
                   IN  /\ i.name # "integer" => regs' = Received(i.rd, csrs[i.csr])
                       /\ Promise(i) <=> ~BreaksPromise(i)
<1>1. CsrTypeOK /\ [CsrNext]_csrVars => [Step]_csrVars
  <2> SUFFICES ASSUME CsrTypeOK, CsrNext PROVE Step
    OBVIOUS
  <2>1. PICK i \in Program : CsrStep(i)
    BY DEF CsrNext
  <2>2. instruction' = i
    BY <2>1 DEF CsrStep
  <2>3. /\ i.name # "integer" => regs' = Received(i.rd, csrs[i.csr])
        /\ Promise(i) <=> ~BreaksPromise(i)
    BY <2>1, StepBreaksOnlyKnown
  <2> QED
    BY <2>2, <2>3
<1> QED
  BY <1>1, CsrTypes, PTL DEF CsrSpec, OnlyKnownBreaks

-----------------------------------------------------------------------------
(***************************************************************************)
(* Nested critical sections: every open section has a register of its own, *)
(* which holds the enable bits of when it was entered, and only the        *)
(* outermost one can have found some.                                      *)
(***************************************************************************)
Section == [reg : Reg \ {X0}, before : SUBSET Enable, raw : BOOLEAN]

Saved(s, word) == word \cap Enable = s.before /\ (~s.raw => word = s.before)

SectionInv ==
  /\ FilesOK
  /\ sections \in Seq(Section)
  /\ \A j, k \in DOMAIN sections : sections[j].reg = sections[k].reg => j = k
  /\ \A k \in DOMAIN sections : Saved(sections[k], regs[sections[k].reg])
  /\ \A k \in DOMAIN sections : k # 1 => sections[k].before = {}
  /\ MaskedInside

\* The constants of a section are bits, registers and CSRs.
LEMMA SectionConstants ==
  /\ Status \in CsrName /\ X0 \in Reg /\ Enable \subseteq LowBit /\ LowBit \subseteq Bit
BY SectionAssumption, CsrAssumption

\* The instructions of the guest are instructions.
LEMMA GuestIsInstruction ==
  ASSUME NEW name \in Name, NEW rd \in Reg, NEW rs1 \in Reg, NEW imm \in SUBSET Bit,
         FilesOK, Guest(name, rd, rs1, imm)
  PROVE  /\ FilesOK'
         /\ \A r \in Reg \ {rd} : regs'[r] = regs[r]
<1> DEFINE i == [name |-> name, rd |-> rd, rs1 |-> rs1, imm |-> imm, csr |-> Status]
<1>1. i \in Instruction /\ i.rd = rd
  BY SectionConstants DEF Instruction
<1>2. CsrStep(i)
  BY DEF Guest
<1> HIDE DEF i
<1> QED
  BY <1>1, <1>2, StepKeepsFiles, StepKeepsOthers

\* Registers that are in use keep what they saved, and open sections stay open.
LEMMA OthersKeepSections ==
  ASSUME SectionInv, FilesOK', UNCHANGED sections, MaskedInside',
         \A r \in InUse : regs'[r] = regs[r]
  PROVE  SectionInv'
<1>1. \A k \in DOMAIN sections : sections[k].reg \in InUse
  BY DEF InUse
<1> QED
  BY <1>1 DEF SectionInv

\* csrrci hands out the status of before it clears the enable bits.
LEMMA EnterKeeps ==
  ASSUME SectionInv, NEW r \in Reg, Enter(r)
  PROVE  SectionInv'
<1> DEFINE new == [reg |-> r, before |-> csrs[Status] \cap Enable, raw |-> TRUE]
           i == [name |-> "csrrci", rd |-> r, rs1 |-> X0, imm |-> Enable, csr |-> Status]
<1>1. r \notin InUse /\ r # X0 /\ Guest("csrrci", r, X0, Enable) /\ sections' = Append(sections, new)
  BY DEF Enter
<1>2. csrrci(i)
  BY <1>1 DEF Guest, CsrStep, Execute
<1>3. FilesOK' /\ \A q \in Reg \ {r} : regs'[q] = regs[q]
  <2>1. "csrrci" \in Name /\ Enable \in SUBSET Bit
    BY SectionConstants DEF Name
  <2> QED
    BY <1>1, <2>1, SectionConstants, GuestIsInstruction DEF SectionInv
<1>4. regs'[r] = csrs[Status]
  BY <1>1, <1>2 DEF csrrci, set_reg, SectionInv, FilesOK
<1>5. csrs'[Status] \cap Enable = {}
  BY <1>2, SectionConstants DEF csrrci, write_csr, SectionInv, FilesOK
<1>6. /\ new \in Section /\ Saved(new, regs'[r])
      /\ new.reg = r /\ new.before = csrs[Status] \cap Enable
  BY <1>1, <1>4 DEF Section, Saved
<1> HIDE DEF new, i
<1>7. /\ sections' \in Seq(Section) /\ Len(sections') = Len(sections) + 1
      /\ \A k \in 1 .. Len(sections) : sections'[k] = sections[k]
      /\ sections'[Len(sections) + 1] = new
      /\ DOMAIN sections = 1 .. Len(sections)
      /\ DOMAIN sections' = 1 .. Len(sections) + 1
      /\ Len(sections) \in Nat
  BY <1>1, <1>6 DEF SectionInv
<1>8. \A k \in DOMAIN sections : sections[k].reg \in Reg /\ sections[k].reg # r
  <2>1. \A k \in DOMAIN sections : sections[k] \in Section
    BY <1>7 DEF SectionInv
  <2>2. \A k \in DOMAIN sections : sections[k].reg \in InUse
    BY DEF InUse
  <2> QED
    BY <1>1, <2>1, <2>2 DEF Section
<1>9. \A j, k \in DOMAIN sections' : sections'[j].reg = sections'[k].reg => j = k
  BY <1>6, <1>7, <1>8 DEF SectionInv
<1>10. \A k \in DOMAIN sections' : Saved(sections'[k], regs'[sections'[k].reg])
  BY <1>3, <1>6, <1>7, <1>8 DEF SectionInv
<1>11. ASSUME NEW k \in DOMAIN sections', k # 1 PROVE sections'[k].before = {}
  <2>1. CASE k \in DOMAIN sections
    BY <1>7, <1>11, <2>1 DEF SectionInv
  <2>2. CASE k = Len(sections) + 1
    <3>1. sections # <<>>
      BY <1>7, <1>11, <2>2
    <3> QED
      BY <1>6, <1>7, <2>2, <3>1 DEF SectionInv, MaskedInside
  <2> QED
    BY <1>7, <2>1, <2>2
<1> QED
  BY <1>3, <1>5, <1>7, <1>9, <1>10, <1>11 DEF SectionInv, MaskedInside

\* What is left of a sequence without its last element.
LEMMA PrefixLength ==
  ASSUME NEW S, NEW s \in Seq(S), NEW n \in Nat, n <= Len(s)
  PROVE  Len(SubSeq(s, 1, n)) = n
OBVIOUS

\* What Front keeps of a sequence.
LEMMA FrontFacts ==
  ASSUME NEW S, NEW s \in Seq(S), s # <<>>
  PROVE  /\ Front(s) \in Seq(S) /\ Len(Front(s)) = Len(s) - 1
         /\ \A k \in 1 .. Len(s) - 1 : Front(s)[k] = s[k]
<1>1. Front(s) \in Seq(S)
  BY DEF Front
<1>2. \A k \in 1 .. Len(s) - 1 : Front(s)[k] = s[k]
  BY DEF Front
<1>3. Len(s) - 1 \in Nat /\ Len(s) - 1 <= Len(s)
  OBVIOUS
<1>4. Len(Front(s)) = Len(s) - 1
  BY <1>3, PrefixLength DEF Front
<1> QED
  BY <1>1, <1>2, <1>4

\* The innermost section is one of the open ones.
LEMMA InnermostFacts ==
  ASSUME SectionInv, sections # <<>>
  PROVE  /\ Len(sections) \in Nat /\ Len(sections) >= 1
         /\ DOMAIN sections = 1 .. Len(sections)
         /\ Innermost = sections[Len(sections)]
         /\ Innermost \in Section /\ Innermost.reg \in Reg /\ Innermost.reg # X0
         /\ Saved(Innermost, regs[Innermost.reg])
         /\ Len(sections) # 1 => Innermost.before = {}
         /\ Front(sections) \in Seq(Section)
         /\ Len(Front(sections)) = Len(sections) - 1
         /\ DOMAIN Front(sections) = 1 .. Len(sections) - 1
         /\ \A k \in 1 .. Len(sections) - 1 : Front(sections)[k] = sections[k]
<1>1. sections \in Seq(Section) /\ Len(sections) \in Nat /\ Len(sections) >= 1
  BY DEF SectionInv
<1>2. DOMAIN sections = 1 .. Len(sections) /\ Innermost = sections[Len(sections)]
  BY <1>1 DEF Innermost, Last
<1>3. Innermost \in Section
  BY <1>1, <1>2
<1>4. Saved(Innermost, regs[Innermost.reg]) /\ (Len(sections) # 1 => Innermost.before = {})
  BY <1>1, <1>2 DEF SectionInv
<1>5. /\ Front(sections) \in Seq(Section)
      /\ Len(Front(sections)) = Len(sections) - 1
      /\ \A k \in 1 .. Len(sections) - 1 : Front(sections)[k] = sections[k]
  BY <1>1, FrontFacts
<1>6. DOMAIN Front(sections) = 1 .. Len(sections) - 1
  BY <1>5
<1> QED
  BY <1>1, <1>2, <1>3, <1>4, <1>5, <1>6 DEF Section

\* Masking the saved word leaves the enable bits of the section's entry.
LEMMA KeepEnableBitsKeeps ==
  ASSUME SectionInv, KeepEnableBits
  PROVE  SectionInv' /\ Len(sections') = Len(sections)
<1> DEFINE r == Innermost.reg
           kept == [Innermost EXCEPT !.raw = FALSE]
           i == [name |-> "integer", rd |-> r, rs1 |-> X0, imm |-> regs[r] \cap Enable, csr |-> Status]
           n == Len(sections)
<1>1. /\ sections # <<>> /\ Guest("integer", r, X0, regs[r] \cap Enable)
      /\ sections' = Append(Front(sections), kept)
  BY DEF KeepEnableBits
<1>2. Integer(i)
  BY <1>1 DEF Guest, CsrStep, Execute
<1>f. /\ n \in Nat /\ n >= 1 /\ DOMAIN sections = 1 .. n /\ Innermost = sections[n]
      /\ Innermost \in Section /\ r \in Reg /\ r # X0 /\ Saved(Innermost, regs[r])
      /\ (n # 1 => Innermost.before = {})
      /\ Front(sections) \in Seq(Section) /\ Len(Front(sections)) = n - 1
      /\ \A k \in 1 .. n - 1 : Front(sections)[k] = sections[k]
  BY <1>1, InnermostFacts
<1>3. FilesOK' /\ \A q \in Reg \ {r} : regs'[q] = regs[q]
  <2>1. "integer" \in Name /\ regs[r] \cap Enable \in SUBSET Bit
    BY SectionConstants DEF Name
  <2> HIDE DEF r
  <2> QED
    BY <1>1, <1>f, <2>1, SectionConstants, GuestIsInstruction DEF SectionInv
<1>4. regs'[r] = Innermost.before /\ csrs' = csrs
  BY <1>2, <1>f DEF Integer, set_reg, SectionInv, FilesOK, Saved
<1>5. kept \in Section /\ kept.reg = r /\ kept.before = Innermost.before /\ kept.raw = FALSE
  BY <1>f DEF Section
<1>6. Innermost.before \subseteq Enable
  BY <1>f DEF Section
<1>7. Saved(kept, regs'[r])
  BY <1>4, <1>5, <1>6 DEF Saved
<1> HIDE DEF kept, i
<1>8. /\ sections' \in Seq(Section) /\ Len(sections') = n
      /\ \A k \in 1 .. n - 1 : sections'[k] = sections[k]
      /\ sections'[n] = kept /\ DOMAIN sections' = 1 .. n
  <2> HIDE DEF n
  <2> QED
    BY <1>1, <1>5, <1>f
<1> HIDE DEF n
<1>9. \A k \in 1 .. n - 1 : sections[k].reg \in Reg /\ sections[k].reg # r
  <2>1. \A k \in 1 .. n : sections[k] \in Section
    BY <1>f DEF SectionInv
  <2>2. \A k \in 1 .. n - 1 : sections[k].reg # sections[n].reg
    BY <1>f DEF SectionInv
  <2> QED
    BY <1>f, <2>1, <2>2 DEF Section
<1>10. \A j, k \in 1 .. n : sections'[j].reg = sections'[k].reg => j = k
  <2>1. \A k \in 1 .. n : sections'[k].reg = sections[k].reg
    BY <1>f, <1>5, <1>8
  <2> QED
    BY <1>f, <2>1 DEF SectionInv
<1>11. \A k \in 1 .. n : Saved(sections'[k], regs'[sections'[k].reg])
  <2>1. \A k \in 1 .. n - 1 : Saved(sections[k], regs'[sections[k].reg])
    BY <1>f, <1>3, <1>9 DEF SectionInv
  <2> HIDE DEF r
  <2> QED
    BY <1>f, <1>5, <1>7, <1>8, <2>1
<1>12. \A k \in 1 .. n : k # 1 => sections'[k].before = {}
  BY <1>f, <1>5, <1>8 DEF SectionInv
<1>13. MaskedInside'
  BY <1>1, <1>4 DEF MaskedInside, SectionInv
<1> QED
  BY <1>3, <1>8, <1>10, <1>11, <1>12, <1>13 DEF SectionInv, n

\* csrrs without a destination puts back what the innermost section saved, and
\* only the outermost section can have saved anything.
LEMMA LeaveKeeps ==
  ASSUME SectionInv, Leave
  PROVE  SectionInv' /\ RestoredByLeave
<1> DEFINE r == Innermost.reg
           i == [name |-> "csrrs", rd |-> X0, rs1 |-> r, imm |-> {}, csr |-> Status]
           n == Len(sections)
<1>1. sections # <<>> /\ ~Innermost.raw /\ Guest("csrrs", X0, r, {}) /\ sections' = Front(sections)
  BY DEF Leave
<1>2. csrrs(i)
  BY <1>1 DEF Guest, CsrStep, Execute
<1>f. /\ n \in Nat /\ n >= 1 /\ DOMAIN sections = 1 .. n
      /\ Innermost \in Section /\ r \in Reg /\ r # X0 /\ Saved(Innermost, regs[r])
      /\ (n # 1 => Innermost.before = {})
      /\ Front(sections) \in Seq(Section) /\ DOMAIN Front(sections) = 1 .. n - 1
      /\ \A k \in 1 .. n - 1 : Front(sections)[k] = sections[k]
      /\ Len(Front(sections)) = n - 1
  BY <1>1, InnermostFacts
<1>3. regs' = regs /\ csrs' = [csrs EXCEPT ![Status] = csrs[Status] \cup regs[r]]
  BY <1>2 DEF csrrs, set_reg, write_csr
<1>4. csrs'[Status] = csrs[Status] \cup Innermost.before
  BY <1>1, <1>3, <1>f, SectionConstants DEF Saved, SectionInv, FilesOK
<1>5. FilesOK'
  <2>1. "csrrs" \in Name /\ {} \in SUBSET Bit
    BY DEF Name
  <2> HIDE DEF r
  <2> QED
    BY <1>1, <1>f, <2>1, SectionConstants, GuestIsInstruction DEF SectionInv
<1>6. csrs[Status] \cap Enable = {} /\ Innermost.before \subseteq Enable
  BY <1>1, <1>f DEF SectionInv, MaskedInside, Section
<1>7. RestoredByLeave
  BY <1>4, <1>6 DEF RestoredByLeave
<1>8. MaskedInside'
  <2> SUFFICES ASSUME sections' # <<>> PROVE csrs'[Status] \cap Enable = {}
    BY DEF MaskedInside
  <2>1. n # 1
    BY <1>1, <1>f
  <2> QED
    BY <1>4, <1>6, <1>f, <2>1
<1> HIDE DEF n
<1>9. /\ sections' \in Seq(Section) /\ DOMAIN sections' = 1 .. n - 1
      /\ \A k \in 1 .. n - 1 : k \in DOMAIN sections /\ sections'[k] = sections[k]
  BY <1>1, <1>f
<1> QED
  BY <1>3, <1>5, <1>7, <1>8, <1>9 DEF SectionInv

\* Inside a section the guest does not set the enable bits again.
LEMMA OtherStatusKeeps ==
  ASSUME SectionInv, OtherStatus
  PROVE  SectionInv'
<1>1. PICK imm \in SUBSET (IF sections = <<>> THEN LowBit ELSE LowBit \ Enable) :
        Guest("csrrsi", X0, X0, imm) \/ Guest("csrrci", X0, X0, imm)
  BY DEF OtherStatus
<1>2. UNCHANGED sections
  BY DEF OtherStatus
<1>3. imm \in SUBSET Bit /\ "csrrsi" \in Name /\ "csrrci" \in Name
  BY SectionConstants DEF Name
<1>4. FilesOK' /\ \A q \in Reg \ {X0} : regs'[q] = regs[q]
  BY <1>1, <1>3, SectionConstants, GuestIsInstruction DEF SectionInv
<1>5. MaskedInside'
  <2> SUFFICES ASSUME sections # <<>> PROVE csrs'[Status] \cap Enable = {}
    BY <1>2 DEF MaskedInside
  <2>1. csrs[Status] \cap Enable = {} /\ imm \cap Enable = {}
    BY DEF SectionInv, MaskedInside
  <2>2. csrs'[Status] \subseteq csrs[Status] \cup imm
    BY <1>1, SectionConstants
       DEF Guest, CsrStep, Execute, csrrsi, csrrci, write_csr, SectionInv, FilesOK
  <2> QED
    BY <2>1, <2>2
<1>6. \A r \in InUse : regs'[r] = regs[r]
  <2>1. \A k \in DOMAIN sections : sections[k] \in Section
    BY DEF SectionInv
  <2> QED
    BY <1>4, <2>1 DEF InUse, Section
<1> QED
  BY <1>2, <1>4, <1>5, <1>6, OthersKeepSections

\* Nor does any other instruction touch the status or the registers in use.
LEMMA OtherInstructionKeeps ==
  ASSUME SectionInv, OtherInstruction
  PROVE  SectionInv'
<1>1. PICK i \in Program : i.csr # Status /\ i.rd \notin InUse /\ CsrStep(i)
  BY DEF OtherInstruction
<1>2. UNCHANGED sections
  BY DEF OtherInstruction
<1>3. i \in Instruction
  BY CsrAssumption
<1>4. FilesOK' /\ (\A q \in Reg \ {i.rd} : regs'[q] = regs[q]) /\ csrs'[Status] = csrs[Status]
  BY <1>1, <1>3, SectionConstants, StepKeepsFiles, StepKeepsOthers DEF SectionInv
<1>5. \A r \in InUse : r \in Reg
  <2>1. \A k \in DOMAIN sections : sections[k] \in Section
    BY DEF SectionInv
  <2> QED
    BY <2>1 DEF InUse, Section
<1>6. MaskedInside'
  BY <1>2, <1>4 DEF SectionInv, MaskedInside
<1> QED
  BY <1>1, <1>2, <1>4, <1>5, <1>6, OthersKeepSections

\* The invariant of the sections, and what a leaving step does.
LEMMA SectionInvariance == SectionSpec => [](SectionInv) /\ [][RestoredByLeave]_sectionVars
<1>1. SectionInit => SectionInv
  BY CsrAssumption DEF SectionInit, CsrInit, SectionInv, FilesOK, MaskedInside
<1>2. SectionInv /\ [SectionNext]_sectionVars => SectionInv' /\ [RestoredByLeave]_sectionVars
  <2> SUFFICES ASSUME SectionInv, [SectionNext]_sectionVars
               PROVE  SectionInv' /\ [RestoredByLeave]_sectionVars
    OBVIOUS
  <2>s. Len(sections) \in Nat
    BY DEF SectionInv
  <2>1. ASSUME NEW r \in Reg, Enter(r) PROVE SectionInv' /\ RestoredByLeave
    <3>1. Len(sections') = Len(sections) + 1
      BY <2>1, <2>s DEF Enter, SectionInv
    <3> QED
      BY <2>1, <2>s, <3>1, EnterKeeps DEF RestoredByLeave
  <2>2. CASE KeepEnableBits
    BY <2>2, <2>s, KeepEnableBitsKeeps DEF RestoredByLeave
  <2>3. CASE Leave
    BY <2>3, LeaveKeeps
  <2>4. CASE OtherStatus
    BY <2>4, <2>s, OtherStatusKeeps DEF RestoredByLeave, OtherStatus
  <2>5. CASE OtherInstruction
    BY <2>5, <2>s, OtherInstructionKeeps DEF RestoredByLeave, OtherInstruction
  <2>6. CASE UNCHANGED sectionVars
    BY <2>6 DEF sectionVars, SectionInv, FilesOK, MaskedInside
  <2> QED
    BY <2>1, <2>2, <2>3, <2>4, <2>5, <2>6 DEF SectionNext
<1> QED
  BY <1>1, <1>2, PTL DEF SectionSpec

\* Interrupts stay masked from the first entry of a critical section to the
\* last exit, for every number of registers and depth of nesting: csrrci clears
\* the bits although it also writes rd.
THEOREM SectionsMask == SectionSpec => []MaskedInside
<1>1. SectionInv => MaskedInside
  BY DEF SectionInv
<1> QED
  BY <1>1, SectionInvariance, PTL

\* Leaving a critical section puts back the enable bits of its entry, however
\* many sections were opened and closed inside it.
THEOREM SectionsRestore == SectionSpec => LeaveRestores
BY SectionInvariance DEF LeaveRestores

=============================================================================
