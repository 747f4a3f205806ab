-------------------------- MODULE PrivilegedProofs --------------------------
(***************************************************************************)
(* Theorems about Privileged: its type invariant, that nothing stays       *)
(* pending between instructions, that the counters agree, and that         *)
(* privilege rises only by a trap.                                         *)
(*                                                                         *)
(* First come lemmas on what the operators of Traps preserve and return,   *)
(* for every WordSize.  The proofs about the machines that use them cite   *)
(* these lemmas and leave the definitions of Traps closed.                 *)
(***************************************************************************)
EXTENDS Privileged, TLAPS

Cleared(s) == s.pending_exception = 0 /\ s.pending_tval = 0 /\ ~s.has_pending_exception

ClocksAgree(s) == s.csr.time = s.instruction_counter /\ s.csr.cycle = s.instruction_counter

\* The fields a trap leaves alone.
SameClocks(s, t) ==
  /\ t.instruction_counter = s.instruction_counter
  /\ t.csr.time = s.csr.time
  /\ t.csr.cycle = s.csr.cycle

\* What a trap for cause makes of the hart s: t is in the handler of S or of M,
\* the level's frame is written and the other level's is untouched.
EntersSupervisor(s, t, cause) ==
  /\ s.privilege <= PRIV_S
  /\ t.privilege = PRIV_S
  /\ t.pc = s.csr.stvec
  /\ t.csr.sepc = InterruptedPc(s)
  /\ t.csr.scause = cause
  /\ t.csr.mstatus.SPP = s.privilege
  /\ t.csr.mepc = s.csr.mepc
  /\ t.csr.mcause = s.csr.mcause

EntersMachine(s, t, cause) ==
  /\ t.privilege = PRIV_M
  /\ t.pc = s.csr.mtvec
  /\ t.csr.mepc = InterruptedPc(s)
  /\ t.csr.mcause = cause
  /\ t.csr.mstatus.MPP = s.privilege
  /\ ~t.csr.mstatus.TSR
  /\ t.csr.sepc = s.csr.sepc
  /\ t.csr.scause = s.csr.scause

\* The privilege level and the CSRs of the trap machinery, which ordinary
\* instructions and counting do not touch.
SameContext(s, t) ==
  /\ t.privilege = s.privilege
  /\ t.csr.mstatus = s.csr.mstatus
  /\ t.csr.mepc = s.csr.mepc /\ t.csr.mcause = s.csr.mcause
  /\ t.csr.sepc = s.csr.sepc /\ t.csr.scause = s.csr.scause

-----------------------------------------------------------------------------
\* uint32_t addition and subtraction stay in the word.
LEMMA WordArithmetic ==
  ASSUME NEW a \in Word, NEW b \in Word
  PROVE  Plus(a, b) \in Word /\ Minus(a, b) \in Word
BY WordSizeAssumption DEF Word, Plus, Minus

\* The words the code mentions literally.
LEMMA SmallWords == 0 \in Word /\ 1 \in Word /\ INSTRUCTION_LENGTH_BYTES \in Word
BY WordSizeAssumption DEF Word, INSTRUCTION_LENGTH_BYTES

\* pc - 4 undoes the pc += 4 of the prologue, at every pc and across the wrap.
LEMMA MinusUndoesPlus ==
  ASSUME NEW a \in Word
  PROVE  Minus(Plus(a, INSTRUCTION_LENGTH_BYTES), INSTRUCTION_LENGTH_BYTES) = a
BY WordSizeAssumption DEF Word, Plus, Minus, INSTRUCTION_LENGTH_BYTES

-----------------------------------------------------------------------------
\* Pushing and popping the trap stack keeps mstatus encodable.
LEMMA PushType ==
  ASSUME NEW m \in Mstatus, NEW p \in Privilege
  PROVE  /\ p \in {PRIV_U, PRIV_S} => PushSupervisor(m, p) \in Mstatus
         /\ PushMachine(m, p) \in Mstatus
BY DEF PushSupervisor, PushMachine, Mstatus

\* mret and sret compute well-formed mstatus values.
LEMMA PopType ==
  ASSUME NEW m \in Mstatus
  PROVE  PopSupervisor(m) \in Mstatus /\ PopMachine(m) \in Mstatus
BY DEF PopSupervisor, PopMachine, Mstatus, Privilege

\* The run status that raise_exception takes for mstatus is a well-formed one.
LEMMA StatusWordType == StatusWord \in Mstatus
BY DEF StatusWord, ZeroMstatus, Mstatus, Privilege

-----------------------------------------------------------------------------
\* A trap into S: what it writes, and what it leaves alone.
LEMMA SupervisorEntryFacts ==
  ASSUME NEW s \in Hart, NEW cause \in Cause, NEW tval \in Word, s.privilege <= PRIV_S
  PROVE  LET t == SupervisorEntry(s, cause, tval)
         IN  t \in Hart /\ SameClocks(s, t) /\ EntersSupervisor(s, t, cause)
<1> DEFINE m == PushSupervisor(StatusWord, s.privilege)
           c == [s.csr EXCEPT !.sepc = InterruptedPc(s), !.scause = cause, !.stval = tval, !.mstatus = m]
           t == SupervisorEntry(s, cause, tval)
<1>1. InterruptedPc(s) \in Word
  BY WordArithmetic, SmallWords DEF InterruptedPc, Hart
<1>2. s.privilege \in {PRIV_U, PRIV_S}
  BY DEF Hart, Privilege, PRIV_U, PRIV_S, PRIV_M, PRIV_RESERVED
<1>3. m \in Mstatus /\ m.SPP = s.privilege
  BY <1>2, StatusWordType, PushType DEF Hart, PushSupervisor, StatusWord, ZeroMstatus
<1> HIDE DEF m
<1>4. /\ c \in Csr
      /\ c.time = s.csr.time /\ c.cycle = s.csr.cycle
      /\ c.sepc = InterruptedPc(s) /\ c.scause = cause /\ c.mstatus = m
      /\ c.mepc = s.csr.mepc /\ c.mcause = s.csr.mcause
  BY <1>1, <1>3 DEF Hart, Csr
<1>5. t = [s EXCEPT !.pc = s.csr.stvec, !.privilege = PRIV_S, !.csr = c]
  BY DEF SupervisorEntry, m
<1> HIDE DEF t, c
<1>6. PRIV_S \in Privilege /\ s.csr.stvec \in Word
  BY DEF Privilege, Hart, Csr
<1>7. /\ t \in Hart
      /\ t.instruction_counter = s.instruction_counter
      /\ t.privilege = PRIV_S /\ t.pc = s.csr.stvec /\ t.csr = c
  BY <1>4, <1>5, <1>6 DEF Hart
<1> QED
  BY <1>3, <1>4, <1>7 DEF SameClocks, EntersSupervisor, t

\* A trap into M.
LEMMA MachineEntryFacts ==
  ASSUME NEW s \in Hart, NEW cause \in Cause, NEW tval \in Word
  PROVE  LET t == MachineEntry(s, cause, tval)
         IN  t \in Hart /\ SameClocks(s, t) /\ EntersMachine(s, t, cause)
<1> DEFINE m == PushMachine(StatusWord, s.privilege)
           c == [s.csr EXCEPT !.mepc = InterruptedPc(s), !.mcause = cause, !.mtval = tval, !.mstatus = m]
           t == MachineEntry(s, cause, tval)
<1>1. InterruptedPc(s) \in Word
  BY WordArithmetic, SmallWords DEF InterruptedPc, Hart
<1>2. m \in Mstatus /\ m.MPP = s.privilege /\ ~m.TSR
  BY StatusWordType, PushType DEF Hart, PushMachine, StatusWord, ZeroMstatus
<1> HIDE DEF m
<1>3. /\ c \in Csr
      /\ c.time = s.csr.time /\ c.cycle = s.csr.cycle
      /\ c.mepc = InterruptedPc(s) /\ c.mcause = cause /\ c.mstatus = m
      /\ c.sepc = s.csr.sepc /\ c.scause = s.csr.scause
  BY <1>1, <1>2 DEF Hart, Csr
<1>4. t = [s EXCEPT !.pc = s.csr.mtvec, !.privilege = PRIV_M, !.csr = c]
  BY DEF MachineEntry, m
<1> HIDE DEF t, c
<1>5. PRIV_M \in Privilege /\ s.csr.mtvec \in Word
  BY DEF Privilege, Hart, Csr
<1>6. /\ t \in Hart
      /\ t.instruction_counter = s.instruction_counter
      /\ t.privilege = PRIV_M /\ t.pc = s.csr.mtvec /\ t.csr = c
  BY <1>3, <1>4, <1>5 DEF Hart
<1> QED
  BY <1>2, <1>3, <1>6 DEF SameClocks, EntersMachine, t

\* raise_exception enters exactly one handler and leaves nothing pending.
LEMMA RaiseExceptionFacts ==
  ASSUME NEW s \in Hart, NEW cause \in Cause, NEW tval \in Word
  PROVE  LET t == raise_exception(s, cause, tval)
         IN  /\ t \in Hart
             /\ SameClocks(s, t)
             /\ Cleared(t)
             /\ EntersSupervisor(s, t, cause) \/ EntersMachine(s, t, cause)
<1> DEFINE e == IF DelegateToS(s, cause) THEN SupervisorEntry(s, cause, tval)
                                         ELSE MachineEntry(s, cause, tval)
           t == raise_exception(s, cause, tval)
<1>1. /\ e \in Hart
      /\ SameClocks(s, e)
      /\ EntersSupervisor(s, e, cause) \/ EntersMachine(s, e, cause)
  BY SupervisorEntryFacts, MachineEntryFacts DEF DelegateToS
<1>2. 0 \in Cause /\ 0 \in Word
  BY SmallWords DEF Cause, NoPendingCause
<1>3. t = ClearPending(e)
  BY DEF raise_exception
<1> HIDE DEF e, t
<1>4. /\ t \in Hart
      /\ Cleared(t)
      /\ t.instruction_counter = e.instruction_counter /\ t.csr = e.csr
      /\ t.pc = e.pc /\ t.privilege = e.privilege
  BY <1>1, <1>2, <1>3 DEF ClearPending, Cleared, Hart
<1>5. SameClocks(s, t)
  BY <1>1, <1>4 DEF SameClocks
<1>6. EntersSupervisor(s, t, cause) \/ EntersMachine(s, t, cause)
  BY <1>1, <1>4 DEF EntersSupervisor, EntersMachine
<1> QED
  BY <1>4, <1>5, <1>6 DEF t

\* The cause of an ecall is one raise_exception knows, also in the reserved level.
LEMMA EcallCauseType ==
  ASSUME NEW s \in Hart
  PROVE  EcallCause(s) \in Cause
BY DEF EcallCause, Hart, Cause

\* ecall traps and leaves nothing pending, whatever was pending before it.
LEMMA EcallFacts ==
  ASSUME NEW s \in Hart
  PROVE  /\ ecall(s) \in Hart
         /\ Cleared(ecall(s))
         /\ \/ EntersSupervisor(s, ecall(s), EcallCause(s))
            \/ EntersMachine(s, ecall(s), EcallCause(s))
<1>1. s.pending_tval \in Word
  BY DEF Hart
<1> QED
  BY <1>1, EcallCauseType, RaiseExceptionFacts DEF ecall

\* The other handlers, by what the rest of emulate_op needs to know of them.
LEMMA PageFaultFacts ==
  ASSUME NEW s \in Hart, NEW cause \in Cause, NEW a \in Word
  PROVE  LET t == PageFault(s, cause, a)
         IN  /\ t \in Hart
             /\ t.has_pending_exception
             /\ t.pending_exception = cause
             /\ t.pc = s.pc /\ t.privilege = s.privilege /\ t.csr = s.csr
             /\ t.instruction_counter = s.instruction_counter
             /\ InterruptedPc(t) = InterruptedPc(s)
BY DEF PageFault, Hart, InterruptedPc

\* The prologue of emulate_op only advances pc, so InterruptedPc finds the old one.
LEMMA FetchedFacts ==
  ASSUME NEW s \in Hart
  PROVE  LET f == Fetched(s)
         IN  /\ f \in Hart
             /\ InterruptedPc(f) = s.pc
             /\ f.privilege = s.privilege /\ f.csr = s.csr
             /\ f.instruction_counter = s.instruction_counter
             /\ f.pending_exception = s.pending_exception
             /\ f.pending_tval = s.pending_tval
             /\ f.has_pending_exception = s.has_pending_exception
<1>1. s.pc \in Word /\ Plus(s.pc, INSTRUCTION_LENGTH_BYTES) \in Word
  BY WordArithmetic, SmallWords DEF Hart
<1> QED
  BY <1>1, MinusUndoesPlus DEF Fetched, InterruptedPc, Hart

\* Trap returns keep the hart well formed and leave nothing pending.
LEMMA ReturnFacts ==
  ASSUME NEW s \in Hart, Cleared(s)
  PROVE  /\ mret(s) \in Hart /\ Cleared(mret(s))
         /\ sret(s) \in Hart /\ Cleared(sret(s))
         /\ uret(s) \in Hart /\ Cleared(uret(s))
<1>1. s.csr \in Csr /\ s.csr.mstatus \in Mstatus
  BY DEF Hart, Csr
<1>2. PRIV_U \in Privilege /\ PRIV_S \in Privilege
  BY DEF Privilege
<1> DEFINE cm == [s.csr EXCEPT !.mstatus = PopMachine(s.csr.mstatus)]
           cs == [s.csr EXCEPT !.mstatus = PopSupervisor(s.csr.mstatus)]
<1>3. cm \in Csr /\ cs \in Csr
  BY <1>1, PopType DEF Csr
<1> QED
  BY <1>1, <1>2, <1>3 DEF mret, sret, uret, Cleared, Hart, Csr, Mstatus

-----------------------------------------------------------------------------
\* The epilogue counts once and brings the counter CSRs up to date, whether or
\* not a pending fault is taken first.
LEMMA RetireFacts ==
  ASSUME NEW s \in Hart, s.has_pending_exception \/ Cleared(s)
  PROVE  Retire(s) \in Hart /\ Cleared(Retire(s)) /\ ClocksAgree(Retire(s))
<1> DEFINE t == TakePending(s)
           n == Plus(t.instruction_counter, 1)
           c == [t.csr EXCEPT !.time = n, !.cycle = n]
<1>1. t \in Hart /\ Cleared(t)
  <2>1. CASE s.has_pending_exception
    <3>1. s.pending_exception \in Cause /\ s.pending_tval \in Word
      BY DEF Hart
    <3> QED
      BY <2>1, <3>1, RaiseExceptionFacts DEF TakePending
  <2>2. CASE ~s.has_pending_exception
    BY <2>2 DEF TakePending
  <2> QED
    BY <2>1, <2>2
<1> HIDE DEF t
<1>2. n \in Word
  BY <1>1, WordArithmetic, SmallWords DEF Hart
<1> HIDE DEF n
<1>3. c \in Csr /\ c.time = n /\ c.cycle = n
  BY <1>1, <1>2 DEF Csr, Hart
<1> HIDE DEF c
<1>4. Retire(s) = [t EXCEPT !.instruction_counter = n, !.csr = c]
  BY DEF Retire, Count, t, n, c
<1> QED
  BY <1>1, <1>2, <1>3, <1>4 DEF Cleared, ClocksAgree, Hart

\* What the epilogue does to the trap context: a trap if a fault is pending,
\* nothing otherwise.
LEMMA RetireContext ==
  ASSUME NEW s \in Hart, s.has_pending_exception \/ Cleared(s)
  PROVE  /\ ~s.has_pending_exception => Retire(s).pc = s.pc /\ SameContext(s, Retire(s))
         /\ s.has_pending_exception =>
              LET c == s.pending_exception
              IN  EntersSupervisor(s, Retire(s), c) \/ EntersMachine(s, Retire(s), c)
<1> DEFINE t == TakePending(s)
           n == Plus(t.instruction_counter, 1)
<1>1. t \in Hart
  BY RaiseExceptionFacts DEF TakePending, Hart
<1>2. Retire(s).pc = t.pc /\ SameContext(t, Retire(s))
  BY <1>1 DEF Retire, Count, SameContext, Hart, Csr
<1>3. CASE ~s.has_pending_exception
  BY <1>2, <1>3 DEF TakePending
<1>4. CASE s.has_pending_exception
  <2> DEFINE c == s.pending_exception
  <2>1. c \in Cause /\ s.pending_tval \in Word
    BY DEF Hart
  <2>2. EntersSupervisor(s, t, c) \/ EntersMachine(s, t, c)
    BY <1>4, <2>1, RaiseExceptionFacts DEF TakePending
  <2> HIDE DEF t, c
  <2> QED
    BY <1>2, <1>4, <2>2 DEF SameContext, EntersSupervisor, EntersMachine, c
<1> QED
  BY <1>3, <1>4

-----------------------------------------------------------------------------

\* The three state invariants are inductive only together: the type of a trap
\* needs the type of what is pending, and a handler may leave something
\* pending only for its own epilogue to take.
Inv == TypeOK /\ NothingPending /\ CountersAgree

\* What the invariant gives every action: a well-formed hart with nothing pending,
\* also after the prologue of emulate_op.
LEMMA InvFacts ==
  ASSUME Inv
  PROVE  /\ hart \in Hart /\ Cleared(hart) /\ ClocksAgree(hart)
         /\ Fetched(hart) \in Hart /\ Cleared(Fetched(hart))
BY FetchedFacts DEF Inv, TypeOK, NothingPending, CountersAgree, Cleared, ClocksAgree

\* Fetch failures: raise_exception without the epilogue.
LEMMA RaiseKeepsInv ==
  ASSUME Inv, UNCHANGED exit_code, NEW f \in Hart, NEW cause \in Cause, NEW tval \in Word,
         ClocksAgree(f), hart' = raise_exception(f, cause, tval)
  PROVE  Inv'
<1>1. hart' \in Hart /\ Cleared(hart') /\ SameClocks(f, hart')
  BY RaiseExceptionFacts
<1> QED
  BY <1>1 DEF Inv, TypeOK, NothingPending, CountersAgree, Cleared, ClocksAgree, SameClocks

\* Every instruction whose handler leaves a well-formed hart.
LEMMA ExecutesKeepsInv ==
  ASSUME Inv, NEW op \in Hart, op.has_pending_exception \/ Cleared(op), Executes(op)
  PROVE  Inv'
BY RetireFacts DEF Executes, Inv, TypeOK, NothingPending, CountersAgree, Cleared, ClocksAgree

\* An instruction that ends the process leaves the hart as it was.
LEMMA ExitsKeepsInv ==
  ASSUME Inv, NEW code \in ExitCode, exit_code' = code, UNCHANGED hart
  PROVE  Inv'
BY DEF Inv, TypeOK, NothingPending, CountersAgree

\* A CSR instruction writes values that fit the register.
LEMMA GuestWriteType ==
  ASSUME NEW s \in Hart, NEW w \in GuestWrites
  PROVE  write_csr(s, w.csr, w.value) \in Hart
<1>1. [ResetCsr EXCEPT ![w.csr] = w.value] \in Csr
  BY PrivilegedAssumption
<1>2. s.csr \in Csr
  BY DEF Hart
<1>3. [s.csr EXCEPT ![w.csr] = w.value] \in Csr
  BY <1>1, <1>2 DEF Csr, ResetCsr
<1> QED
  BY <1>3 DEF write_csr, Hart

\* initialize_state_linux leaves a hart that satisfies the invariant.
LEMMA InitEstablishesInv == Init => Inv
<1> SUFFICES ASSUME Init PROVE Inv
  OBVIOUS
<1>1. 0 \in Word /\ BootAddress \in Word /\ 0 \in Cause /\ PRIV_M \in Privilege
  BY SmallWords, PrivilegedAssumption DEF Cause, NoPendingCause, Privilege
<1>2. ResetCsr \in Csr
  BY <1>1, TableAssumption DEF ResetCsr, Csr, ZeroMstatus, Mstatus, Privilege
<1>3. InitialHart \in Hart
  BY <1>1, <1>2 DEF InitialHart, Hart
<1>4. ClocksAgree(InitialHart) /\ Cleared(InitialHart)
  BY DEF InitialHart, ResetCsr, ClocksAgree, Cleared
<1> QED
  BY <1>3, <1>4 DEF Init, Inv, TypeOK, ExitCode, NothingPending, CountersAgree, Cleared, ClocksAgree

\* One call of emulate_op keeps the invariant, whichever instruction it executes.
LEMMA NextKeepsInv ==
  ASSUME Inv, Next
  PROVE  Inv'
<1> DEFINE f == Fetched(hart)
<1>f. /\ hart \in Hart /\ Cleared(hart) /\ ClocksAgree(hart)
      /\ f \in Hart /\ Cleared(f) /\ ClocksAgree(f)
  BY InvFacts, FetchedFacts DEF ClocksAgree
<1>c. /\ CAUSE_FETCH_PAGE_FAULT \in Cause /\ CAUSE_LOAD_PAGE_FAULT \in Cause
      /\ CAUSE_STORE_PAGE_FAULT \in Cause
  BY DEF Cause
<1>a. FaultAddresses \subseteq Word /\ BranchTargets \subseteq Word
  BY PrivilegedAssumption
<1>1. CASE FetchPageFault
  <2> DEFINE p == PageFault(hart, CAUSE_FETCH_PAGE_FAULT, hart.pc)
             q == Fetched(p)
  <2>1. hart.pc \in Word
    BY <1>f DEF Hart
  <2>2. p \in Hart /\ p.csr = hart.csr /\ p.instruction_counter = hart.instruction_counter
    BY <1>f, <1>c, <2>1, PageFaultFacts
  <2> HIDE DEF p
  <2>3. q \in Hart /\ ClocksAgree(q)
    BY <1>f, <2>2, FetchedFacts DEF ClocksAgree
  <2>4. q.pending_exception \in Cause /\ q.pending_tval \in Word
    BY <2>3 DEF Hart
  <2>5. hart' = raise_exception(q, q.pending_exception, q.pending_tval) /\ UNCHANGED exit_code
    BY <1>1 DEF FetchPageFault, p
  <2> HIDE DEF q
  <2> QED
    BY <2>3, <2>4, <2>5, RaiseKeepsInv
<1>2. CASE FetchUnmapped
  <2>1. f.pending_exception \in Cause /\ f.pending_tval \in Word
    BY <1>f DEF Hart
  <2>2. hart' = raise_exception(f, f.pending_exception, f.pending_tval) /\ UNCHANGED exit_code
    BY <1>2 DEF FetchUnmapped
  <2> QED
    BY <1>f, <2>1, <2>2, RaiseKeepsInv
<1>3. CASE Plain
  BY <1>3, <1>f, ExecutesKeepsInv DEF Plain
<1>4. CASE Jump
  <2>1. PICK target \in BranchTargets : Executes([f EXCEPT !.pc = target])
    BY <1>4 DEF Jump
  <2>2. [f EXCEPT !.pc = target] \in Hart /\ Cleared([f EXCEPT !.pc = target])
    BY <1>f, <1>a DEF Hart, Cleared
  <2> QED
    BY <2>1, <2>2, ExecutesKeepsInv
<1>5. ASSUME NEW w \in GuestWrites, CsrWrite(w)
      PROVE  Inv'
  <2>1. write_csr(f, w.csr, w.value) \in Hart
    BY <1>f, GuestWriteType
  <2>2. Cleared(write_csr(f, w.csr, w.value))
    BY <1>f DEF write_csr, Cleared, Hart
  <2> QED
    BY <1>5, <2>1, <2>2, ExecutesKeepsInv DEF CsrWrite
<1>6. CASE LoadPageFault
  <2>1. PICK a \in FaultAddresses : Executes(PageFault(f, CAUSE_LOAD_PAGE_FAULT, a))
    BY <1>6 DEF LoadPageFault
  <2> QED
    BY <2>1, <1>f, <1>a, <1>c, PageFaultFacts, ExecutesKeepsInv
<1>7. CASE StorePageFault
  <2>1. PICK a \in FaultAddresses : Executes(PageFault(f, CAUSE_STORE_PAGE_FAULT, a))
    BY <1>7 DEF StorePageFault
  <2> QED
    BY <2>1, <1>f, <1>a, <1>c, PageFaultFacts, ExecutesKeepsInv
<1>8. CASE Ecall
  BY <1>8, <1>f, EcallFacts, ExecutesKeepsInv DEF Ecall
<1>9. CASE TracedEcallFault
  <2>1. PICK a \in FaultAddresses : Executes(ecall(PageFault(f, CAUSE_LOAD_PAGE_FAULT, a)))
    BY <1>9 DEF TracedEcallFault
  <2>2. PageFault(f, CAUSE_LOAD_PAGE_FAULT, a) \in Hart
    BY <1>f, <1>a, <1>c, PageFaultFacts
  <2> QED
    BY <2>1, <2>2, EcallFacts, ExecutesKeepsInv
<1>10. CASE Mret
  BY <1>10, <1>f, ReturnFacts, ExecutesKeepsInv DEF Mret
<1>11. CASE Sret
  BY <1>11, <1>f, ReturnFacts, ExecutesKeepsInv DEF Sret
<1>12. CASE Uret
  BY <1>12, <1>f, ReturnFacts, ExecutesKeepsInv DEF Uret
<1>13. CASE MretRefused \/ SretRefused \/ Wfi \/ UnknownInstruction \/ PowerOff
            \/ UnmappedAccess \/ DeviceFetch
  <2>1. UNCHANGED hart /\ exit_code' \in ExitCode
    BY <1>13 DEF MretRefused, SretRefused, Wfi, UnknownInstruction, PowerOff,
                 UnmappedAccess, DeviceFetch, Exits, ExitCode
  <2> QED
    BY <2>1, ExitsKeepsInv
<1> QED
  BY <1>1, <1>2, <1>3, <1>4, <1>5, <1>6, <1>7, <1>8, <1>9, <1>10, <1>11, <1>12, <1>13 DEF Next

\* The inductive invariant holds in every reachable state of the hart.
LEMMA Invariance == Spec => []Inv
<1>1. Inv /\ [Next]_vars => Inv'
  <2> SUFFICES ASSUME Inv, [Next]_vars PROVE Inv'
    OBVIOUS
  <2>1. CASE Next
    BY <2>1, NextKeepsInv
  <2>2. CASE UNCHANGED vars
    BY <2>2 DEF vars, Inv, TypeOK, NothingPending, CountersAgree
  <2> QED
    BY <2>1, <2>2
<1> QED
  BY <1>1, InitEstablishesInv, PTL DEF Spec

\* Type correctness: words wrap and privilege fields stay encodable.
THEOREM TypeCorrectness == Spec => []TypeOK
<1>1. Inv => TypeOK
  BY DEF Inv
<1> QED
  BY <1>1, Invariance, PTL

\* No fault of one instruction is left for emulate_op to charge to another.
THEOREM NothingStaysPending == Spec => []NothingPending
<1>1. Inv => NothingPending
  BY DEF Inv
<1> QED
  BY <1>1, Invariance, PTL

\* The guest's clock never disagrees with the emulator's instruction counter.
THEOREM ClocksNeverDisagree == Spec => []CountersAgree
<1>1. Inv => CountersAgree
  BY DEF Inv
<1> QED
  BY <1>1, Invariance, PTL

-----------------------------------------------------------------------------
\* The actions that take a trap, and those that keep the whole trap context.
TrapAction ==
  FetchPageFault \/ FetchUnmapped \/ LoadPageFault \/ StorePageFault \/ Ecall \/ TracedEcallFault

QuietAction == Plain \/ Jump \/ Uret

\* t is in the trap handler of S or M, entered from the instruction s is about
\* to execute, for a cause that fits the level of s.
TrapFrom(s, t) ==
  \E cause \in Cause :
    /\ CauseFits(cause, s.privilege)
    /\ EntersSupervisor(Fetched(s), t, cause) \/ EntersMachine(Fetched(s), t, cause)

\* Only pc, privilege and CSRs of the hart that traps matter to where it goes.
LEMMA EntersCongruence ==
  ASSUME NEW s, NEW q, NEW t, NEW cause,
         q.privilege = s.privilege, q.csr = s.csr, InterruptedPc(q) = InterruptedPc(s),
         EntersSupervisor(q, t, cause) \/ EntersMachine(q, t, cause)
  PROVE  EntersSupervisor(s, t, cause) \/ EntersMachine(s, t, cause)
BY DEF EntersSupervisor, EntersMachine

\* A handler that leaves a fault pending is trapped by the epilogue.
LEMMA PendingTraps ==
  ASSUME Inv, NEW cause \in Cause, NEW a \in Word, CauseFits(cause, hart.privilege),
         Executes(PageFault(Fetched(hart), cause, a))
  PROVE  TrapFrom(hart, hart')
<1> DEFINE f == Fetched(hart)
           p == PageFault(f, cause, a)
<1>1. /\ p \in Hart /\ p.has_pending_exception /\ p.pending_exception = cause
      /\ p.privilege = f.privilege /\ p.csr = f.csr /\ InterruptedPc(p) = InterruptedPc(f)
  BY InvFacts, PageFaultFacts
<1>2. hart' = Retire(p)
  BY DEF Executes
<1> HIDE DEF p
<1>3. EntersSupervisor(p, hart', cause) \/ EntersMachine(p, hart', cause)
  BY <1>1, <1>2, RetireContext
<1> HIDE DEF f
<1>4. EntersSupervisor(f, hart', cause) \/ EntersMachine(f, hart', cause)
  BY <1>1, <1>3, EntersCongruence
<1> QED
  BY <1>4 DEF TrapFrom, f

\* An ecall traps by itself, from whatever hart g its trace left.
LEMMA EcallTraps ==
  ASSUME Inv, NEW g \in Hart, CauseFits(EcallCause(g), hart.privilege), Executes(ecall(g)),
         g.privilege = hart.privilege, g.csr = hart.csr,
         InterruptedPc(g) = InterruptedPc(Fetched(hart))
  PROVE  TrapFrom(hart, hart')
<1> DEFINE f == Fetched(hart)
           e == ecall(g)
           c == EcallCause(g)
<1>1. /\ e \in Hart /\ Cleared(e) /\ c \in Cause
      /\ EntersSupervisor(g, e, c) \/ EntersMachine(g, e, c)
  BY EcallFacts, EcallCauseType
<1>2. hart' = Retire(e)
  BY DEF Executes
<1>f. f.privilege = hart.privilege /\ f.csr = hart.csr
  BY InvFacts, FetchedFacts
<1> HIDE DEF e
<1>3. hart'.pc = e.pc /\ SameContext(e, hart')
  BY <1>1, <1>2, RetireContext DEF Cleared
<1> HIDE DEF c
<1>4. EntersSupervisor(g, hart', c) \/ EntersMachine(g, hart', c)
  BY <1>1, <1>3 DEF SameContext, EntersSupervisor, EntersMachine
<1> HIDE DEF f
<1>5. EntersSupervisor(f, hart', c) \/ EntersMachine(f, hart', c)
  BY <1>4, <1>f, EntersCongruence DEF f
<1> QED
  BY <1>1, <1>5 DEF TrapFrom, f, c

\* Every trap action is a trap from the hart before the step.
LEMMA TrapActionTraps ==
  ASSUME Inv, TrapAction
  PROVE  TrapFrom(hart, hart')
<1> DEFINE f == Fetched(hart)
<1>f. /\ hart \in Hart /\ Cleared(hart) /\ f \in Hart /\ Cleared(f)
      /\ f.privilege = hart.privilege /\ f.csr = hart.csr
      /\ InterruptedPc(f) = hart.pc
  BY InvFacts, FetchedFacts
<1>c. /\ CAUSE_FETCH_PAGE_FAULT \in Cause /\ CAUSE_LOAD_PAGE_FAULT \in Cause
      /\ CAUSE_STORE_PAGE_FAULT \in Cause /\ 0 \in Cause
  BY DEF Cause, NoPendingCause
<1>a. FaultAddresses \subseteq Word
  BY PrivilegedAssumption
<1>p. /\ CauseFits(0, hart.privilege)
      /\ Translating => /\ CauseFits(CAUSE_FETCH_PAGE_FAULT, hart.privilege)
                        /\ CauseFits(CAUSE_LOAD_PAGE_FAULT, hart.privilege)
                        /\ CauseFits(CAUSE_STORE_PAGE_FAULT, hart.privilege)
  BY DEF Translating, CauseFits, CAUSE_FETCH_PAGE_FAULT, CAUSE_LOAD_PAGE_FAULT,
         CAUSE_STORE_PAGE_FAULT, CAUSE_USER_ECALL, CAUSE_SUPERVISOR_ECALL, CAUSE_MACHINE_ECALL
<1>1. CASE FetchPageFault
  <2> DEFINE p == PageFault(hart, CAUSE_FETCH_PAGE_FAULT, hart.pc)
             q == Fetched(p)
             c == q.pending_exception
  <2>1. hart.pc \in Word
    BY <1>f DEF Hart
  <2>2. /\ p \in Hart /\ p.csr = hart.csr /\ p.privilege = hart.privilege /\ p.pc = hart.pc
        /\ p.pending_exception = CAUSE_FETCH_PAGE_FAULT
    BY <1>f, <1>c, <2>1, PageFaultFacts
  <2>3. hart' = raise_exception(q, c, q.pending_tval) /\ Translating
    BY <1>1 DEF FetchPageFault
  <2> HIDE DEF p
  <2>4. /\ q \in Hart /\ q.csr = f.csr /\ q.privilege = f.privilege
        /\ InterruptedPc(q) = InterruptedPc(f)
        /\ q.pending_exception = CAUSE_FETCH_PAGE_FAULT /\ q.pending_tval \in Word
    BY <1>f, <2>2, FetchedFacts DEF Hart
  <2> HIDE DEF q, f
  <2>5. EntersSupervisor(q, hart', c) \/ EntersMachine(q, hart', c)
    BY <2>3, <2>4, <1>c, RaiseExceptionFacts
  <2>6. EntersSupervisor(f, hart', c) \/ EntersMachine(f, hart', c)
    BY <2>4, <2>5, EntersCongruence
  <2> QED
    BY <2>3, <2>4, <2>6, <1>c, <1>p DEF TrapFrom, f
<1>2. CASE FetchUnmapped
  <2>1. f.pending_exception = 0 /\ f.pending_tval \in Word
    BY <1>f DEF Hart, Cleared
  <2>2. hart' = raise_exception(f, 0, f.pending_tval)
    BY <1>2, <2>1 DEF FetchUnmapped
  <2> HIDE DEF f
  <2>3. EntersSupervisor(f, hart', 0) \/ EntersMachine(f, hart', 0)
    BY <1>f, <1>c, <2>1, <2>2, RaiseExceptionFacts
  <2> QED
    BY <2>3, <1>c, <1>p DEF TrapFrom, f
<1>3. CASE LoadPageFault
  <2>1. PICK a \in FaultAddresses : Executes(PageFault(f, CAUSE_LOAD_PAGE_FAULT, a))
    BY <1>3 DEF LoadPageFault
  <2> QED
    BY <2>1, <1>3, <1>a, <1>c, <1>p, PendingTraps DEF LoadPageFault
<1>4. CASE StorePageFault
  <2>1. PICK a \in FaultAddresses : Executes(PageFault(f, CAUSE_STORE_PAGE_FAULT, a))
    BY <1>4 DEF StorePageFault
  <2> QED
    BY <2>1, <1>4, <1>a, <1>c, <1>p, PendingTraps DEF StorePageFault
<1>5. CASE Ecall
  <2>1. CauseFits(EcallCause(f), hart.privilege)
    BY <1>f DEF EcallCause, CauseFits, Cleared, Hart, Privilege, PRIV_U, PRIV_S, PRIV_M,
                PRIV_RESERVED, CAUSE_FETCH_PAGE_FAULT, CAUSE_LOAD_PAGE_FAULT,
                CAUSE_STORE_PAGE_FAULT, CAUSE_USER_ECALL, CAUSE_SUPERVISOR_ECALL,
                CAUSE_MACHINE_ECALL
  <2> QED
    BY <1>5, <1>f, <2>1, EcallTraps DEF Ecall
<1>6. CASE TracedEcallFault
  <2>1. PICK a \in FaultAddresses : Executes(ecall(PageFault(f, CAUSE_LOAD_PAGE_FAULT, a)))
    BY <1>6 DEF TracedEcallFault
  <2> DEFINE g == PageFault(f, CAUSE_LOAD_PAGE_FAULT, a)
  <2>2. /\ g \in Hart /\ g.privilege = hart.privilege /\ g.csr = hart.csr
        /\ InterruptedPc(g) = InterruptedPc(f)
    BY <1>f, <1>a, <1>c, PageFaultFacts
  <2>3. Executes(ecall(g)) /\ hart.privilege = PRIV_U
    BY <1>6, <2>1 DEF TracedEcallFault
  <2> HIDE DEF g
  <2>4. CauseFits(EcallCause(g), hart.privilege)
    BY <2>2, <2>3 DEF EcallCause, CauseFits, PRIV_U, PRIV_S, PRIV_M, CAUSE_FETCH_PAGE_FAULT,
          CAUSE_LOAD_PAGE_FAULT, CAUSE_STORE_PAGE_FAULT, CAUSE_USER_ECALL,
          CAUSE_SUPERVISOR_ECALL, CAUSE_MACHINE_ECALL
  <2> QED
    BY <2>2, <2>3, <2>4, EcallTraps
<1> QED
  BY <1>1, <1>2, <1>3, <1>4, <1>5, <1>6 DEF TrapAction

\* Instructions that are neither traps, returns nor CSR writes keep the context.
LEMMA QuietActionKeepsContext ==
  ASSUME Inv, QuietAction
  PROVE  SameContext(hart, hart')
<1> DEFINE f == Fetched(hart)
<1>1. f \in Hart /\ Cleared(f) /\ f.privilege = hart.privilege /\ f.csr = hart.csr
  BY InvFacts, FetchedFacts
<1>2. ASSUME NEW op \in Hart, Cleared(op), op.privilege = f.privilege, op.csr = f.csr,
             hart' = Retire(op)
      PROVE  SameContext(hart, hart')
  <2>1. SameContext(op, hart')
    BY <1>2, RetireContext DEF Cleared
  <2> QED
    BY <1>1, <1>2, <2>1, InvFacts DEF SameContext, Hart
<1>3. CASE Plain
  BY <1>1, <1>2, <1>3 DEF Plain, Executes
<1>4. CASE Jump
  <2>1. PICK target \in BranchTargets : hart' = Retire([f EXCEPT !.pc = target])
    BY <1>4 DEF Jump, Executes
  <2>2. target \in Word
    BY PrivilegedAssumption
  <2>3. /\ [f EXCEPT !.pc = target] \in Hart /\ Cleared([f EXCEPT !.pc = target])
        /\ [f EXCEPT !.pc = target].privilege = f.privilege
        /\ [f EXCEPT !.pc = target].csr = f.csr
    BY <1>1, <2>2 DEF Hart, Cleared
  <2> QED
    BY <1>2, <2>1, <2>3
<1>5. CASE Uret
  <2>1. uret(f) \in Hart /\ Cleared(uret(f))
    BY <1>1, ReturnFacts
  <2>2. uret(f).privilege = f.privilege /\ uret(f).csr = f.csr
    BY <1>1 DEF uret, Hart
  <2> QED
    BY <1>2, <1>5, <2>1, <2>2 DEF Uret, Executes
<1> QED
  BY <1>3, <1>4, <1>5 DEF QuietAction

\* mret leaves M for the level and the address its frame names, sret likewise.
LEMMA MretResumes ==
  ASSUME Inv, Mret
  PROVE  /\ hart.privilege = PRIV_M
         /\ hart'.pc = hart.csr.mepc
         /\ hart'.privilege = hart.csr.mstatus.MPP
         /\ hart'.csr.sepc = hart.csr.sepc
         /\ hart'.csr.scause = hart.csr.scause
<1> DEFINE f == Fetched(hart)
           r == mret(f)
<1>1. f \in Hart /\ Cleared(f) /\ f.csr = hart.csr
  BY InvFacts, FetchedFacts
<1>2. r \in Hart /\ Cleared(r)
  BY <1>1, ReturnFacts
<1>3. /\ r.pc = f.csr.mepc /\ r.privilege = f.csr.mstatus.MPP
      /\ r.csr.sepc = f.csr.sepc /\ r.csr.scause = f.csr.scause
  BY <1>1 DEF mret, Hart, Csr
<1>4. hart' = Retire(r) /\ hart.privilege = PRIV_M
  BY DEF Mret, Executes, MretPermitted
<1> HIDE DEF r, f
<1> QED
  BY <1>1, <1>2, <1>3, <1>4, RetireContext DEF Cleared, SameContext

\* sret in a permitted level jumps to sepc and leaves the machine frame alone.
LEMMA SretResumes ==
  ASSUME Inv, Sret
  PROVE  /\ hart.privilege = IF hart.csr.mstatus.TSR THEN PRIV_M ELSE PRIV_S
         /\ hart'.pc = hart.csr.sepc
         /\ hart'.privilege = hart.csr.mstatus.SPP
         /\ hart'.csr.mepc = hart.csr.mepc
         /\ hart'.csr.mcause = hart.csr.mcause
<1> DEFINE f == Fetched(hart)
           r == sret(f)
<1>1. f \in Hart /\ Cleared(f) /\ f.csr = hart.csr
  BY InvFacts, FetchedFacts
<1>2. r \in Hart /\ Cleared(r)
  BY <1>1, ReturnFacts
<1>3. /\ r.pc = f.csr.sepc /\ r.privilege = f.csr.mstatus.SPP
      /\ r.csr.mepc = f.csr.mepc /\ r.csr.mcause = f.csr.mcause
  BY <1>1 DEF sret, Hart, Csr
<1>4. hart' = Retire(r) /\ hart.privilege = IF hart.csr.mstatus.TSR THEN PRIV_M ELSE PRIV_S
  BY DEF Sret, Executes, SretPermitted
<1> HIDE DEF r, f
<1> QED
  BY <1>1, <1>2, <1>3, <1>4, RetireContext DEF Cleared, SameContext

\* A CSR instruction changes the CSR it names and the counters, not the level.
LEMMA CsrWriteKeepsOthers ==
  ASSUME Inv, NEW w \in GuestWrites, CsrWrite(w)
  PROVE  /\ hart'.privilege = hart.privilege
         /\ w.csr # "mstatus" => hart'.csr.mstatus = hart.csr.mstatus
         /\ w.csr # "mepc" => hart'.csr.mepc = hart.csr.mepc
         /\ w.csr # "mcause" => hart'.csr.mcause = hart.csr.mcause
         /\ w.csr # "sepc" => hart'.csr.sepc = hart.csr.sepc
         /\ w.csr # "scause" => hart'.csr.scause = hart.csr.scause
<1> DEFINE f == Fetched(hart)
           r == write_csr(f, w.csr, w.value)
<1>1. f \in Hart /\ Cleared(f) /\ f.csr = hart.csr /\ f.privilege = hart.privilege
  BY InvFacts, FetchedFacts
<1>2. r \in Hart
  BY <1>1, GuestWriteType
<1>3. /\ Cleared(r)
      /\ r.privilege = f.privilege
      /\ r.csr = [f.csr EXCEPT ![w.csr] = w.value]
  BY <1>1 DEF write_csr, Cleared, Hart
<1>4. hart' = Retire(r)
  BY DEF CsrWrite, Executes
<1>5. f.csr \in Csr
  BY <1>1 DEF Hart
<1> HIDE DEF r, f
<1>6. SameContext(r, hart')
  BY <1>2, <1>3, <1>4, RetireContext DEF Cleared
<1> QED
  BY <1>1, <1>3, <1>5, <1>6 DEF SameContext, Csr

\* Privilege rises only by a trap, for every guest and every page table.
THEOREM RisesOnlyByTraps == Spec => PrivilegeRisesOnlyByTrap
<1>1. Inv /\ [Next]_vars => [RisesOnlyByTrap]_vars
  <2> SUFFICES ASSUME Inv, Next, hart'.privilege > hart.privilege PROVE RisesOnlyByTrap
    BY DEF RisesOnlyByTrap, vars
  <2>1. CASE TrapAction
    <3>1. PICK cause \in Cause : EntersSupervisor(Fetched(hart), hart', cause)
                                   \/ EntersMachine(Fetched(hart), hart', cause)
      BY <2>1, TrapActionTraps DEF TrapFrom
    <3>2. /\ Fetched(hart).privilege = hart.privilege /\ Fetched(hart).csr = hart.csr
          /\ InterruptedPc(Fetched(hart)) = hart.pc
      BY InvFacts, FetchedFacts
    <3> QED
      BY <3>1, <3>2 DEF EntersSupervisor, EntersMachine, RisesOnlyByTrap, EnteredThrough
  <2>2. CASE QuietAction
    BY <2>2, InvFacts, QuietActionKeepsContext DEF SameContext, Hart, Privilege,
       PRIV_U, PRIV_S, PRIV_M, PRIV_RESERVED
  <2>3. ASSUME NEW w \in GuestWrites, CsrWrite(w) PROVE FALSE
    BY <2>3, InvFacts, CsrWriteKeepsOthers DEF Hart, Privilege, PRIV_U, PRIV_S, PRIV_M, PRIV_RESERVED
  <2>4. hart.csr.mstatus.MPP \in Privilege /\ hart.csr.mstatus.SPP \in {PRIV_U, PRIV_S}
    BY InvFacts DEF Hart, Csr, Mstatus
  <2>5. CASE Mret
    BY <2>4, <2>5, MretResumes DEF Privilege, PRIV_U, PRIV_S, PRIV_M, PRIV_RESERVED
  <2>6. CASE Sret
    BY <2>4, <2>6, SretResumes DEF PRIV_U, PRIV_S, PRIV_M
  <2>7. CASE UNCHANGED hart
    BY <2>7, InvFacts DEF Hart, Privilege, PRIV_U, PRIV_S, PRIV_M, PRIV_RESERVED
  <2> QED
    BY <2>1, <2>2, <2>3, <2>5, <2>6, <2>7 DEF Next, TrapAction, QuietAction, Exits,
       MretRefused, SretRefused, Wfi, UnknownInstruction, PowerOff, UnmappedAccess, DeviceFetch
<1> QED
  BY <1>1, Invariance, PTL DEF Spec, PrivilegeRisesOnlyByTrap

=============================================================================
