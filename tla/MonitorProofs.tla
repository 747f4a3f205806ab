--------------------------- MODULE MonitorProofs ---------------------------
(***************************************************************************)
(* Theorems about Monitor: whatever is dumped, stepped, saved and loaded,  *)
(* and however deep the monitors nest, the loop of run_linux sees a hart   *)
(* with nothing pending and agreeing clocks.                               *)
(*                                                                         *)
(* The invariant of Privileged is too strong inside a monitor, where a     *)
(* dump leaves its fault pending.  What holds at every depth is weaker: a  *)
(* hart either has a fault to take or nothing at all pending, never a      *)
(* half of one.  Each ecall that a monitor returns to then clears it.      *)
(***************************************************************************)
EXTENDS Monitor, PrivilegedProofs

Settled(s) == s \in Hart /\ ClocksAgree(s) /\ (s.has_pending_exception \/ Cleared(s))

\* The saved file holds a hart that was running, so load gives one back.
MonitorInv ==
  /\ Settled(hart)
  /\ exit_code \in ExitCode
  /\ file = NoFile \/ Settled(file)
  /\ depth \in Nat
  /\ depth = 0 => Cleared(hart) /\ cycles = hart.instruction_counter

-----------------------------------------------------------------------------
\* Trap returns do not touch what is pending.
LEMMA ReturnsSettle ==
  ASSUME NEW s \in Hart, s.has_pending_exception \/ Cleared(s),
         NEW op, op \in {mret(s), sret(s), uret(s)}
  PROVE  op \in Hart /\ (op.has_pending_exception \/ Cleared(op))
<1>1. s.csr \in Csr /\ s.csr.mstatus \in Mstatus
  BY DEF Hart, Csr
<1>2. PRIV_U \in Privilege /\ PRIV_S \in Privilege
  BY DEF Privilege
<1> DEFINE cm == [s.csr EXCEPT !.mstatus = PopMachine(s.csr.mstatus)]
           cs == [s.csr EXCEPT !.mstatus = PopSupervisor(s.csr.mstatus)]
<1>3. cm \in Csr /\ cs \in Csr
  BY <1>1, PopType DEF Csr
<1>4. /\ mret(s) = [s EXCEPT !.pc = s.csr.mepc, !.privilege = s.csr.mstatus.MPP, !.csr = cm]
      /\ sret(s) = [s EXCEPT !.pc = s.csr.sepc, !.privilege = s.csr.mstatus.SPP, !.csr = cs]
      /\ uret(s) = [s EXCEPT !.pc = s.csr.uepc]
  BY DEF mret, sret, uret, Hart
<1> HIDE DEF cm, cs
<1>5. /\ s.csr.mepc \in Word /\ s.csr.sepc \in Word /\ s.csr.uepc \in Word
      /\ s.csr.mstatus.MPP \in Privilege /\ s.csr.mstatus.SPP \in Privilege
  BY <1>1, <1>2 DEF Csr, Mstatus
<1>6. CASE op = mret(s)
  BY <1>3, <1>4, <1>5, <1>6 DEF Cleared, Hart
<1>7. CASE op = sret(s)
  BY <1>3, <1>4, <1>5, <1>7 DEF Cleared, Hart
<1>8. CASE op = uret(s)
  BY <1>4, <1>5, <1>8 DEF Cleared, Hart
<1> QED
  BY <1>6, <1>7, <1>8

\* A step that ends in the epilogue of emulate_op leaves a settled hart with
\* nothing pending.
LEMMA ExecutesSettles ==
  ASSUME NEW op \in Hart, op.has_pending_exception \/ Cleared(op), Executes(op)
  PROVE  Settled(hart') /\ Cleared(hart') /\ UNCHANGED exit_code
BY RetireFacts DEF Executes, Settled

\* A fetch that fails raises its exception without the epilogue, and the
\* counters keep their agreement.
LEMMA RaiseSettles ==
  ASSUME NEW f \in Hart, NEW cause \in Cause, NEW tval \in Word, ClocksAgree(f),
         hart' = raise_exception(f, cause, tval)
  PROVE  Settled(hart') /\ Cleared(hart')
BY RaiseExceptionFacts DEF Settled, ClocksAgree, SameClocks

\* One call of emulate_op settles the hart even where a dump has left a fault
\* pending; either it clears it or the process ends.
LEMMA StepSettles ==
  ASSUME Settled(hart), exit_code \in ExitCode, Next
  PROVE  /\ Settled(hart') /\ exit_code' \in ExitCode
         /\ Cleared(hart') \/ UNCHANGED hart
<1> DEFINE f == Fetched(hart)
<1>f. /\ hart \in Hart /\ ClocksAgree(hart)
      /\ f \in Hart /\ ClocksAgree(f) /\ (f.has_pending_exception \/ Cleared(f))
  BY FetchedFacts DEF Settled, ClocksAgree, Cleared
<1>c. /\ CAUSE_FETCH_PAGE_FAULT \in Cause /\ CAUSE_LOAD_PAGE_FAULT \in Cause
      /\ CAUSE_STORE_PAGE_FAULT \in Cause
  BY DEF Cause
<1>a. FaultAddresses \subseteq Word /\ BranchTargets \subseteq Word
  BY PrivilegedAssumption
<1>1. CASE FetchPageFault
  <2> DEFINE p == PageFault(hart, CAUSE_FETCH_PAGE_FAULT, hart.pc)
             q == Fetched(p)
  <2>1. hart.pc \in Word
    BY <1>f DEF Hart
  <2>2. p \in Hart /\ p.csr = hart.csr /\ p.instruction_counter = hart.instruction_counter
    BY <1>f, <1>c, <2>1, PageFaultFacts
  <2> HIDE DEF p
  <2>3. q \in Hart /\ ClocksAgree(q)
    BY <1>f, <2>2, FetchedFacts DEF ClocksAgree
  <2>4. q.pending_exception \in Cause /\ q.pending_tval \in Word
    BY <2>3 DEF Hart
  <2>5. hart' = raise_exception(q, q.pending_exception, q.pending_tval) /\ UNCHANGED exit_code
    BY <1>1 DEF FetchPageFault, p
  <2> HIDE DEF q
  <2> QED
    BY <2>3, <2>4, <2>5, RaiseSettles
<1>2. CASE FetchUnmapped
  <2>1. f.pending_exception \in Cause /\ f.pending_tval \in Word
    BY <1>f DEF Hart
  <2>2. hart' = raise_exception(f, f.pending_exception, f.pending_tval) /\ UNCHANGED exit_code
    BY <1>2 DEF FetchUnmapped
  <2> QED
    BY <1>f, <2>1, <2>2, RaiseSettles
<1>3. CASE Plain
  BY <1>3, <1>f, ExecutesSettles DEF Plain
<1>4. CASE Jump
  <2>1. PICK target \in BranchTargets : Executes([f EXCEPT !.pc = target])
    BY <1>4 DEF Jump
  <2> DEFINE op == [f EXCEPT !.pc = target]
  <2>2. op \in Hart /\ (op.has_pending_exception \/ Cleared(op))
    BY <1>f, <1>a DEF Hart, Cleared
  <2> HIDE DEF op
  <2>3. Executes(op)
    BY <2>1 DEF op
  <2> QED
    BY <2>2, <2>3, ExecutesSettles
<1>5. ASSUME NEW w \in GuestWrites, CsrWrite(w)
      PROVE  Settled(hart') /\ Cleared(hart') /\ UNCHANGED exit_code
  <2> DEFINE op == write_csr(f, w.csr, w.value)
  <2>1. op \in Hart
    BY <1>f, GuestWriteType
  <2>2. op.has_pending_exception \/ Cleared(op)
    BY <1>f DEF write_csr, Cleared, Hart
  <2>3. Executes(op)
    BY <1>5 DEF CsrWrite
  <2> HIDE DEF op
  <2> QED
    BY <2>1, <2>2, <2>3, ExecutesSettles
<1>6. ASSUME NEW cause \in {CAUSE_LOAD_PAGE_FAULT, CAUSE_STORE_PAGE_FAULT}, NEW a \in FaultAddresses,
             Executes(PageFault(f, cause, a))
      PROVE  Settled(hart') /\ Cleared(hart') /\ UNCHANGED exit_code
  <2> DEFINE op == PageFault(f, cause, a)
  <2>1. op \in Hart /\ op.has_pending_exception
    BY <1>f, <1>a, <1>c, PageFaultFacts
  <2>2. Executes(op)
    BY <1>6
  <2> HIDE DEF op
  <2> QED
    BY <2>1, <2>2, ExecutesSettles
<1>7. CASE LoadPageFault \/ StorePageFault
  BY <1>6, <1>7 DEF LoadPageFault, StorePageFault
<1>8. CASE Ecall
  BY <1>8, <1>f, EcallFacts, ExecutesSettles DEF Ecall
<1>9. CASE TracedEcallFault
  <2>1. PICK a \in FaultAddresses : Executes(ecall(PageFault(f, CAUSE_LOAD_PAGE_FAULT, a)))
    BY <1>9 DEF TracedEcallFault
  <2> DEFINE g == PageFault(f, CAUSE_LOAD_PAGE_FAULT, a)
  <2>2. g \in Hart
    BY <1>f, <1>a, <1>c, PageFaultFacts
  <2>3. Executes(ecall(g))
    BY <2>1
  <2> HIDE DEF g
  <2> QED
    BY <2>2, <2>3, EcallFacts, ExecutesSettles
<1>10. CASE Mret \/ Sret \/ Uret
  BY <1>10, <1>f, ReturnsSettle, ExecutesSettles DEF Mret, Sret, Uret
<1>11. CASE MretRefused \/ SretRefused \/ Wfi \/ UnknownInstruction \/ PowerOff
            \/ UnmappedAccess \/ DeviceFetch
  <2>1. UNCHANGED hart /\ exit_code' \in ExitCode
    BY <1>11 DEF MretRefused, SretRefused, Wfi, UnknownInstruction, PowerOff,
                 UnmappedAccess, DeviceFetch, Exits, ExitCode
  <2> QED
    BY <2>1
<1> QED
  BY <1>1, <1>2, <1>3, <1>4, <1>5, <1>7, <1>8, <1>9, <1>10, <1>11 DEF Next

-----------------------------------------------------------------------------
\* A dump or a write that meets a page that is not there leaves a whole fault.
LEMMA FaultSettles ==
  ASSUME NEW s, Settled(s), NEW cause \in {CAUSE_LOAD_PAGE_FAULT, CAUSE_STORE_PAGE_FAULT},
         NEW a \in FaultAddresses
  PROVE  Settled(PageFault(s, cause, a))
<1>1. cause \in Cause /\ a \in Word
  BY PrivilegedAssumption DEF Cause
<1> QED
  BY <1>1, PageFaultFacts DEF Settled, ClocksAgree

\* What the interrupted ecall makes of any hart the monitor leaves it: a trap,
\* with nothing pending, and one more instruction counted.
LEMMA ResumedSettles ==
  ASSUME NEW s, Settled(s)
  PROVE  Settled(Resumed(s)) /\ Cleared(Resumed(s))
BY EcallFacts, RetireFacts DEF Resumed, Settled

\* A hart that has executed nothing is settled, and no monitor is open.
LEMMA MonitorInitSettles == MonitorInit => MonitorInv
<1> SUFFICES ASSUME MonitorInit PROVE MonitorInv
  OBVIOUS
<1>1. Settled(hart) /\ Cleared(hart) /\ exit_code \in ExitCode
  BY InitEstablishesInv DEF MonitorInit, Inv, TypeOK, NothingPending, CountersAgree,
       Settled, Cleared, ClocksAgree
<1>2. cycles = hart.instruction_counter
  BY DEF MonitorInit, Init, InitialHart
<1> QED
  BY <1>1, <1>2 DEF MonitorInit, MonitorInv

\* Instructions, commands and the return from a monitor keep it so.
LEMMA MonitorStepKeeps ==
  ASSUME MonitorInv, MonitorNext
  PROVE  MonitorInv'
<1>i. Settled(hart) /\ exit_code \in ExitCode /\ depth \in Nat
  BY DEF MonitorInv
<1>1. CASE Instruction
  <2>1. depth' = 0 /\ cycles' = hart'.instruction_counter /\ file' = file
    BY <1>1 DEF Instruction
  <2>2. Settled(hart') /\ exit_code' \in ExitCode /\ Cleared(hart')
    BY <1>1, <1>i, StepSettles DEF Instruction, MonitorInv
  <2> QED
    BY <2>1, <2>2 DEF MonitorInv
<1>2. ASSUME FutexEcall
      PROVE  MonitorInv'
  <2>1. /\ hart' = Fetched(hart) /\ depth' = depth + 1
        /\ exit_code' = exit_code /\ file' = file
    BY <1>2 DEF FutexEcall
  <2>2. Settled(hart')
    BY <1>i, <2>1, FetchedFacts DEF Settled, ClocksAgree, Cleared
  <2> QED
    BY <1>i, <2>1, <2>2 DEF MonitorInv
<1>3. CASE OpenMonitor \/ StepIntoMonitor
  BY <1>2, <1>3 DEF OpenMonitor, StepIntoMonitor
<1>4. ASSUME NEW name, Command(name), Settled(hart'), exit_code' \in ExitCode,
             file' = file \/ Settled(file')
      PROVE  MonitorInv'
  BY <1>4 DEF Command, InMonitor, MonitorInv
<1>5. CASE Look \/ StepWithoutCount \/ WriteWord
  <2>1. PICK name \in {"other", "step"} : Command(name)
    BY <1>5 DEF Look, StepWithoutCount, WriteWord
  <2>2. UNCHANGED <<hart, exit_code, file>>
    BY <1>5 DEF Look, StepWithoutCount, WriteWord
  <2> QED
    BY <1>i, <1>4, <2>1, <2>2
<1>6. CASE DumpCrashes
  <2>1. Command("other") /\ hart' = hart /\ file' = file /\ exit_code' \in ExitCode
    BY <1>6 DEF DumpCrashes, Crash, ExitCode
  <2> QED
    BY <1>i, <1>4, <2>1
<1>7. ASSUME NEW a \in FaultAddresses, DumpFaults(a) \/ WriteFaults(a)
      PROVE  MonitorInv'
  <2>1. Command("other") /\ exit_code' = exit_code /\ file' = file
    BY <1>7 DEF DumpFaults, WriteFaults
  <2>2. Settled(hart')
    BY <1>7, <1>i, FaultSettles DEF DumpFaults, WriteFaults
  <2> QED
    BY <1>i, <1>4, <2>1, <2>2
<1>8. CASE StepOnce
  <2>1. Command("other") /\ Next /\ file' = file
    BY <1>8 DEF StepOnce
  <2>2. Settled(hart') /\ exit_code' \in ExitCode
    BY <1>i, <2>1, StepSettles
  <2> QED
    BY <1>4, <2>1, <2>2
<1>9. CASE Save
  BY <1>9, <1>i, <1>4 DEF Save
<1>10. CASE Load
  <2>1. Command("other") /\ file' = file
    BY <1>10 DEF Load
  <2>2. Settled(hart') /\ exit_code' \in ExitCode
    BY <1>10, <1>i DEF Load, Crash, ExitCode, MonitorInv
  <2> QED
    BY <1>4, <2>1, <2>2
<1>11. CASE Quit
  <2>1. /\ hart' = Resumed(hart) /\ depth' = depth - 1 /\ depth > 0
        /\ cycles' = IF depth' = 0 THEN hart'.instruction_counter ELSE cycles
        /\ exit_code' = exit_code /\ file' = file
    BY <1>11 DEF Quit, InMonitor
  <2>2. Settled(hart') /\ Cleared(hart')
    BY <1>i, <2>1, ResumedSettles
  <2> QED
    BY <1>i, <2>1, <2>2 DEF MonitorInv
<1> QED
  BY <1>1, <1>3, <1>5, <1>6, <1>7, <1>8, <1>9, <1>10, <1>11 DEF MonitorNext

\* So it holds in every state.
LEMMA MonitorInvariance == MonitorSpec => []MonitorInv
<1>1. MonitorInv /\ [MonitorNext]_monitorVars => MonitorInv'
  <2> SUFFICES ASSUME MonitorInv, [MonitorNext]_monitorVars PROVE MonitorInv'
    OBVIOUS
  <2>1. CASE MonitorNext
    BY <2>1, MonitorStepKeeps
  <2>2. CASE UNCHANGED monitorVars
    BY <2>2 DEF monitorVars, MonitorInv
  <2> QED
    BY <2>1, <2>2
<1> QED
  BY <1>1, MonitorInitSettles, PTL DEF MonitorSpec

\* No fault that a dump, a step or a loaded hart left pending reaches an
\* instruction that run_linux executes.
THEOREM NothingLeaksOut == MonitorSpec => []NothingPendingOutside
<1>1. MonitorInv => NothingPendingOutside
  BY DEF MonitorInv, NothingPendingOutside, NothingPending, Cleared
<1> QED
  BY <1>1, MonitorInvariance, PTL

\* Outside the monitor the CLINT's time, the time CSR and the instruction
\* counter are one, although steps and load move only the last two.
THEOREM ClocksMeetAgain == MonitorSpec => []ClockFollows
<1>1. MonitorInv => ClockFollows
  BY DEF MonitorInv, ClockFollows, CountersAgree, Settled, ClocksAgree
<1> QED
  BY <1>1, MonitorInvariance, PTL

-----------------------------------------------------------------------------
(***************************************************************************)
(* What a session that only looks can change.                              *)
(***************************************************************************)
\* The same hart but for what it has pending.
SameButPending(s, t) ==
  /\ s.pc = t.pc /\ s.privilege = t.privilege /\ s.csr = t.csr
  /\ s.instruction_counter = t.instruction_counter

\* The same CSRs but for the trap values.
SameButTval(c, d) ==
  [c EXCEPT !.mtval = 0, !.stval = 0] = [d EXCEPT !.mtval = 0, !.stval = 0]

\* The trap of an ecall in U uses nothing that is pending but the trap value.
LEMMA EcallsAlike ==
  ASSUME NEW s \in Hart, NEW t \in Hart, SameButPending(s, t), t.privilege = PRIV_U
  PROVE  LET p == ecall(s)
             q == ecall(t)
         IN  /\ p \in Hart /\ q \in Hart /\ Cleared(p) /\ Cleared(q)
             /\ p.pc = q.pc /\ p.privilege = q.privilege
             /\ p.instruction_counter = q.instruction_counter
             /\ SameButTval(p.csr, q.csr)
<1> DEFINE c == CAUSE_USER_ECALL
<1>1. EcallCause(s) = c /\ EcallCause(t) = c
  BY DEF EcallCause, SameButPending, PRIV_M, PRIV_S, PRIV_U
<1>2. /\ InterruptedPc(s) = InterruptedPc(t)
      /\ DelegateToS(s, c) <=> DelegateToS(t, c)
  BY DEF InterruptedPc, DelegateToS, SameButPending
<1>3. ecall(s) \in Hart /\ ecall(t) \in Hart /\ Cleared(ecall(s)) /\ Cleared(ecall(t))
  BY EcallFacts
<1> HIDE DEF c
<1>4. CASE DelegateToS(s, c)
  <2> DEFINE m == PushSupervisor(StatusWord, PRIV_U)
             d(v) == [t.csr EXCEPT !.sepc = InterruptedPc(t), !.scause = c, !.stval = v, !.mstatus = m]
  <2>1. /\ ecall(s) = ClearPending([s EXCEPT !.pc = t.csr.stvec, !.privilege = PRIV_S,
                                             !.csr = d(s.pending_tval)])
        /\ ecall(t) = ClearPending([t EXCEPT !.pc = t.csr.stvec, !.privilege = PRIV_S,
                                             !.csr = d(t.pending_tval)])
    BY <1>1, <1>2, <1>4 DEF ecall, raise_exception, SupervisorEntry, SameButPending, Hart
  <2>2. SameButTval(d(s.pending_tval), d(t.pending_tval))
    BY DEF SameButTval, Hart, Csr
  <2> HIDE DEF d
  <2>3. /\ ecall(s).pc = ecall(t).pc /\ ecall(s).privilege = ecall(t).privilege
        /\ ecall(s).instruction_counter = ecall(t).instruction_counter
        /\ ecall(s).csr = d(s.pending_tval) /\ ecall(t).csr = d(t.pending_tval)
    BY <2>1 DEF ClearPending, SameButPending, Hart
  <2> QED
    BY <1>3, <2>2, <2>3
<1>5. CASE ~DelegateToS(s, c)
  <2> DEFINE m == PushMachine(StatusWord, PRIV_U)
             d(v) == [t.csr EXCEPT !.mepc = InterruptedPc(t), !.mcause = c, !.mtval = v, !.mstatus = m]
  <2>1. /\ ecall(s) = ClearPending([s EXCEPT !.pc = t.csr.mtvec, !.privilege = PRIV_M,
                                             !.csr = d(s.pending_tval)])
        /\ ecall(t) = ClearPending([t EXCEPT !.pc = t.csr.mtvec, !.privilege = PRIV_M,
                                             !.csr = d(t.pending_tval)])
    BY <1>1, <1>2, <1>5 DEF ecall, raise_exception, MachineEntry, SameButPending, Hart
  <2>2. SameButTval(d(s.pending_tval), d(t.pending_tval))
    BY DEF SameButTval, Hart, Csr
  <2> HIDE DEF d
  <2>3. /\ ecall(s).pc = ecall(t).pc /\ ecall(s).privilege = ecall(t).privilege
        /\ ecall(s).instruction_counter = ecall(t).instruction_counter
        /\ ecall(s).csr = d(s.pending_tval) /\ ecall(t).csr = d(t.pending_tval)
    BY <2>1 DEF ClearPending, SameButPending, Hart
  <2> QED
    BY <1>3, <2>2, <2>3
<1> QED
  BY <1>4, <1>5

\* So two harts that differ in what is pending resume alike.
LEMMA ResumedAlike ==
  ASSUME NEW s \in Hart, NEW t \in Hart, SameButPending(s, t), t.privilege = PRIV_U
  PROVE  WithoutTval(Resumed(s)) = WithoutTval(Resumed(t))
<1> DEFINE p == ecall(s)
           q == ecall(t)
           n == Plus(q.instruction_counter, 1)
           pc == [p.csr EXCEPT !.time = n, !.cycle = n]
           qc == [q.csr EXCEPT !.time = n, !.cycle = n]
<1>1. /\ p \in Hart /\ q \in Hart /\ Cleared(p) /\ Cleared(q)
      /\ p.pc = q.pc /\ p.privilege = q.privilege
      /\ p.instruction_counter = q.instruction_counter
      /\ SameButTval(p.csr, q.csr)
  BY EcallsAlike
<1> HIDE DEF p, q
<1>2. /\ Resumed(s) = [p EXCEPT !.instruction_counter = n, !.csr = pc]
      /\ Resumed(t) = [q EXCEPT !.instruction_counter = n, !.csr = qc]
  <2>1. Resumed(s) = Count(p) /\ Resumed(t) = Count(q)
    BY <1>1 DEF Resumed, Retire, TakePending, Cleared, p, q
  <2> QED
    BY <1>1, <2>1 DEF Count, Hart
<1>3. SameButTval(pc, qc)
  BY <1>1 DEF SameButTval, Hart, Csr
<1> HIDE DEF n, pc, qc
<1>4. /\ WithoutTval(Resumed(s)) = [p EXCEPT !.instruction_counter = n,
                                             !.csr = [pc EXCEPT !.mtval = 0, !.stval = 0]]
      /\ WithoutTval(Resumed(t)) = [q EXCEPT !.instruction_counter = n,
                                             !.csr = [qc EXCEPT !.mtval = 0, !.stval = 0]]
  BY <1>1, <1>2 DEF WithoutTval, Hart
<1>5. /\ p.has_pending_exception = FALSE /\ q.has_pending_exception = FALSE
      /\ p.pending_exception = 0 /\ q.pending_exception = 0
      /\ p.pending_tval = 0 /\ q.pending_tval = 0
  BY <1>1 DEF Cleared, Hart
<1> DEFINE c == [pc EXCEPT !.mtval = 0, !.stval = 0]
<1>6. c = [qc EXCEPT !.mtval = 0, !.stval = 0]
  BY <1>3 DEF SameButTval
<1> HIDE DEF c
<1>7. [p EXCEPT !.instruction_counter = n, !.csr = c] = [q EXCEPT !.instruction_counter = n, !.csr = c]
  BY <1>1, <1>5 DEF Hart
<1> QED
  BY <1>4, <1>6, <1>7 DEF c

\* While nothing was changed there is one monitor, and the hart in it is the one
\* that the ecall brought, with perhaps another fault pending.
OnlyLooked ==
  depth > 0 /\ ~changed =>
    /\ depth = 1
    /\ entry \in Hart /\ entry.privilege = PRIV_U
    /\ SameButPending(hart, entry)

\* Commands that only look leave the monitor alone with the hart of its entry,
\* and every other one counts as a change or ends the session.
LEMMA StepOnlyLooks ==
  ASSUME MonitorInv, OnlyLooked, MonitorNext
  PROVE  OnlyLooked'
<1>i. Settled(hart) /\ depth \in Nat
  BY DEF MonitorInv
<1>1. CASE Instruction
  BY <1>1 DEF Instruction, OnlyLooked
<1>2. CASE OpenMonitor
  <2>1. hart' = Fetched(hart) /\ entry' = hart' /\ depth' = 1 /\ hart.privilege = PRIV_U
    BY <1>2 DEF OpenMonitor, FutexEcall
  <2>2. hart' \in Hart /\ hart'.privilege = PRIV_U
    BY <1>i, <2>1, FetchedFacts DEF Settled
  <2> QED
    BY <2>1, <2>2 DEF OnlyLooked, SameButPending
<1>3. CASE WriteWord \/ StepOnce \/ StepIntoMonitor \/ Load
  BY <1>3 DEF WriteWord, StepOnce, StepIntoMonitor, Load, OnlyLooked
<1>4. CASE Look \/ DumpCrashes \/ StepWithoutCount \/ Save
  <2>1. UNCHANGED <<hart, depth, entry, changed>>
    BY <1>4 DEF Look, DumpCrashes, Crash, StepWithoutCount, Save, Command, session
  <2> QED
    BY <2>1 DEF OnlyLooked, SameButPending
<1>5. ASSUME NEW a \in FaultAddresses, DumpFaults(a) \/ WriteFaults(a)
      PROVE  OnlyLooked'
  <2>1. UNCHANGED <<depth, entry, changed>>
    BY <1>5 DEF DumpFaults, WriteFaults, Command, session
  <2>2. SameButPending(hart', hart)
    BY <1>i, <1>5 DEF DumpFaults, WriteFaults, PageFault, SameButPending, Settled, Hart
  <2> QED
    BY <2>1, <2>2 DEF OnlyLooked, SameButPending
<1>6. CASE Quit
  BY <1>i, <1>6 DEF Quit, InMonitor, OnlyLooked, session
<1> QED
  BY <1>1, <1>2, <1>3, <1>4, <1>5, <1>6 DEF MonitorNext

\* The step that leaves the outermost monitor is Quit.
LEMMA LeavingQuits ==
  ASSUME MonitorInv, OnlyLooked, MonitorNext, Leaves, ~changed
  PROVE  WithoutTval(hart') = WithoutTval(Resumed(entry))
<1>1. Quit
  <2>1. depth = 1 /\ depth' = 0
    BY DEF Leaves
  <2> QED
    BY <2>1 DEF MonitorNext, Instruction, OpenMonitor, FutexEcall, Look, DumpCrashes, WriteWord,
         DumpFaults, WriteFaults, StepOnce, StepIntoMonitor, StepWithoutCount, Save, Load, Command
<1>2. hart' = Resumed(hart)
  BY <1>1 DEF Quit
<1>3. hart \in Hart /\ entry \in Hart /\ entry.privilege = PRIV_U /\ SameButPending(hart, entry)
  BY DEF Leaves, OnlyLooked, MonitorInv, Settled
<1> QED
  BY <1>2, <1>3, ResumedAlike

\* A session that only looks leaves the guest where it would have been without
\* it, up to the trap value of the ecall, however many commands it had.
THEOREM LookingIsHarmless == MonitorSpec => LookingChangesOnlyTval
<1>1. MonitorInit => OnlyLooked
  BY DEF MonitorInit, OnlyLooked
<1>2. MonitorInv /\ OnlyLooked /\ [MonitorNext]_monitorVars => OnlyLooked'
  <2> SUFFICES ASSUME MonitorInv, OnlyLooked, [MonitorNext]_monitorVars PROVE OnlyLooked'
    OBVIOUS
  <2>1. CASE MonitorNext
    BY <2>1, StepOnlyLooks
  <2>2. CASE UNCHANGED monitorVars
    BY <2>2 DEF monitorVars, OnlyLooked, session
  <2> QED
    BY <2>1, <2>2
<1>3. MonitorInv /\ OnlyLooked /\ [MonitorNext]_monitorVars =>
        [Leaves /\ ~changed => WithoutTval(hart') = WithoutTval(Resumed(entry))]_monitorVars
  BY LeavingQuits
<1> QED
  BY <1>1, <1>2, <1>3, MonitorInvariance, PTL DEF MonitorSpec, LookingChangesOnlyTval

=============================================================================
