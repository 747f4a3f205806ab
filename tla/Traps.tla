------------------------------- MODULE Traps -------------------------------
(***************************************************************************)
(* Trap entry and trap return of the emulated RV32 hart, as functions from *)
(* hart to hart.                                                           *)
(*                                                                         *)
(* A hart is a record whose fields carry the names of `struct State`       *)
(* (state.h): pc, privilege, instruction_counter, the three pending_*      *)
(* fields a memory access leaves behind for emulate_op, and csr, a record  *)
(* indexed by CSR name instead of CSR number.  The operators only touch    *)
(* the fields they name, so a module whose hart has more fields (registers *)
(* or memory) uses them unchanged.                                         *)
(*                                                                         *)
(* Sources: cpu_exception.c, cpu_prv.c, cpu_ecall.c, csr.c and the         *)
(* prologue and epilogue of emulate_op in cpu.c.                           *)
(***************************************************************************)
EXTENDS Integers

CONSTANTS
  WordSize,      \* 2^XLEN in the program; small, and above every cause, in TLC
  TablePage,     \* physical page numbers, the values of satp's PPN field
  ResetTable     \* page 0

ASSUME WordSizeAssumption == WordSize \in Nat /\ WordSize >= 16
ASSUME TableAssumption == ResetTable \in TablePage

(***************************************************************************)
(* Words: uint32_t arithmetic wraps.                                       *)
(***************************************************************************)
Word == 0 .. WordSize - 1

\* Mutant of Plus: the sum keeps its carry.
PlusUnbounded(a, b) == a + b

Plus(a, b)  == IF a + b < WordSize THEN a + b ELSE a + b - WordSize
Minus(a, b) == IF a >= b THEN a - b ELSE a - b + WordSize

INSTRUCTION_LENGTH_BYTES == 4

(***************************************************************************)
(* Privilege levels and causes.                                            *)
(***************************************************************************)
PRIV_U == 0
PRIV_S == 1
PRIV_RESERVED == 2
PRIV_M == 3

Privilege == {PRIV_U, PRIV_S, PRIV_RESERVED, PRIV_M}

CAUSE_USER_ECALL        == 8
CAUSE_SUPERVISOR_ECALL  == 9
CAUSE_MACHINE_ECALL     == 11
CAUSE_FETCH_PAGE_FAULT  == 12
CAUSE_LOAD_PAGE_FAULT   == 13
CAUSE_STORE_PAGE_FAULT  == 15

\* What an ecall in the reserved level and a fetch from an address no memory
\* range covers raise: nothing set pending_exception, so the cause is 0, the
\* number of CAUSE_MISALIGNED_FETCH.
NoPendingCause == 0

Cause == {NoPendingCause, CAUSE_USER_ECALL, CAUSE_SUPERVISOR_ECALL, CAUSE_MACHINE_ECALL,
          CAUSE_FETCH_PAGE_FAULT, CAUSE_LOAD_PAGE_FAULT, CAUSE_STORE_PAGE_FAULT}

(***************************************************************************)
(* CSRs.  mstatus is the record of the fields the code reads or writes;    *)
(* SUM stands for every other field (FS, MXR, MPRV, ...), which the code   *)
(* only carries along.  medeleg is the set of its bits that can matter.    *)
(* satp is its MODE bit (sv32 is TRUE for SATP_MODE_SV32, FALSE for        *)
(* SATP_MODE_BARE) and the page of the root page table.                    *)
(***************************************************************************)
Mstatus == [SIE : BOOLEAN, MIE : BOOLEAN, SPIE : BOOLEAN, MPIE : BOOLEAN,
            SPP : {PRIV_U, PRIV_S}, MPP : Privilege, TSR : BOOLEAN, SUM : BOOLEAN]

ZeroMstatus == [SIE |-> FALSE, MIE |-> FALSE, SPIE |-> FALSE, MPIE |-> FALSE,
                SPP |-> PRIV_U, MPP |-> PRIV_U, TSR |-> FALSE, SUM |-> FALSE]

Csr == [mstatus : Mstatus, medeleg : SUBSET Cause, satp : [sv32 : BOOLEAN, ppn : TablePage],
        mtvec : Word, mepc : Word, mcause : Cause, mtval : Word,
        stvec : Word, sepc : Word, scause : Cause, stval : Word,
        uepc : Word, time : Word, cycle : Word]

ResetCsr == [mstatus |-> ZeroMstatus, medeleg |-> {}, satp |-> [sv32 |-> FALSE, ppn |-> ResetTable],
             mtvec |-> 0, mepc |-> 0, mcause |-> 0, mtval |-> 0,
             stvec |-> 0, sepc |-> 0, scause |-> 0, stval |-> 0,
             uepc |-> 0, time |-> 0, cycle |-> 0]

Hart == [pc : Word, privilege : Privilege, csr : Csr, instruction_counter : Word,
         pending_exception : Cause, pending_tval : Word, has_pending_exception : BOOLEAN]

(***************************************************************************)
(* CSR access.  There are no read-only or privileged CSRs: csr.c indexes   *)
(* an array and checks nothing.                                            *)
(***************************************************************************)
write_csr(s, csr, value) == [s EXCEPT !.csr = [@ EXCEPT ![csr] = value]]

(***************************************************************************)
(* Trap entry: raise_exception.                                            *)
(*                                                                         *)
(* `pc` was advanced by the prologue of emulate_op, so the interrupted     *)
(* instruction is at pc - 4.  The new mstatus is computed from             *)
(* state->status, the run status of the emulator, whose only value while   *)
(* instructions execute is RUNNING = 0, and not from the mstatus CSR.      *)
(***************************************************************************)
\* Mutant of DelegateToS: the privilege test is dropped.
DelegateAnyLevel(s, cause) == cause \in s.csr.medeleg

DelegateToS(s, cause) == s.privilege <= PRIV_S /\ cause \in s.csr.medeleg

StatusWord == ZeroMstatus

\* Mutant of InterruptedPc: the pre-increment is forgotten.
InterruptedPcAhead(s) == s.pc

InterruptedPc(s) == Minus(s.pc, INSTRUCTION_LENGTH_BYTES)

PushSupervisor(m, privilege) == [m EXCEPT !.SPIE = m.SIE, !.SPP = privilege, !.SIE = FALSE]
PushMachine(m, privilege)    == [m EXCEPT !.MPIE = m.MIE, !.MPP = privilege, !.MIE = FALSE]

SupervisorEntry(s, cause, tval) ==
  [s EXCEPT !.pc = s.csr.stvec,
            !.privilege = PRIV_S,
            !.csr = [@ EXCEPT !.sepc = InterruptedPc(s),
                              !.scause = cause,
                              !.stval = tval,
                              !.mstatus = PushSupervisor(StatusWord, s.privilege)]]

MachineEntry(s, cause, tval) ==
  [s EXCEPT !.pc = s.csr.mtvec,
            !.privilege = PRIV_M,
            !.csr = [@ EXCEPT !.mepc = InterruptedPc(s),
                              !.mcause = cause,
                              !.mtval = tval,
                              !.mstatus = PushMachine(StatusWord, s.privilege)]]

\* Mutant of ClearPending: the trap value survives.
ClearCauseOnly(s) ==
  [s EXCEPT !.pending_exception = 0, !.has_pending_exception = FALSE]

ClearPending(s) ==
  [s EXCEPT !.pending_exception = 0, !.pending_tval = 0, !.has_pending_exception = FALSE]

raise_exception(s, cause, tval) ==
  ClearPending(IF DelegateToS(s, cause) THEN SupervisorEntry(s, cause, tval)
                                        ELSE MachineEntry(s, cause, tval))

(***************************************************************************)
(* Trap return.  mret and sret are the effect of the instruction where     *)
(* their privilege check lets it through; elsewhere they end the process.  *)
(***************************************************************************)
MretPermitted(s) == s.privilege = PRIV_M

PopMachine(m)    == [m EXCEPT !.MIE = m.MPIE, !.MPIE = TRUE, !.MPP = PRIV_U]
PopSupervisor(m) == [m EXCEPT !.SIE = m.SPIE, !.SPIE = TRUE, !.SPP = PRIV_U]

\* Mutant of mret: the level is read after MPP was reset.
mretLateLevel(s) ==
  [s EXCEPT !.pc = s.csr.mepc,
            !.privilege = PopMachine(s.csr.mstatus).MPP,
            !.csr = [@ EXCEPT !.mstatus = PopMachine(s.csr.mstatus)]]

mret(s) ==
  [s EXCEPT !.pc = s.csr.mepc,
            !.privilege = s.csr.mstatus.MPP,
            !.csr = [@ EXCEPT !.mstatus = PopMachine(s.csr.mstatus)]]

\* Mutant of SretPermitted: TSR is honoured, the level is not checked.
SretUnlessTsr(s) == ~s.csr.mstatus.TSR

SretPermitted(s) == s.privilege = IF s.csr.mstatus.TSR THEN PRIV_M ELSE PRIV_S

sret(s) ==
  [s EXCEPT !.pc = s.csr.sepc,
            !.privilege = s.csr.mstatus.SPP,
            !.csr = [@ EXCEPT !.mstatus = PopSupervisor(s.csr.mstatus)]]

uret(s) == [s EXCEPT !.pc = s.csr.uepc]

(***************************************************************************)
(* What a failed translation leaves behind for the rest of emulate_op:     *)
(* the end of get_memory_target.                                           *)
(***************************************************************************)
PageFault(s, cause, virtual_address) ==
  [s EXCEPT !.pending_exception = cause,
            !.pending_tval = virtual_address,
            !.has_pending_exception = TRUE]

(***************************************************************************)
(* ecall sets the cause only: the trap value is whatever is pending.  In   *)
(* the reserved level no branch matches and the pending cause is kept.     *)
(***************************************************************************)
EcallCause(s) ==
  CASE s.privilege = PRIV_M -> CAUSE_MACHINE_ECALL
    [] s.privilege = PRIV_S -> CAUSE_SUPERVISOR_ECALL
    [] s.privilege = PRIV_U -> CAUSE_USER_ECALL
    [] OTHER                -> s.pending_exception

\* Mutant of ecall: a pending fault is taken first.
ecallPendingFirst(s) ==
  raise_exception(s, IF s.has_pending_exception THEN s.pending_exception ELSE EcallCause(s),
                  s.pending_tval)

ecall(s) == raise_exception(s, EcallCause(s), s.pending_tval)

(***************************************************************************)
(* The prologue and the epilogue of emulate_op.  The epilogue runs after   *)
(* every instruction that was fetched; a fetch that failed goes straight   *)
(* to raise_exception, so it neither counts nor updates the counter CSRs.  *)
(***************************************************************************)
Fetched(s) == [s EXCEPT !.pc = Plus(@, INSTRUCTION_LENGTH_BYTES)]

TakePending(s) ==
  IF s.has_pending_exception THEN raise_exception(s, s.pending_exception, s.pending_tval) ELSE s

\* Mutant of Count: the cycle CSR is left to the guest.
CountTimeOnly(s) ==
  LET n == Plus(s.instruction_counter, 1)
  IN  [s EXCEPT !.instruction_counter = n,
                !.csr = [@ EXCEPT !.time = n]]

Count(s) ==
  LET n == Plus(s.instruction_counter, 1)
  IN  [s EXCEPT !.instruction_counter = n,
                !.csr = [@ EXCEPT !.time = n, !.cycle = n]]

Retire(s) == Count(TakePending(s))

=============================================================================
