----------------------------- MODULE Privileged -----------------------------
(***************************************************************************)
(* The hart as the privileged architecture sees it: one step is one call   *)
(* of emulate_op (cpu.c), that is one iteration of the loop of run_linux.  *)
(*                                                                         *)
(* Registers and memory are left out.  What an instruction does with them  *)
(* is a choice here: which instruction is fetched, whether an access finds *)
(* its page, where a branch goes and what a CSR instruction writes.  There *)
(* is one action per kind of outcome.                                      *)
(***************************************************************************)
EXTENDS Traps

CONSTANTS
  BootAddress,      \* BOOTLOADER_ADDRESS, where run_linux starts the hart
  Unmapped,         \* physical addresses that no memory range covers
  Devices,          \* physical addresses of the device ranges
  FaultAddresses,   \* virtual addresses the guest uses whose walk can fail
  BranchTargets,    \* where taken branches and jumps go
  GuestWrites       \* the [csr, value] pairs that CSR instructions write

ASSUME PrivilegedAssumption ==
  /\ BootAddress \in Word
  /\ Unmapped \subseteq Word
  /\ Devices \subseteq Word
  /\ FaultAddresses \subseteq Word
  /\ BranchTargets \subseteq Word
  /\ \A w \in GuestWrites : [ResetCsr EXCEPT ![w.csr] = w.value] \in Csr

ExitCode == {"running", "crashed", "EXIT_POWEROFF", "EXIT_ILLEGAL_INSTRUCTION",
             "EXIT_ILLEGAL_MRET", "EXIT_ILLEGAL_SRET", "EXIT_WFI"}

VARIABLES
  hart,        \* *state
  exit_code    \* how the process ended, "running" until it does

vars == <<hart, exit_code>>

\* initialize_state_linux, then the pc that run_linux sets.  sc, lr and the
\* pc history are not in this hart.
InitialHart == [pc |-> BootAddress, privilege |-> PRIV_M, csr |-> ResetCsr,
                instruction_counter |-> 0, pending_exception |-> 0, pending_tval |-> 0,
                has_pending_exception |-> FALSE]

Init == hart = InitialHart /\ exit_code = "running"

-----------------------------------------------------------------------------
(***************************************************************************)
(* The fetch.  Without translation the pc is a physical address; with it   *)
(* the page tables decide, and they are not part of this state.            *)
(***************************************************************************)
Running == exit_code = "running"

Translating == hart.privilege # PRIV_M /\ hart.csr.satp.sv32

MayFetchFrom(Addresses) == Translating \/ hart.pc \in Addresses

Fetchable == MayFetchFrom(Word \ (Unmapped \cup Devices))

FetchPageFault ==
  /\ Running
  /\ Translating
  /\ hart' = LET f == Fetched(PageFault(hart, CAUSE_FETCH_PAGE_FAULT, hart.pc))
             IN  raise_exception(f, f.pending_exception, f.pending_tval)
  /\ UNCHANGED exit_code

\* get_memory_target_physical finds no range: status -2, and nothing is pending.
FetchUnmapped ==
  /\ Running
  /\ MayFetchFrom(Unmapped)
  /\ hart' = LET f == Fetched(hart)
             IN  raise_exception(f, f.pending_exception, f.pending_tval)
  /\ UNCHANGED exit_code

-----------------------------------------------------------------------------
(***************************************************************************)
(* The instruction is fetched and its handler returns: op is the hart the  *)
(* handler leaves.                                                         *)
(***************************************************************************)
Executes(op) ==
  /\ Running
  /\ Fetchable
  /\ hart' = Retire(op)
  /\ UNCHANGED exit_code

\* Register instructions, fences, ebreak, sfence.vma, branches not taken, and
\* memory accesses that succeed: nothing of this hart but pc and counters.
Plain == Executes(Fetched(hart))

Jump == \E target \in BranchTargets : Executes([Fetched(hart) EXCEPT !.pc = target])

\* A CSR instruction that writes; one that only reads is Plain.
CsrWrite(w) == Executes(write_csr(Fetched(hart), w.csr, w.value))

\* A load, or the load of lr.
LoadPageFault ==
  /\ Translating
  /\ \E a \in FaultAddresses : Executes(PageFault(Fetched(hart), CAUSE_LOAD_PAGE_FAULT, a))

\* A store, sc, or an AMO: the fault of its load is overwritten by that of its store.
StorePageFault ==
  /\ Translating
  /\ \E a \in FaultAddresses : Executes(PageFault(Fetched(hart), CAUSE_STORE_PAGE_FAULT, a))

Ecall == Executes(ecall(Fetched(hart)))

\* The system-call trace reads the file name through the MMU before it sets the cause.
TracedEcallFault ==
  /\ Translating
  /\ hart.privilege = PRIV_U
  /\ \E a \in FaultAddresses :
       Executes(ecall(PageFault(Fetched(hart), CAUSE_LOAD_PAGE_FAULT, a)))

Mret == MretPermitted(hart) /\ Executes(mret(Fetched(hart)))

Sret == SretPermitted(hart) /\ Executes(sret(Fetched(hart)))

Uret == Executes(uret(Fetched(hart)))

-----------------------------------------------------------------------------
(***************************************************************************)
(* Instructions that end the process.  The hart they leave is never seen.  *)
(***************************************************************************)
Exits(code) ==
  /\ Running
  /\ Fetchable
  /\ exit_code' = code
  /\ UNCHANGED hart

MretRefused == ~MretPermitted(hart) /\ Exits("EXIT_ILLEGAL_MRET")
SretRefused == ~SretPermitted(hart) /\ Exits("EXIT_ILLEGAL_SRET")

Wfi                == Exits("EXIT_WFI")
UnknownInstruction == Exits("EXIT_ILLEGAL_INSTRUCTION")
PowerOff           == Exits("EXIT_POWEROFF")   \* the store that completes HTIF command 1

\* read_common and write_common test target.range->is_ram with range NULL.
UnmappedAccess == Exits("crashed")

\* A device range has no memory behind it: the instruction is read through an
\* offset from a NULL phys_mem_ptr.
DeviceFetch ==
  /\ Running
  /\ MayFetchFrom(Devices)
  /\ exit_code' = "crashed"
  /\ UNCHANGED hart

-----------------------------------------------------------------------------
Next ==
  \/ FetchPageFault \/ FetchUnmapped
  \/ Plain \/ Jump
  \/ \E w \in GuestWrites : CsrWrite(w)
  \/ LoadPageFault \/ StorePageFault
  \/ Ecall \/ TracedEcallFault
  \/ Mret \/ Sret \/ Uret
  \/ MretRefused \/ SretRefused
  \/ Wfi \/ UnknownInstruction \/ PowerOff \/ UnmappedAccess \/ DeviceFetch

Spec == Init /\ [][Next]_vars

-----------------------------------------------------------------------------
(***************************************************************************)
(* Properties.                                                             *)
(***************************************************************************)

\* Type correctness.  Privilege and SPP, MPP stay encodable, and the words
\* wrap: pc + 4 at the top of the address space, pc - 4 for a trap at address
\* 0 and the instruction counter.
TypeOK == hart \in Hart /\ exit_code \in ExitCode

\* Between two instructions nothing is pending.  emulate_op tests
\* has_pending_exception after every instruction and ecall reads pending_tval
\* without setting it, so a fault that survived its instruction would be
\* charged to a later one.
NothingPending ==
  /\ hart.pending_exception = 0
  /\ hart.pending_tval = 0
  /\ ~hart.has_pending_exception

\* The guest's clock never disagrees with the emulator's: whatever CSR
\* instructions write to time and cycle, and across fetches that fault and do
\* not count, both read as instruction_counter.
CountersAgree ==
  /\ hart.csr.time = hart.instruction_counter
  /\ hart.csr.cycle = hart.instruction_counter

\* Privilege rises only by a trap.  A step that ends in a more privileged level
\* starts at the vector that level has configured, and the level's epc and
\* previous-privilege field name the instruction and the level it came from.
EnteredThrough(tvec, epc, previous) ==
  hart'.pc = tvec /\ epc = hart.pc /\ previous = hart.privilege

RisesOnlyByTrap ==
  hart'.privilege > hart.privilege =>
    \/ /\ hart'.privilege = PRIV_S
       /\ EnteredThrough(hart.csr.stvec, hart'.csr.sepc, hart'.csr.mstatus.SPP)
    \/ /\ hart'.privilege = PRIV_M
       /\ EnteredThrough(hart.csr.mtvec, hart'.csr.mepc, hart'.csr.mstatus.MPP)

PrivilegeRisesOnlyByTrap == [][RisesOnlyByTrap]_vars

\* The causes that tell which level was interrupted: raise_exception's caller
\* picks the ecall cause by privilege, and only S and U translate.
CauseFits(cause, privilege) ==
  /\ cause = CAUSE_USER_ECALL       => privilege = PRIV_U
  /\ cause = CAUSE_SUPERVISOR_ECALL => privilege = PRIV_S
  /\ cause = CAUSE_MACHINE_ECALL    => privilege = PRIV_M
  /\ cause \in {CAUSE_FETCH_PAGE_FAULT, CAUSE_LOAD_PAGE_FAULT, CAUSE_STORE_PAGE_FAULT}
       => privilege # PRIV_M

=============================================================================
