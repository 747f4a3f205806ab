------------------------------ MODULE Monitor ------------------------------
(***************************************************************************)
(* The interactive monitor inside the running hart.  It opens where the    *)
(* system-call trace of ecall meets a futex call, that is in the middle of *)
(* an instruction: the cause is set and the trap is taken only after it is *)
(* left.  Its commands read and write guest memory through the MMU,        *)
(* execute instructions, and save and load the machine, so an instruction  *)
(* stepped from the monitor can open another one.                          *)
(*                                                                         *)
(* Registers and memory are left out, as in Privileged: a dump or a write  *)
(* is what it leaves pending.  The file of save and load is the hart in    *)
(* it; RAM goes with it, the devices do not.                               *)
(***************************************************************************)
EXTENDS Privileged

CONSTANTS
  MaxDepth,    \* bound: monitors open at the same time
  NoFile       \* nothing was saved

ASSUME MonitorAssumption == MaxDepth \in Nat

VARIABLES
  depth,      \* monitors open, each inside an ecall
  cycles,     \* vm->cycles, the time of the CLINT
  file,       \* the hart in the saved file, or NoFile
  command,    \* the last command: "step" without a count, or any "other"
  entry,      \* history: the hart that the outermost ecall gave the monitor
  changed     \* history: a command of this session may change the machine

session == <<entry, changed>>
monitorVars == <<hart, exit_code, depth, cycles, file, command, entry, changed>>

MonitorInit ==
  /\ Init
  /\ depth = 0 /\ cycles = 0 /\ file = NoFile /\ command = "other"
  /\ entry = InitialHart /\ changed = FALSE

InMonitor == depth > 0 /\ Running

\* emulate_op as the loop of run_linux calls it.
Instruction ==
  /\ depth = 0
  /\ Next
  /\ cycles' = hart'.instruction_counter
  /\ UNCHANGED <<depth, file, command, session>>

\* A futex call from U, in run_linux's loop or in a step: ecall stops before it
\* sets the cause.
FutexEcall ==
  /\ Running /\ Fetchable
  /\ hart.privilege = PRIV_U
  /\ depth < MaxDepth
  /\ hart' = Fetched(hart)
  /\ depth' = depth + 1
  /\ UNCHANGED <<exit_code, cycles, file>>

OpenMonitor ==
  /\ depth = 0
  /\ FutexEcall
  /\ command' = "other" /\ entry' = hart' /\ changed' = FALSE

Command(name) == InMonitor /\ command' = name /\ UNCHANGED <<depth, cycles>>

Crash == exit_code' = "crashed" /\ UNCHANGED hart

\* regs, reg, bt with known pages, help, sym, and dumps whose pages are there.
Look == Command("other") /\ UNCHANGED <<hart, exit_code, file, session>>

\* x, p, d, dr, bt and xs: get_memory_target leaves a load fault for a page
\* that is not there; the loop goes on or breaks and nothing clears it.
DumpFaults(a) ==
  /\ Command("other") /\ Translating
  /\ hart' = PageFault(hart, CAUSE_LOAD_PAGE_FAULT, a)
  /\ UNCHANGED <<exit_code, file, session>>

\* read_word through a range that was not found; xs breaks before it, xp has no test.
DumpCrashes == Command("other") /\ Unmapped # {} /\ Crash /\ UNCHANGED <<file, session>>

\* w: a load translation, then the store's own, which overwrites what the first left.
WriteWord ==
  /\ Command("other")
  /\ UNCHANGED <<hart, exit_code, file, entry>> /\ changed' = TRUE

WriteFaults(a) ==
  /\ Command("other") /\ Translating
  /\ hart' = PageFault(PageFault(hart, CAUSE_LOAD_PAGE_FAULT, a), CAUSE_STORE_PAGE_FAULT, a)
  /\ UNCHANGED <<exit_code, file, session>>

\* step n calls emulate_op n times, and step without n does nothing.
StepOnce ==
  /\ Command("other") /\ Next
  /\ UNCHANGED <<file, entry>> /\ changed' = TRUE

StepIntoMonitor ==
  /\ InMonitor /\ FutexEcall
  /\ command' = "other" /\ changed' = TRUE
  /\ UNCHANGED entry

StepWithoutCount == Command("step") /\ UNCHANGED <<hart, exit_code, file, session>>

Save == Command("other") /\ file' = hart /\ UNCHANGED <<hart, exit_code, session>>

\* load reads the whole State back, except the memory map; fread from a file
\* that is not there gets NULL.
Load ==
  /\ Command("other")
  /\ IF file = NoFile THEN Crash ELSE hart' = file /\ UNCHANGED exit_code
  /\ UNCHANGED <<file, entry>> /\ changed' = TRUE

\* The rest of the interrupted ecall and of its emulate_op, on the hart as it
\* is now; only the outermost returns to run_linux, which copies the counter.
Resumed(s) == Retire(ecall(s))

\* Mutant of Quit: the instruction that the monitor interrupted does not count.
QuitWithoutCopy ==
  /\ InMonitor
  /\ command' = "other"
  /\ hart' = Resumed(hart)
  /\ depth' = depth - 1
  /\ UNCHANGED <<exit_code, cycles, file, session>>

Quit ==
  /\ InMonitor
  /\ command' = "other"
  /\ hart' = Resumed(hart)
  /\ depth' = depth - 1
  /\ cycles' = IF depth' = 0 THEN hart'.instruction_counter ELSE cycles
  /\ UNCHANGED <<exit_code, file, session>>

MonitorNext ==
  \/ Instruction \/ OpenMonitor
  \/ Look \/ DumpCrashes \/ WriteWord
  \/ \E a \in FaultAddresses : DumpFaults(a) \/ WriteFaults(a)
  \/ StepOnce \/ StepIntoMonitor \/ StepWithoutCount
  \/ Save \/ Load \/ Quit

MonitorSpec == MonitorInit /\ [][MonitorNext]_monitorVars

-----------------------------------------------------------------------------
\* Whatever was dumped, stepped or loaded in however many monitors, the loop of
\* run_linux only sees a hart with nothing pending: the ecall that follows takes
\* the pending fault with it.
NothingPendingOutside == depth = 0 => NothingPending

\* The guest's two clocks agree whenever run_linux executes an instruction,
\* although stepped instructions do not advance the CLINT and load turns the
\* counter back.
ClockFollows == depth = 0 => cycles = hart.instruction_counter /\ CountersAgree

\* The trap values, the only registers in which a fault left by a dump can show.
WithoutTval(s) == [s EXCEPT !.csr = [@ EXCEPT !.mtval = 0, !.stval = 0]]

Leaves == depth = 1 /\ depth' = 0

\* A session that only looks, and one whose writes fail, leaves the guest where
\* it would have been without it, up to the trap value of the ecall.  This is
\* about the hart: the accessed flags that the walk of a dump sets in the guest's
\* page tables (memory.c:113) are outside this module, which has no memory.
LookingChangesOnlyTval ==
  [][Leaves /\ ~changed => WithoutTval(hart') = WithoutTval(Resumed(entry))]_monitorVars

=============================================================================
