# emuriscv: a TLA+ verification project

emuriscv is a RISC-V (RV32IMA, Sv32) system emulator in C. `run_linux` builds a
machine, loads a firmware and a kernel into its memory and calls `emulate_op`
forever. There are no threads, and no interrupt is ever raised. What makes the
program hard is the state that one instruction leaves for the next: privilege
levels and their trap frames, faults that are recorded in one function and taken
in another, page tables that the walk itself modifies, reservations, and device
registers split in two halves.

Contents: 1 inventory, 2 the modules and the code, 3 the runs, 4 the proofs,
5 disagreements found, 6 what is not modelled, 7 what is left.

## 1. Inventory

| component | state | operations | interacts with |
|---|---|---|---|
| instruction loop (`cpu.c` `emulate_op`, `run_linux.c` `run_linux`) | `pc`, `instruction_counter`, `pc_history` | one call: fetch, handler, pending check, counters | every handler; memory for the fetch; traps |
| traps (`cpu_exception.c`, `cpu_prv.c`, `cpu_ecall.c`) | `privilege`, `pending_exception`, `pending_tval`, `has_pending_exception`, trap CSRs | `raise_exception`, `ecall`, `mret`, `sret`, `uret`, `wfi` | reads CSRs; `ecall` reads memory to trace file names and opens the monitor |
| CSR file, Zicsr (`csr.c`, `cpu_csr.c`) | `csr[4096]` | `read_csr`, `write_csr`, six instructions | satp steers translation, mstatus the returns; the epilogue overwrites time and cycle |
| memory (`memory.c`) | none of its own; writes page tables | `translate_address`, `get_memory_target`, sized reads and writes | memory map; satp; leaves faults pending; calls devices |
| A extension (`cpu_a.c`) | `load_reservation` | AMOs, `amoswap`, `lr`, `sc` | memory twice in one instruction |
| integer, branch, M instructions (`cpu.c`, `cpu_m.c`, `decode.c`) | `x[32]`, `pc` | one function each | none |
| memory map (`memory_map.c`) | table of 32 ranges | `cpu_register_ram`, `cpu_register_device`, `get_phys_mem_range` | memory, devices |
| CLINT (`clint.c`) | `timecmp`, clock = `cycles` | read, write | clock follows `instruction_counter`; never raises its interrupt |
| HTIF (`run_linux.c`) | `htif_tohost`, `htif_fromhost` | read, write, `htif_handle_cmd` | console, power off |
| UART (`run_linux.c`) | `uart_reg[7]`, `uart_skipped` | read, write | console |
| boot (`run_linux.c`, `fdt.c`) | RAM contents | load firmware and kernel, build device tree, boot stub | memory map |
| monitor, save and load (`monitor.c`, `loadsave.c`) | none of its own | dumps, writes, step, save, load | translates addresses, calls `emulate_op` |
| symbols, disassembler, debug, tests, tools | tables | printing | none |

How they interact. `emulate_op` calls `get_memory_target` for the fetch, keeps a pointer
to the instruction in RAM (`cpu.c:424`), adds 4 to `pc` and calls one handler. A handler that touches
memory goes through `read_common` or `write_common`, which translate, look up the
range and reach RAM or a device callback. A translation that fails returns a
status and *also* writes the three `pending_*` fields of `State`; handlers mostly
ignore the status, and the epilogue of `emulate_op` takes whatever is pending.
`ecall` takes its trap directly, before the epilogue. Device callbacks run
inside the instruction that touches them. The monitor runs between two
instructions, and inside one when a traced system call opens it.

What is hard, and what makes each part correct:

* **Traps.** Nested traps, delegation, and returns that a guest may execute at
  any level. Correct when a frame survives until its return, a return resumes
  what was interrupted, and privilege rises only at a configured vector.
* **The loop.** A step can end in five ways (normal epilogue, epilogue with a
  trap, failed fetch that skips the epilogue, process exit, crash). Correct when
  no fault outlives its instruction and the clock CSRs agree with the counter on
  every path.
* **Translation.** The walk reads memory that the guest, and the walk itself,
  write; superpages, pointers at the last level and tables outside every range.
  Correct when the flags record every access, a store reaches only what is
  mapped, and a faulting load or store can be executed again.
* **A extension.** Two accesses in one instruction, either of which may fault; a
  reservation with an initial value that is a legal address. Correct when one
  trap follows, `rd` is kept on a fault, and `sc` succeeds only after its `lr`
  and its store.
* **CSR instructions.** `rd` and `rs1` may be the same register, and the order
  of the write of `rd` and the read of `rs1` differs between the six.
* **Devices.** 64-bit registers written in halves, a command that executes on
  one of the two stores, a register array indexed by an offset. Correct when a
  64-bit value that a guest stores in the documented order is what the device
  holds, and no access leaves the device's registers.
* **Memory map and boot.** A table with a limit that one of its two
  registration functions checks; images placed at fixed addresses.
* **Monitor, save and load.** Observation that changes what it observes (a dump
  translates), and a snapshot that leaves the devices out.

`PROJECT.json` lists the hazards one by one, each at its line, with the properties
that cover it or the reason that none does.

## 2. The modules and the code

| module | models | extends |
|---|---|---|
| `Traps` | `raise_exception`, returns, prologue and epilogue, as functions from hart to hart | - |
| `Privileged` | `emulate_op` seen from the privileged architecture; registers and memory are choices | `Traps` |
| `TrapFrames` | `Privileged` with a history of what each trap interrupted | `Privileged` |
| `Sv32` | `translate_address` and the physical accesses it makes; the meaning of page tables | - |
| `Hart` | `emulate_op` with registers, memory, walks, loads, stores and the A extension | `Privileged`, `Sv32` |
| `HartHistory` | `Hart` with a history of the accesses made through each page-table entry and of reservations | `Hart` |
| `AtomicCsr` | abstract: what the comments of `cpu_csr.c` promise, one exchange of a register and a CSR per instruction | - |
| `Zicsr` | the six handlers of `cpu_csr.c`, with the order of their reads and writes | `AtomicCsr` |
| `IrqSections` | a guest that nests critical sections with these instructions | `Zicsr` |
| `MemoryMap` | the five registrations of `initialize_riscv_machine`, the lookup, the offset | - |
| `DeviceIo` | register accesses of HTIF, CLINT and UART, as functions on the machine | - |
| `VirtualMachine` | the one machine that these functions read and write (a variable, no steps) | `DeviceIo` |
| `Devices` | physical accesses through the map to RAM, devices and nowhere | `VirtualMachine`, `MemoryMap` |
| `Console` | abstract: what is asked is shown once and in order | - |
| `HtifDriver` | a guest's console driver on the HTIF registers | `VirtualMachine`, instance of `Console` |
| `ClockDriver` | a guest that reads the clock and sets the comparator by halves | `VirtualMachine` |
| `Monitor` | the monitor inside a traced futex call; its commands, save and load | `Privileged` |
| `DeviceTree` | abstract: the tokens a reader of a tree meets | - |
| `Fdt` | `fdt.c`'s builder: cell table, string table, output layout; the reader | - |
| `MachineTree` | the calls of `riscv_build_fdt`, in order, with their arguments | `Fdt`, `MemoryMap` |
| `Boot` | `load_bios_and_kernel` from the two files to the firmware's first instruction | `MachineTree` |
| `BootChecks` | what the boot promises the firmware | `Boot`, instance of `DeviceTree` |
| `Decode` | masks, matches and immediates on 32-bit words | - |
| `Alu` | what integer, branch and M instructions compute, on words of XLEN bits | - |
| `Datapath`, `DatapathLaws` | fetch of a word, dispatch, one computation and its counterpart; the laws they owe each other | `Alu`, instance of `Decode` |
| `HartClaims` | what comments in the source promise of the hart and the code does not do | `HartHistory` |
| `*Proofs` | theorems; `DeviceProofs` holds those of `Devices`, `HtifDriver` and `ClockDriver` | the modules they are about |
| `MC*` | values for TLC | |

How the modules compose. `Hart` joins the trap code and the walk: it is the one
step of the program in full. `Monitor` puts an actor inside that step. `Devices`
joins the memory map and the device handlers behind one physical access; the
drivers are guests in front of them. `Boot` joins the memory map's addresses, the
tree builder and the files. `Datapath` joins decoding and computation.

**State.** `hart` is `*state`: a record whose fields carry the names of `struct
State`. `csr` is indexed by name; only CSRs that the code reads or writes itself
are fields. `mstatus` is the record of the bits the trap code uses, plus `SUM`
for all others, which the code only carries along. `medeleg` is a set of causes,
`satp` a mode bit and a page. `exit_code` records how the process ended (`exit`
with a code of `exit_codes.h`, or `"crashed"` for a dereferenced NULL or wild
pointer). `Hart` adds `x`, `mem` (the RAM ranges) and `load_reservation`.

**Words.** pc, epc, tval and counters are in `0 .. WordSize - 1` and wrap in
`Plus` and `Minus`; WordSize is 2^32 in the program and any number of at least 16
in the proofs. In `Sv32`, an address is split into two table indices and a word
index, and a physical page is a pair of indices, so that the masks and shifts of
the walk select components; `Entries` (1024 in the program) is the size of a
table in entries and of a page in words. `Split` and `Join` connect the two.

**One step is one `emulate_op`.** The parts of the step:

| code | definition |
|---|---|
| fetch, `pc += 4` | `Fetchable`, `Fetched` (`Privileged`); `Fetches`, `FromRam` (`Hart`) |
| fetch fails, `goto exception` | `FetchPageFault`, `FetchUnmapped`; `HartFetchFails` |
| code in a device range (its `phys_mem_ptr` is NULL) | `DeviceFetch`; `HartFetchCrashes` |
| handler | one action per outcome: `Plain`, `Jump`, `CsrWrite`, `LoadPageFault`, ...; in `Hart` one per instruction kind: `Load`, `Store`, `Amo`, `amoswap_w`, `lr`, `sc`, ... |
| `if (has_pending_exception)`, counters | `TakePending`, `Count`, together `Retire` |
| `exit(...)` in a handler | `MretRefused`, `SretRefused`, `Wfi`, `UnknownInstruction`, `PowerOff` |
| NULL range in `read_common`, `write_common` | `UnmappedAccess`; `Crashed` |

Three points where the code differs from what a reader of the RISC-V manual
expects, and where the model follows the code:

* `raise_exception` computes the new mstatus from `state->status`, the run
  status of the emulator, not from the CSR. `StatusWord` is that value: RUNNING,
  which is 0.
* `read_word_physical` and `write_word_physical` ignore the result of the range
  lookup. Outside every range they use an uninitialised pointer. The model
  lets the read give any word of `Contents`, the write change any word of RAM,
  and either crash the process.
* A walk that ends at a pointer in the last table returns TRANSLATE_OK with the
  physical address unset; the model lets it be any address.

**CSR instructions.** A CSR and a register are sets of bits. Each action is one
handler with its reads and writes in the order of the code; where `rd` is
written first, the later read uses the new register (`after`). `AtomicCsr` is taken
from the comments alone: rd gets the CSR of before, and the CSR is replaced (`csrrw`,
`csrrwi`), gains bits or loses bits. `BreaksPromise` says exactly when a handler does
something else to the CSR: `csrrwi` unless both words are empty, and `csrrs` and `csrrc`
with one register as `rd` and `rs1` whenever the register's value would have made a
difference.

**Devices.** Addresses are the real ones, counted in words. A 64-bit register is
the record of its halves, a half has four bytes of `ByteSize` values (256 in the
program), so that `TopByte`, `SecondByte` and `LastByte` are the shifts and masks of
`htif_handle_cmd`. `StoreLow` drops the high half, because the mask `~0xffffffff`
is an `unsigned int`; `StoreHigh` keeps the low half. The UART's array is indexed
by the offset; past its end the store is undefined: it ends the behaviour or does
nothing that is seen.

**Monitor.** `depth` is the number of monitors open, each inside an `ecall` that
has advanced pc but set no cause. A dump is what it leaves in `pending_*`. `StepOnce`
is one `emulate_op` (`Next` of `Privileged`), and `StepIntoMonitor` one that meets
another futex call. `Load` replaces `hart` by the file, and `vm->cycles` is a
variable of its own because the file does not have it. `Quit` finishes the
interrupted `ecall` on the hart *as it is then*.

**Boot.** One action per stage: missing file, firmware, kernel, one call of the
tree builder per step (`called` indexes `BuildCalls`), output, the debugging copy
of the tree, stub, and the stub's five instructions one by one. A cell of the
tree is a number, an address in RAM or the i-th cell of a text; sizes and offsets
are the real ones. `Word` splits an address at bit 12, as `auipc` and `addi` do.

**Datapath.** `Decode` works on the 32 bits of a real instruction, with the masks
and matches of `opcodes.h`. `Alu` is parameterised by the length of a word, since
nothing in these handlers but the constants of a shift amount (`ShamtField`)
depends on it. A step computes an instruction and its `Counterpart` on the same
operands, so that a law relates two handlers. `and`, `or` and `xor` are sums over the
bits of a word (`BitByBit`), so that the provers can reason about them.

**Refinements.** Three abstract specifications, each with the detailed one shown
to implement it:

| abstract | detailed | mapping |
|---|---|---|
| `Privileged` (`Spec`) | `Hart` | identity on `hart` and `exit_code`; `Privileged` chooses whether an access faults, `Hart` computes it from tables in memory |
| `Console` (`ShowsWhatIsAsked`) | `HtifDriver` with `DeviceIo` | asked is the driver's request, shown the console's output, off the exit code |
| `DeviceTree` (`BuildsATree`) | `Boot` with `Fdt` | told is what the reader parses out of the two tables after each call |

An AMO makes two walks, either of which may leave a fault; `Privileged` promises
that one trap follows, with the cause and the address of the last fault. A
character of `Console` is shown in one step, where the driver needs four or
more. A token of `DeviceTree` is one builder call, where the reader has to find
its end by lengths, paddings and name offsets.

A fourth, `AtomicCsr`, is *not* implemented by the code. The run `csr_promise` shows a
handler that breaks it; `OnlyKnownBreaks` says step by step which handlers keep it.

**History.** `TrapFrames` and `HartHistory` add variables that the program does
not have; `Devices`, `ClockDriver` and `Monitor` have one or two (marked "history" at
their declaration). They are computed from the state before the step and from
the meaning of the tables (`Mapping`, `Target`), never from the function they are
there to check, and they restrict no step.

## 3. The runs

Runs that pass:

| run | checks | bounds | distinct states |
|---|---|---|---|
| `trap_frames` | `TypeOK`, `NothingPending`, `CountersAgree`, `PrivilegeRisesOnlyByTrap`, `MachineFrameIntact`, `SupervisorFrameIntact`, `ReturnsResumeInterrupted` | WordSize 20, MaxInstructions 9 | 1.1 million |
| `hart` | `Spec` (refinement), `FlagsRecordAccesses`, `ReservationLinked`, `StoresStayInMapping`, `PlainFaultsRestartable` | Entries 2, WordSize 32, MaxInstructions 6 | 25 thousand |
| `zicsr` | `OnlyKnownBreaks`, `CsrTypeOK`, `MaskedInside`, `LeaveRestores` | 2 bits, 3 registers, 2 CSRs; no bound on the guest | 7 thousand |
| `devices` | `TargetInside`, `CommandsDoNotMix`, `OutputOnlyByCommand` | real addresses, bytes of 2 values, MaxOutput 2 | 14 thousand |
| `htif_driver` | `ShowsWhatIsAsked` (refinement), `RequestsServed` (liveness) | bytes of 3 values, MaxOutput 4 | 1 thousand |
| `clock_driver` | `TimeNotTorn`, `AlarmIsDeadline` | bytes of 2 values, so that the counter wraps at 16; MaxCounted 36, Delta 5 | 2 thousand |
| `monitor` | `NothingPendingOutside`, `ClockFollows`, `LookingChangesOnlyTval` | MaxDepth 2, MaxInstructions 4 | 314 thousand |
| `boot` | `BuildsATree` (refinement), `TablesHoldTheirContents`, `OutputIsWellFormed`, `TreeIsConsistent`, `DescribesTheMachine`, `ImagesLieApart`, `TreeFitsLowRam`, `StubHandsOver` | real addresses and sizes, 6 firmware and 4 kernel sizes | 789 |
| `datapath` | `OneHandler`, `ImmediatesFollowFormats`, `ProductsAreExact`, `DivisionsAgree`, `ImmediatesAgree`, `IntegersCohere` | XLEN 4, all pairs; encodings with up to 2 operand bits | 20 thousand |

*`trap_frames`* has an address space of five instructions, so that pc, epc and tval
wrap, with RAM at 0, 4 and 8, no range at 12 and a device at 16. Its guests are
long enough to set up the vectors and delegation, drop to U, trap into S, trap
from there into M and unwind both. The guest may also delegate machine ecalls
(which the code must ignore), enable Sv32, rewrite `sepc`, and set TSR. Every
cause that the code can raise occurs.

*`hart`* has two entries per table and two words per page: the smallest size at
which an index can be wrong. There are four physical pages: two of RAM, one in no
range, one device. The root table holds a pointer and a superpage over both RAM
pages, so the guest can store to its own page tables. `Contents` holds a leaf and
a pointer to the page outside every range. Firmware instructions (the first three)
enable Sv32 and drop to S; the rest are free. `DataAddresses` are three aligned
word addresses: in a last-level page, behind a last-level entry that starts
invalid and that the guest may turn into a leaf or a pointer, and in the
superpage. Registers are x0 and x1, and the file name of a traced system call is
one word.

*`zicsr`* has every instruction of the six in every combination of three
registers, one of them x0, two CSRs and the immediates of one bit; two bits tell
a bit that an immediate reaches from one that it does not. Two registers allow
two sections to nest. No combination is left out: `csrrs` and `csrrc` with `rd = rs1`
and `csrrwi` are in the program, and `OnlyKnownBreaks` fails as well if one of them keeps
its promise where `BreaksPromise` says that it does not. `csr_promise` is the
same guest.

*`devices`* accesses the first and last word of each range and the words before
and after them; the guest's stores include every word that the handlers tell
apart. Two characters of output are enough for a command to be
repeated, interrupted and mixed with another. *`htif_driver`* needs three values in
a byte so that a character, the power-off word and the command codes differ, and
four characters so that requests follow each other.

*`clock_driver`* has a 32-bit counter of 16 values and lets it wrap twice, at every
point between the guest's loads; a `Delta` of 5 carries into the high half of the
deadline from some times and not from others. The high half of the time itself is always 0,
because `vm->cycles` is a copy of the 32-bit counter: the guest's retry never happens, and
`TimeNotTorn` says that the low half is one the clock had, also across a wrap.

*`monitor`* lets a second monitor open inside the first, a file be saved in one and
loaded in the other, and the outer one be left on a hart that came from a file.

*`boot`* takes files that are empty, of one byte, of a superpage, of all of RAM,
and one byte around these; these are the places where `ImagesLieApart` or the
placement could go wrong, and the proof in section 4 covers every other length.
The tree is the real one, call by call.

*`datapath`* runs every pair of four-bit words through every instruction: four is
the least power of two for which both halves of a shift amount exist. For each
instruction it builds the word with each set of at most two operand bits set,
which reaches every bit of every immediate, alone and with the sign bit.

Each property has a mutant in `PROJECT.json`, a plausible bug of the code under
which TLC finds it violated within these bounds.

Runs that end in a counterexample check one promise of a comment each; section
5 lists them.

Deadlock checking is off where the process may exit or a bounded guest stops, that
is everywhere but in `zicsr`.

**Fairness.** `htif_driver` assumes weak fairness of `DriverStep`, the driver's own
instructions between a request and its last store. `run_linux` calls `emulate_op`
in a `for (;;)` with no other thread and no interrupt, so the next instruction of
the only running program is executed; `AskFor` and `Poll`, which the driver's
caller decides, have no fairness. `RequestsServed` then rests on
`htif_handle_cmd` emptying tohost. All other properties are safety properties and
need no fairness.

## 4. The proofs

All theorems hold for every value of the constants. The assumptions on them are
`WordSizeAssumption` (at least 16, so that a word holds every cause),
`TableAssumption`, `PrivilegedAssumption` (the constants are words, guests write
values of the CSR's type), `Sv32Assumption` (device and RAM pages are disjoint
sets of pages), `HartAssumption` (the word addresses of `Privileged` are those
of `Sv32`), `CsrAssumption`, `ByteSizeAssumption` (a byte has at least two values),
`NothingAssumption`, `MonitorAssumption`, `SizesAssumption` (lengths are natural
numbers), `GuestAssumption` (a guest uses addresses and stores words),
`ClockAssumption`, `XlenAssumption` (a word has at least two bits),
`TextsAssumption` (the texts of the device tree are strings of at most 63
characters, none of them the reader's mark for garbage) and `NamesAssumption` (the
names that `sprintf` makes of a name and an address, and the path of the console, as
they are spelled out). These last two have no parameter; they are assumptions because
the length of a text that is written out and what two texts are together are facts TLC
computes and the provers do not. TLC evaluates all of them.

| theorem | establishes |
|---|---|
| `TypeCorrectness` | `Spec => []TypeOK` |
| `NothingStaysPending` | no fault survives its instruction |
| `ClocksNeverDisagree` | time and cycle read as `instruction_counter` |
| `RisesOnlyByTraps` | a step that raises the level enters at a vector and records pc and level |
| `FramesIntact`, `SupervisorFrameStaysIntact` | machine and supervisor frames survive until their return |
| `ReturnsResume` | mret and sret with a live frame resume what was interrupted |
| `Refinement` | `Hart` implements `Privileged` |
| `HartIsSound` | the properties of `Privileged` hold for `Hart` |
| `ReservationsAreLinked` | a reservation is the latest lr's, or the 0 of a zeroed `State` |
| `FlagsAlwaysRecord` | entries that nobody rewrote have A after every access and D after every store through them |
| `StoresAreConfined` | translated code changes mapped words, and gives flags to entries it used |
| `FaultsAreRestartable` | a plain fetch, load or store that faults has changed nothing but flags |
| `CsrTypes` | the register and CSR files keep their shape and x0 stays zero |
| `PromisesBrokenAreKnown` | every CSR instruction hands out the CSR of before, and keeps its comment's promise but in the cases of section 5, for every program |
| `SectionsMask` | interrupts stay masked from the first entry of nested sections to the last exit |
| `SectionsRestore` | leaving a section puts back the enable bits of its entry |
| `LookupsStayInside` | the lookup finds the one range that has an address, and the offset lies in it |
| `CommandsNeverMix` | tohost never holds parts of two commands, or one that is done |
| `OutputIsCommanded` | characters and power-off come only from a complete command or a UART store |
| `DriverIsConsole` | driver and HTIF registers implement `Console` |
| `TimeIsNeverTorn` | the time a guest reads by halves is one the clock had while it read |
| `AlarmIsSet` | after its two stores the comparator holds the guest's deadline |
| `NothingLeaksOut` | outside the monitor nothing is pending |
| `ClocksMeetAgain` | outside the monitor `vm->cycles`, the counter and the clock CSRs agree |
| `LookingIsHarmless` | a monitor session that only looked changes nothing but a trap value |
| `KernelPastFirmware` | firmware and kernel lie apart, for files of every length |
| `StubEntersFirmware` | the stub enters the firmware with a0 and a1 set |
| `TablesAreLargeEnough` | the tree builder never writes past its two tables |
| `TreeIsWellFormed` | nodes are balanced, names are unique, the blocks of the output lie aligned and apart |
| `TreeStaysInLowRam` | the tree ends below the end of low RAM |
| `BuildsReadableTree` | the builder's tables implement `DeviceTree`: a reader finds one token per call |
| `CallsReadBack` | each token that is read is that of its call: name, node and the cells or texts passed |
| `TreeDescribesMachine` | RAM, CLINT, UART and kernel are in the tree where they are in the machine |
| `TreeFitsTogether` | every `reg` fits its bus and its node's name, and every reference leads to a node |
| `ExactProducts` | mul, mulh, mulhu, mulhsu together give the exact product |
| `DivisionsBelongTogether` | quotient and remainder belong together, also for a zero divisor and on overflow |
| `ImmediatesMeanRegisters` | an immediate instruction computes what its counterpart does on a register |
| `IntegersAreCoherent` | comparisons and branches agree with differences, sums with the bits |
| `HandlersAreUnique` | no word matches the masks of two handlers: the order of the `INS_MATCH` chain decides nothing |
| `ImmediatesOfFormats` | `decode.c`'s immediates are those of the instruction's format |

**`PrivilegedProofs`.** The inductive invariant is `Inv`: `TypeOK`,
`NothingPending` and `CountersAgree` together. `NothingPending` is needed by the
others: without it, the cause that a failed fetch passes to `raise_exception`, and
the value an `ecall` passes, could be anything. The first part has one lemma per
operator of `Traps` that states its type and the fields it keeps, so that each
action is one citation. `RisesOnlyByTraps` combines `Inv` with
`TrapActionTraps` (a trap action is a `raise_exception` of a cause that fits the
interrupted level) and `QuietActionKeepsContext` (every other action keeps the
level); the returns are excluded because mret starts in M and sret, whose target
is S or U, starts in S or M.

**`TrapFramesProofs`.** `MachineFrameIntact` is not inductive: `sret` in M is
allowed when TSR is set, and would leave the handler without its mret. `FrameInv`
adds that TSR is clear while a machine frame is live. It holds because of the
very bug of section 5: a trap writes an mstatus with TSR clear, and only a
rewrite of mstatus, which ends the frame, sets it again. A reader who repairs
`raise_exception` must repair the TSR check with it.

**`HartProofs`.** `Refinement` shows HartSpec => Spec: `FetchLands` turns a walk that
ends in RAM into `Fetchable`, `AccessFaults` a walk that faults into `Translating` and
an address of `FaultAddresses`, `LeftByIsNext` and `TwoAccessesIsNext` turn an
instruction with one or two accesses into one action of `Privileged`. `Inv` is
used here too. With it, `HartIsSound` carries the four theorems of
`PrivilegedProofs` over to the detailed hart.

`ReservationsAreLinked` needs no strengthening: it is inductive over `HistoryNext`
because `lr` is the only action that sets a reservation and sets `linked` with it,
and every `sc` clears both.

The three theorems about page tables hold for every table size, memory and program.
`WalkArrives` is where the walk of `Sv32` and the meaning of the tables meet: a walk
that is defined by the tables sets the flags of exactly the entry `Mapping` names, in
the memory it leaves, and lands where `Target` says. `SameMeaning` says that flags do
not change what tables mean, so that `OneMoreAccess` can add the accesses of
one instruction one by one, although each of them walks tables that the one
before has changed. `Effect` is what an instruction as a whole does to memory
and history; `StepEffect` proves it for every action of `Hart`. `FlagsInv` is the
inductive invariant: `FlagsRecordAccesses`, with the words of memory well typed
and the history within RAM. The case that needs care is a store that goes
through an entry and rewrites it: the entry leaves `used` and
`stored` in the same step. All three say nothing of what an undefined walk has done
(`wild`: a pointer at the last level, a table outside RAM), after which no word of
RAM is known. `FaultsAreRestartable` excludes steps that completing the
instruction could have produced as well, since nothing in the state tells
the two apart; a page fault whose handler is the next instruction, with the same
cause and frame already there, is one.

**`ZicsrProofs`.** The type invariant is inductive by itself. Each handler is
compared with its promise, with one case for `rd = x0`, where the handlers skip a
read, and one for an empty immediate that makes them skip the write. `StepBreaksOnlyKnown`
has one case per handler and no hypothesis on the program: for `csrrs` and `csrrc` it computes
the mask of a handler whose `rd` is also its `rs1`, and for `csrrwi` when clearing and
storing the immediate come to the same. `SameWrite` turns equal CSR files into equal words.
`SectionInv` carries the critical sections: every open section has a register of its
own, which still holds the enable bits of its entry, and only the outermost
section can have found any. The last part is what lets `Leave` restore
without opening the sections around it. No bound on registers or depth is assumed.

**`DeviceProofs`.** Three invariants, one per guest. `DevicesInv`: the map is a
prefix of the registrations, tohost's low half is what the guest stored last, and its high
half is no command that HTIF should have carried out. `MapWellFormed` says that every
prefix of the registrations has ranges that lie apart and do not wrap, and
`LookupFindsRange` that in any such map the first match of `get_phys_mem_range` is the only one. `DriverInv` says that tohost is empty
except between the driver's two stores, where it holds the request's low word and no high
one. This is what lets the driver's wait end and the high word be the whole command.
`CommandFacts` computes the driver's words back into device and command for every
byte size; `SecondStore` is the one step that the console sees. `ClockInv` has two
parts that carry its theorems: the low word that was read is the counter's value at some
instruction since the read began, and between the two stores the comparator has the
deadline's low half and an empty high one. `TimeNotTorn` then needs that the high half
of the clock is always 0, which is what the code gives (`mtime` is a 32-bit counter).

**`MonitorProofs`.** `Inv` of `Privileged` is false inside a monitor, where a dump
leaves a fault. `MonitorInv` uses `Settled` instead: a hart has a fault to take or
nothing pending at all, never half of one. A saved file is settled too, so `Load`
keeps it, and every `ecall` that a monitor returns to clears whatever there is.
`OnlyLooked` is the invariant behind `LookingIsHarmless`: while a session has written,
stepped and loaded nothing, there is one monitor, and its hart is that of the entry
but for what is pending. `EcallsAlike` then compares the two ecalls.

**`BootProofs`.** The placement is arithmetic on the rounded length of the
firmware, proved for all lengths. `StubInv` says that the stub is at one of its
words or has handed over, with what t0, a0 and a1 are before each word (`AtWord`);
`StubStep` has one case per word, and the case of `addi`'s sign extension is the one
that reaches `fdt_addr`.

The tree theorems hold for every firmware and kernel length. Their invariant is `TreeInv`,
and it has two halves. `Built` speaks of the tables after k calls: they hold their contents,
names are unique, and there are positions and paths at which a reader takes the
first k tokens one after the other and is then at the end of the table
(`ReadsAs`). Such a reader is what `Tokens` computes (`ToldBy`). One lemma per call of
`fdt.c` (`BeginBuilds`, `EndBuilds`, `PropertyBuilds`) shows that the cells it adds are read as
its token; that the tokens before stay what they were is `TokenStable` and `ReadOn`,
which need that a name already in the string table keeps its offset (`StringKept`).
`Leads` speaks of the calls still to come: they go from open node to open node, the root
is opened first and closed last, and in between a node is always open. `Runs` builds this
up along `riscv_build_fdt`, function by function, and counts: at most `MostCalls` calls,
each of at most `MaxCells` cells and 64 bytes of names. The counts give the bound on the
output that `TreeStaysInLowRam` needs, and the balance is the assertion of
`fdt_output` that is commented out. `TreeInv` itself is not evaluated by TLC, because it quantifies
over functions on all numbers; the properties it proves are checked by the run `boot`.

That the tree is readable says nothing of what is read, so `TreeInv` also carries the
tokens themselves. `Meant` is the token a call stands for inside the open nodes; `Says`
keeps that the tokens so far are those of the calls so far, which is `CallsReadBack`;
and `Written`, also built up by `Runs`, says that the tokens of all calls are those
of `MachineTold`: the nodes of the machine, each with its properties. From there the two
theorems about the finished tree are about a set of some thirty properties.
`ToldProperties` and `SaysAt` sort them by node, and one lemma per node (`RootTells` to
`ChosenTells`) says which values its properties have. `WhoTells` is the part that
`TreeFitsTogether` needs of the tree as a whole: who has a `reg`, who owns a handle
and who refers to one. `CellsSaid`, `RegsSaid` and `ChosenSaid` say what a lookup
by path and name finds, and `RangesByName` says the same of `Registrations`.

**`DatapathProofs`.** `DatapathInv` says that a fetched word is a match of some pattern
with bits outside that pattern's mask, and that what a step leaves in `rd` and `twin` are
the results of its handler and of the counterpart on words. The theorems are then lemmas
about `Alu`, for every word length: signed and unsigned readings of a word differ by a
multiple of the modulus; a product of two words has a high half below the
modulus; a quotient and a remainder are determined by their sum. What is defined by
recursion on the bits (`2^n`, `BitByBit`) is handled without the induction theorems that
take an operator: `SetInduction` derives induction over a *set* of numbers from
`NatInductiveUnique`, and powers of two come from the number of subsets of a finite set.
`ImmediatesOfFormats` is about the 32 bits of a real word; its lemma
`FormatsFollowed` holds for all 2^32 words. `HandlersAreUnique` is not a comparison of
each of the 67 patterns with every other: five fields of a word (opcode, funct3, funct7, the
five high bits and the bits of `rs2`) decide. `OpcodeOf` to `Funct7Of` say that a field
which a mask covers is the field of the match; `RegistersApart` to `AtomicsApart`, that
within a group of encodings the fields its mask covers tell the instructions apart, and
across groups the opcode and funct3 do; `MatchSays` and `SaysOne` put them together for
`OneMatch`, which holds for all 2^32 words. `Fetched` and `MatchInMask` give the
other half: no pattern asks for a bit outside its mask, so each handler can be reached.

**Only model-checked.** One property: `RequestsServed`. Liveness under fairness is out
of the proof system's reach. Every invariant and every action property of the passing runs,
and all three refinements, are theorems.

The counterexamples of section 5 are TLC's.

## 5. Disagreements found

Three have a run that ends in a counterexample:

| run | the code | what the source says |
|---|---|---|
| `csr_promise` | csrrwi clears the bits of its immediate (`Zicsr!csrrwi`) | `cpu_csr.c:56`: "instead of rs1 use a zero-extended 5-bit unsigned immediate" |
| `last_level` | a walk that ends at a pointer succeeds, with no address set | `memory.c:142`: "raise page fault" |
| `fault_rd` | lr and the AMOs write rd after a page fault | `cpu.c:209`: "abort and don't write RD" |

The others are differences between a comment and the line under it. The models
follow the code, and no run of their own is spent on them:

| the code | what the source says |
|---|---|
| a trap replaces mstatus by a value computed from the run status: the enable bit is not saved, SUM and every other field are lost (`Traps!StatusWord`) | `cpu_exception.c:37`: "mstatus update" |
| sret in S with TSR set ends the emulator (`Traps!SretPermitted`, `Privileged!SretRefused`) | `cpu_prv.c:44`: "will raise an illegal instruction exception" |
| sret in M with TSR clear ends the emulator (`Traps!SretPermitted`) | `cpu_prv.c:11`: an xRET "can be executed in privilege mode x or higher" |
| mret copies MPIE to MIE whatever level it returns to (`Traps!PopMachine`) | `cpu_prv.c:14`: "yIE is set to xPIE" |
| an sc to address 0 succeeds with no lr before it (`Hart!sc`; `ReservationLinked` has the exception) | `cpu_a.c:75`: "if reservation still exists on the address" |
| an sc whose store page-faults reports success (`Hart!sc`) | `cpu_a.c:72`: "a nonzero code on failure" |
| amoswap with rd = rs2 stores the loaded value back (`Hart!amoswap_w`) | `cpu_a.c:12`: "the original value in *rs2*" |
| csrrs and csrrc with rd = rs1 use the old CSR as their mask (`Zicsr!csrrs`; `BreaksPromise` has the cases, and `OnlyKnownBreaks` checks that the code is wrong in them and in no others) | `cpu_csr.c:13`: "any bit that is high in rs1" |
| sltiu compares without sign (`Alu!sltiu`, `ImmediatesAgree`); `cpu.c:339` and `test/sltiu.s` say the same | `cpu.c:341`: "when both are treated as signed numbers" |

Things the models show that no line contradicts: a dump in the monitor changes the trap value
of the ecall that follows (`LookingChangesOnlyTval` is stated with that exception);
the trap taken after a stepping session names the instruction the hart is at then;
`vm->cycles` stands still while the monitor steps; `step` without a count does
nothing.

## 6. What is not modelled, and why

Inside the modelled parts:

* `pc_history` is written on every step and read only by the monitor's listing;
  `print_verbose` translates pc once more before each step, for printing.
* What a load, a store, an AMO or a jump computes is a choice in `Hart`: `Compute` and
  the AMOs choose a word of `Contents`. The computations are in `Alu`.
* Words that are not aligned, and accesses that cross a page (`memory.c:9`): `Hart`
  accesses aligned words. Sub-word accesses share the walk and the fault path. A
  byte or halfword load from a device register returns its whole word
  (`memory.c:261`); `Hart` lets a device read be any word.
* The two high bits of a 22-bit page number, which the shift by 12 loses, are
  not part of the model's page numbers.
* The walk checks no permission bit and no U bit, and no comment or test
  promises that it does; `StoresStayInMapping` is stated for mappings of any
  permission.
* `Hart` does not contain `Devices`: there a device read gives any word, and a device
  write changes nothing but may power off. Both use the same lookup.
* A kernel that reaches past RAM (`run_linux.c:162`) and a store past the UART's array
  (`run_linux.c:285`) are undefined outcomes; a failing
  `fopen` for the copy of the tree (`fdt.c:467`) crashes the boot. The range table's
  missing limit check (`memory_map.c:10`) is not reachable with five registrations.
* The byte order of the tree's cells, allocation failures, and short reads of a
  saved file.
* `reset_mip`, which `clint.c` calls, is not defined in the repository;
  `riscv_load_fdt` is not in the build.
* The monitor's printed output. `get_symbol` returns the entry before the last one
  for addresses past it (`run_linux.c:197`), which only printed text shows.
* The other branches of the system-call trace end in `getch()`, which waits for a
  key and changes nothing here.

Whole components: the symbol table, system-call names, disassembler and debug
output (tables and printing, with no state that anything else reads), the test
harness and the SBI callback (compiled in only with `RUN_TESTS`), the generators and
tools (scripts that are not part of the program).

## 7. What is left

1. `Hart` with `Devices` behind `DevicePages`, as an implementation of `Hart`; accesses
   that are not aligned, by bytes.
2. Progress of a guest kernel that handles its page faults, under weak fairness of
   the loop.
