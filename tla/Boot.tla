-------------------------------- MODULE Boot --------------------------------
(***************************************************************************)
(* What run_linux does before the first instruction of the firmware:       *)
(* load_bios_and_kernel reads the two files into RAM, builds the device    *)
(* tree in low RAM call by call, writes the boot stub, and the stub's five *)
(* instructions run.  Sizes and positions are in bytes, those in RAM       *)
(* counted from RAM_BASE_ADDR.                                             *)
(***************************************************************************)
EXTENDS MachineTree

CONSTANTS
  FirmwareSizes,     \* lengths the firmware's file may have
  KernelSizes        \* lengths the kernel's file may have

ASSUME SizesAssumption == FirmwareSizes \cup KernelSizes \subseteq Nat

VARIABLES
  phase,             \* what is done next, or how the process ended
  firmware_len,      \* buf_len
  kernel_len,        \* kernel_buf_len
  kernel_base,
  s,                 \* the tree builder's state
  called,            \* how many of its calls riscv_build_fdt has made
  tree,              \* what fdt_output wrote, <<>> before
  stub,              \* the words of the boot stub, <<>> before
  pc, t0, a0, a1

placed == <<firmware_len, kernel_len, kernel_base>>
built  == <<s, called, tree, stub>>
regs   == <<pc, t0, a0, a1>>
bootVars == <<phase, placed, built, regs>>

Page(n) == n * 4096

Highs == 1048576      \* 2^20

\* A word by its upper twenty and its lower twelve bits, and their sum.
Word(high, low) == [high |-> high, low |-> low]

Split(n) == Word(n \div 4096, n % 4096)

Plus(v, w) ==
  LET low == v.low + w.low
  IN  Word((v.high + w.high + low \div 4096) % Highs, low % 4096)

\* A twelve-bit immediate, sign-extended.
SignExtended(imm) == Word(IF imm >= 2048 THEN Highs - 1 ELSE 0, imm)

\* RAM_BASE_ADDR
RamStart == Word(Highs \div 2, 0)

BOOTLOADER_ADDRESS == Page(1)

\* Mutant of fdt_addr: too little room for the stub.
fdt_addr_close == BOOTLOADER_ADDRESS + 2 * 8

fdt_addr == BOOTLOADER_ADDRESS + 8 * 8

RamBytes    == 4 * ram_size
LowRamBytes == 4 * LOW_RAM_SIZE

kernel_align == 1024 * Page(1)

\* Mutant of KernelBase: rounded down.
KernelBaseBelow(buf_len, kernel_buf_len) ==
  IF kernel_buf_len = 0 THEN 0 ELSE (buf_len \div kernel_align) * kernel_align

KernelBase(buf_len, kernel_buf_len) ==
  IF kernel_buf_len = 0 THEN 0
  ELSE ((buf_len + kernel_align - 1) \div kernel_align) * kernel_align

-----------------------------------------------------------------------------
BootInit ==
  /\ phase = "firmware"
  /\ firmware_len = 0 /\ kernel_len = 0 /\ kernel_base = 0
  /\ s = EmptyState /\ called = 0
  /\ tree = <<>> /\ stub = <<>>
  /\ pc = Split(0) /\ t0 = Split(0) /\ a0 = Split(0) /\ a1 = Split(0)

\* read_bin exits where the file cannot be opened.
FileMissing ==
  /\ phase \in {"firmware", "kernel"}
  /\ phase' = "EXIT_CANNOT_LOAD_TEST_BINARY"
  /\ UNCHANGED <<placed, built, regs>>

LoadFirmware ==
  /\ phase = "firmware"
  /\ firmware_len' \in FirmwareSizes
  /\ phase' = IF firmware_len' > RamBytes THEN "EXIT_BOOTLOADER_TOO_BIG" ELSE "kernel"
  /\ UNCHANGED <<kernel_len, kernel_base, built, regs>>

\* Nothing compares the kernel's end with the RAM that was allocated: memcpy
\* past it is undefined, and the behaviour ends there.
LoadKernel ==
  /\ phase = "kernel"
  /\ kernel_len' \in KernelSizes
  /\ kernel_base' = KernelBase(firmware_len, kernel_len')
  /\ phase' = IF kernel_base' + kernel_len' > RamBytes THEN "overrun" ELSE "tree"
  /\ UNCHANGED <<firmware_len, built, regs>>

Calls == BuildCalls(kernel_base, kernel_len)

MakeCall ==
  /\ phase = "tree" /\ called < Len(Calls)
  /\ called' = called + 1
  /\ s' = Performed(s, Calls[called + 1])
  /\ UNCHANGED <<phase, placed, tree, stub, regs>>

OutputTree ==
  /\ phase = "tree" /\ called = Len(Calls)
  /\ tree' = fdt_output(s)
  /\ phase' = "file"
  /\ UNCHANGED <<placed, s, called, stub, regs>>

auipc(rd, imm)   == [op |-> "auipc", rd |-> rd, imm |-> imm]
addi(rd, imm)    == [op |-> "addi", rd |-> rd, imm |-> imm]
csrr_mhartid(rd) == [op |-> "csrr", rd |-> rd, imm |-> 0]
jr_t0            == [op |-> "jalr", rd |-> "zero", imm |-> 0]

\* Mutant of write_bootloader: the offset is taken from the stub's start.
bootloader_from_start ==
  << auipc("t0", Highs \div 2 - 1), auipc("a1", 0), addi("a1", fdt_addr % 4096),
     csrr_mhartid("a0"), jr_t0 >>

\* The shift by 20 keeps the twelve low bits of fdt_addr - 4.
write_bootloader ==
  << auipc("t0", Highs \div 2 - 1), auipc("a1", 0), addi("a1", (fdt_addr - 4) % 4096),
     csrr_mhartid("a0"), jr_t0 >>

\* riscv_build_fdt also writes the tree to a file whose fopen nobody checks: it
\* may crash there, or go on to the stub.
WriteTreeFile ==
  /\ phase = "file"
  /\ \/ phase' = "crashed" /\ UNCHANGED <<stub, pc>>
     \/ phase' = "stub" /\ stub' = write_bootloader /\ pc' = Split(BOOTLOADER_ADDRESS)
  /\ UNCHANGED <<placed, s, called, tree, t0, a0, a1>>

Fetched == stub[(Page(pc.high) + pc.low - BOOTLOADER_ADDRESS) \div WORD_SIZE + 1]

Result ==
  CASE Fetched.op = "auipc" -> Plus(pc, Word(Fetched.imm, 0))
    [] Fetched.op = "addi"  -> Plus(a1, SignExtended(Fetched.imm))
    [] Fetched.op = "csrr"  -> Split(0)
    [] OTHER                -> Plus(pc, Split(WORD_SIZE))

InStub == phase = "stub" /\ pc.high = 1

StubInstruction ==
  /\ InStub
  /\ t0' = IF Fetched.rd = "t0" THEN Result ELSE t0
  /\ a0' = IF Fetched.rd = "a0" THEN Result ELSE a0
  /\ a1' = IF Fetched.rd = "a1" THEN Result ELSE a1
  /\ pc' = IF Fetched.op = "jalr" THEN t0 ELSE Plus(pc, Split(WORD_SIZE))
  /\ UNCHANGED <<phase, placed, built>>

BootNext ==
  \/ FileMissing
  \/ LoadFirmware
  \/ LoadKernel
  \/ MakeCall
  \/ OutputTree
  \/ WriteTreeFile
  \/ StubInstruction

BootSpec == BootInit /\ [][BootNext]_bootVars

=============================================================================
