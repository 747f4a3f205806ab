----------------------------- MODULE MemoryMap -----------------------------
(***************************************************************************)
(* The table of physical memory ranges (memory_map.c) and the machine that *)
(* fills it (initialize_riscv_machine), with the addresses of vm.h counted *)
(* in 32-bit words.                                                        *)
(***************************************************************************)
EXTENDS Integers, Sequences, FiniteSetsExt

PHYS_MEM_RANGE_MAX == 32

AddressSpace == 1073741824        \* 2^30 words are 2^32 bytes

RAM_BASE_ADDR == 536870912        \* 0x80000000
ram_size      == 25165824         \* 96 MB
LOW_RAM_SIZE  == 16384            \* 64 KB

HTIF_BASE_ADDR  == 268443648      \* 0x40008000
HTIF_SIZE       == 4              \* 16 bytes
CLINT_BASE_ADDR == 8388608        \* 0x02000000
CLINT_SIZE      == 196608         \* 0xc0000
UART_BASE_ADDR  == 67108864       \* 0x10000000
UART_SIZE       == 64             \* 0x100

MemoryRange(name, address, size, is_ram) ==
  [name |-> name, address |-> address, size |-> size, is_ram |-> is_ram]

\* The calls of initialize_riscv_machine, in their order.
Registrations ==
  << MemoryRange("ram", RAM_BASE_ADDR, ram_size, TRUE),
     MemoryRange("low_ram", 0, LOW_RAM_SIZE, TRUE),
     MemoryRange("htif", HTIF_BASE_ADDR, HTIF_SIZE, FALSE),
     MemoryRange("clint", CLINT_BASE_ADDR, CLINT_SIZE, FALSE),
     MemoryRange("uart", UART_BASE_ADDR, UART_SIZE, FALSE) >>

\* register_ram_entry and cpu_register_device append; only the former tests for
\* room, and five registrations always find it.
Registered(map, range) == Append(map, range)

\* Mutant of Covers: the end is included.
CoversEnd(range, address) ==
  address >= range.address /\ address <= (range.address + range.size) % AddressSpace

\* The sum is a uint32_t.
Covers(range, address) ==
  address >= range.address /\ address < (range.address + range.size) % AddressSpace

Covering(map, address) == {i \in DOMAIN map : Covers(map[i], address)}

\* The range a physical address belongs to, the first one that covers it, and
\* the offset in it; name is "none" where the lookup returns NULL.
Target(map, address) ==
  IF Covering(map, address) = {}
  THEN [name |-> "none", is_ram |-> FALSE, offset |-> 0]
  ELSE LET range == map[Min(Covering(map, address))]
       IN  [name |-> range.name, is_ram |-> range.is_ram, offset |-> address - range.address]

=============================================================================
