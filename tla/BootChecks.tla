----------------------------- MODULE BootChecks -----------------------------
(***************************************************************************)
(* What the boot promises the firmware: a tree that a reader of the format *)
(* understands and that describes the machine that was built, images that  *)
(* lie apart, and registers that point at them.                            *)
(***************************************************************************)
EXTENDS Boot

\* What a reader finds in the builder's tables, complete or not.
Read == Tokens(s.tab, s.string_table)

Reader == INSTANCE DeviceTree WITH told <- Read

\* The texts that riscv_build_fdt passes, names of nodes and of properties and
\* values: those it writes out, and the names that sprintf makes.
PlainTexts ==
  { "", "#address-cells", "#size-cells", "compatible", "model", "phandle", "device_type", "reg",
    "interrupt-controller", "#interrupt-cells", "interrupts-extended", "cpus",
    "timebase-frequency", "status", "riscv,isa", "mmu-type", "clock-frequency", "soc", "ranges",
    "chosen", "bootargs", "riscv,kernel-start", "riscv,kernel-end", "stdout-path",
    "ucbbar,riscvemu-bar", "emuriscv,emuriscv", "riscv,cpu-intc", "cpu", "okay", "riscv", "rv32i",
    "riscv,sv32", "memory", "riscv,clint0", "sifive,uart0", "ucbbar,riscvemu-bar-soc",
    "simple-bus", "debug keep_bootcon bootmem_debug earlycon=sbi", "/soc/uart@10000000" }

NodeTexts(name) ==
  {name \o "@" \o Hex(word) : word \in {0, RAM_BASE_ADDR, CLINT_BASE_ADDR, UART_BASE_ADDR}}

Texts == PlainTexts \cup UNION {NodeTexts(name) : name \in {"cpu", "memory", "clint", "uart"}}

MaxText == 63

\* That a text is a sequence of characters is more than the provers know.
ASSUME TextsAssumption ==
  /\ Texts \subseteq STRING \ {"garbage"}
  /\ \A text \in Texts : Len(text) \in 0 .. MaxText

\* Nor do they know the names that sprintf makes of a name and an address, and the
\* path of the console.
ASSUME NamesAssumption ==
  /\ "cpu" \o "@" \o Hex(0) = "cpu@0"
  /\ "memory" \o "@" \o Hex(RAM_BASE_ADDR) = "memory@80000000"
  /\ "clint" \o "@" \o Hex(CLINT_BASE_ADDR) = "clint@2000000"
  /\ "uart" \o "@" \o Hex(UART_BASE_ADDR) = "uart@10000000"
  /\ "" \o "/" \o "soc" \o "/" \o "uart@10000000" = "/soc/uart@10000000"

\* Whatever riscv_build_fdt has called, the cells read as a tree in which each
\* call added the one token it stands for: lengths, paddings and name offsets
\* lead the reader to the next token.
BuildsATree == Reader!TreeSpec

\* No put writes past what realloc has given the two tables (fdt_alloc_len,
\* fdt_get_string_offset).
TablesHoldTheirContents ==
  /\ Len(s.tab) <= s.tab_size
  /\ s.string_table_len <= s.string_table_size

\* The assertion that is commented out in fdt_output holds, no name is in the
\* string table twice, and the blocks follow each other aligned, apart and
\* within the size the header gives.
OutputIsWellFormed ==
  tree # <<>> =>
    /\ s.open_node_count = 0
    /\ \A i, j \in DOMAIN tree.string_table :
         tree.string_table[i].text = tree.string_table[j].text => i = j
    /\ tree.off_dt_struct >= HeaderSize
    /\ tree.off_mem_rsvmap % 8 = 0 /\ tree.off_dt_struct % 4 = 0 /\ tree.totalsize % 8 = 0
    /\ tree.off_mem_rsvmap >= tree.off_dt_struct + tree.size_dt_struct
    /\ tree.off_dt_strings >= tree.off_mem_rsvmap + ReserveSize
    /\ tree.totalsize >= tree.off_dt_strings + tree.size_dt_strings

-----------------------------------------------------------------------------
\* A path is the sequence of the names of the nodes from the root.
Paths(tokens) == {tokens[i].path : i \in {j \in DOMAIN tokens : tokens[j].kind = "begin"}}

Properties(tokens) ==
  {tokens[i] : i \in {j \in DOMAIN tokens : tokens[j].kind = "prop"}}

Value(props, path, name) ==
  (CHOOSE p \in props : p.path = path /\ p.name = name).value

Has(props, path, name) == \E p \in props : p.path = path /\ p.name = name

\* What a number-valued property says.
NumberOf(props, path, name) == Value(props, path, name)[1][2]

Parsed == tree # <<>> /\ phase = "file"

\* Every reg is as long as its parent's #address-cells and #size-cells say, and
\* begins with the address the node is named for.
RegsFitTheirBus ==
  Parsed =>
    LET props == Properties(Read)
    IN  \A p \in props : p.name = "reg" =>
          LET bus     == Front(p.path)
              address == NumberOf(props, bus, "#address-cells")
          IN  /\ Len(p.value) = address + NumberOf(props, bus, "#size-cells")
              /\ \E word \in {0, RAM_BASE_ADDR, CLINT_BASE_ADDR, UART_BASE_ADDR} :
                   /\ p.value[address] = Address(word)
                   /\ \E base \in {"cpu", "memory", "clint", "uart"} :
                        Last(p.path) = base \o "@" \o Hex(word)

RegisteredAs(name) == CHOOSE range \in {Registrations[i] : i \in DOMAIN Registrations} :
                       range.name = name

Describes(props, path, name) ==
  Value(props, path, "reg") =
    << Number(0), Address(RegisteredAs(name).address),
       Number(0), Number(4 * RegisteredAs(name).size) >>

\* The tree describes the machine initialize_riscv_machine built: RAM and the
\* devices where they are registered, and the kernel where it was copied to.
DescribesTheMachine ==
  Parsed =>
    LET props  == Properties(Read)
        chosen == <<"", "chosen">>
    IN  /\ Describes(props, <<"", "memory@80000000">>, "ram")
        /\ Describes(props, <<"", "soc", "clint@2000000">>, "clint")
        /\ Describes(props, <<"", "soc", "uart@10000000">>, "uart")
        /\ Has(props, chosen, "riscv,kernel-start") <=> kernel_len > 0
        /\ kernel_len > 0 =>
             /\ Value(props, chosen, "riscv,kernel-start") = <<Number(0), Ram(kernel_base)>>
             /\ Value(props, chosen, "riscv,kernel-end") =
                  <<Number(0), Ram(kernel_base + kernel_len)>>

\* References between nodes lead somewhere: the console's path is a node, each
\* phandle is one node's, and every second cell of interrupts-extended is the
\* phandle of an interrupt controller of one cell.
PathText(path) ==
  LET upto[n \in Nat] == IF n = 0 THEN "" ELSE upto[n - 1] \o "/" \o path[n + 1]
  IN  upto[Len(path) - 1]

LinksResolve ==
  Parsed =>
    LET props == Properties(Read)
        Owners(cell) == {p.path : p \in {q \in props : q.name = "phandle" /\ q.value = <<cell>>}}
    IN  /\ \E path \in Paths(Read) :
             Value(props, <<"", "chosen">>, "stdout-path")[1][1] = <<PathText(path)>>
        /\ \A p \in props : p.name = "interrupts-extended" =>
             \A i \in {j \in DOMAIN p.value : j % 2 = 1} :
               /\ Cardinality(Owners(p.value[i])) = 1
               /\ \A path \in Owners(p.value[i]) :
                    /\ Has(props, path, "interrupt-controller")
                    /\ NumberOf(props, path, "#interrupt-cells") = 1

\* The parts of the tree, written by calls far apart, fit each other: a reader
\* can take every reg apart and follow every reference.
TreeIsConsistent == RegsFitTheirBus /\ LinksResolve

-----------------------------------------------------------------------------
Apart(from1, size1, from2, size2) ==
  size1 = 0 \/ size2 = 0 \/ from1 + size1 <= from2 \/ from2 + size2 <= from1

\* Firmware and kernel lie apart in RAM, the kernel on a boundary of a superpage.
ImagesLieApart ==
  /\ kernel_base % kernel_align = 0
  /\ Apart(0, firmware_len, kernel_base, kernel_len)

\* Stub and tree lie apart within low RAM when the stub runs.
TreeFitsLowRam ==
  phase = "stub" =>
    /\ Apart(BOOTLOADER_ADDRESS, WORD_SIZE * Len(stub), fdt_addr, tree.totalsize)
    /\ fdt_addr + tree.totalsize <= LowRamBytes

\* The stub stays among its words until it enters the firmware at the start of
\* RAM, with the hart's number in a0 and the tree's address in a1.
StubHandsOver ==
  phase = "stub" =>
    \/ /\ pc.high = 1
       /\ pc.low \in {WORD_SIZE * i : i \in 0 .. Len(stub) - 1}
    \/ pc = RamStart /\ a0 = Split(0) /\ a1 = Split(fdt_addr)

=============================================================================
