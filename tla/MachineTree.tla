---------------------------- MODULE MachineTree ----------------------------
(***************************************************************************)
(* The calls riscv_build_fdt makes to describe the machine, in their order *)
(* and with the arguments initialize_riscv_machine's constants give them,  *)
(* and what each call does to the builder's state.                         *)
(***************************************************************************)
EXTENDS Fdt, MemoryMap

\* The low cell of the byte address of a word; its high cell is 0.
Address(word) ==
  IF word >= RAM_BASE_ADDR THEN Ram(4 * (word - RAM_BASE_ADDR)) ELSE Number(4 * word)

Call(does, name, value) == [does |-> does, name |-> name, value |-> value]

\* The text of the unit addresses that are used, in hexadecimal.
Hex(word) ==
  CASE word = 0 -> "0"
    [] word = RAM_BASE_ADDR -> "80000000"
    [] word = CLINT_BASE_ADDR -> "2000000"
    [] word = UART_BASE_ADDR -> "10000000"

begin_node(name)           == <<Call("begin", name, <<>>)>>
begin_node_num(name, word) == begin_node(name \o "@" \o Hex(word))
end_node                   == <<Call("end", "", <<>>)>>
prop_tab_str(name, texts)  == <<Call("texts", name, texts)>>
prop_str(name, text)       == prop_tab_str(name, <<text>>)
prop_empty(name)           == prop_tab_str(name, <<>>)
prop_tab_u32(name, cells)  == <<Call("cells", name, cells)>>
prop_u32(name, n)          == prop_tab_u32(name, <<Number(n)>>)

\* Mutant of prop_tab_u64_2: the high halves are left out.
prop_low_halves(name, v0, v1) == prop_tab_u32(name, <<v0, v1>>)

prop_tab_u64_2(name, v0, v1) == prop_tab_u32(name, <<Number(0), v0, Number(0), v1>>)

-----------------------------------------------------------------------------
intc_phandle == 1

RTC_FREQ == 10000000

InterruptController ==
     begin_node("interrupt-controller")
  \o prop_u32("#interrupt-cells", 1)
  \o prop_empty("interrupt-controller")
  \o prop_str("compatible", "riscv,cpu-intc")
  \o prop_u32("phandle", intc_phandle)
  \o end_node

Cpus ==
     begin_node("cpus")
  \o prop_u32("#address-cells", 1) \o prop_u32("#size-cells", 0)
  \o prop_u32("timebase-frequency", RTC_FREQ)
  \o begin_node_num("cpu", 0)
  \o prop_str("device_type", "cpu")
  \o prop_u32("reg", 0)
  \o prop_str("status", "okay")
  \o prop_str("compatible", "riscv")
  \o prop_str("riscv,isa", "rv32i")
  \o prop_str("mmu-type", "riscv,sv32")
  \o prop_u32("clock-frequency", RTC_FREQ)
  \o InterruptController
  \o end_node
  \o end_node

Memory ==
     begin_node_num("memory", RAM_BASE_ADDR)
  \o prop_str("device_type", "memory")
  \o prop_tab_u32("reg", <<Number(0), Address(RAM_BASE_ADDR), Number(0), Number(4 * ram_size)>>)
  \o end_node

Clint ==
     begin_node_num("clint", CLINT_BASE_ADDR)
  \o prop_str("compatible", "riscv,clint0")
  \o prop_tab_u32("interrupts-extended",
       <<Number(intc_phandle), Number(3), Number(intc_phandle), Number(7)>>)
  \o prop_tab_u64_2("reg", Address(CLINT_BASE_ADDR), Number(4 * CLINT_SIZE))
  \o end_node

\* Mutant of Uart: the node is named for the CLINT's address.
UartAtClint ==
     begin_node_num("uart", CLINT_BASE_ADDR)
  \o prop_str("compatible", "sifive,uart0")
  \o prop_tab_u64_2("reg", Address(UART_BASE_ADDR), Number(4 * UART_SIZE))
  \o end_node

Uart ==
     begin_node_num("uart", UART_BASE_ADDR)
  \o prop_str("compatible", "sifive,uart0")
  \o prop_tab_u64_2("reg", Address(UART_BASE_ADDR), Number(4 * UART_SIZE))
  \o end_node

Soc ==
     begin_node("soc")
  \o prop_u32("#address-cells", 2) \o prop_u32("#size-cells", 2)
  \o prop_tab_str("compatible", <<"ucbbar,riscvemu-bar-soc", "simple-bus">>)
  \o prop_empty("ranges")
  \o Clint
  \o Uart
  \o end_node

\* Mutant of KernelRange: the end is the size.
KernelSize(kernel_start, kernel_size) ==
  IF kernel_size = 0 THEN <<>>
  ELSE    prop_tab_u32("riscv,kernel-start", <<Number(0), Ram(kernel_start)>>)
       \o prop_tab_u32("riscv,kernel-end", <<Number(0), Ram(kernel_size)>>)

\* The kernel's addresses are counted from RAM_BASE_ADDR, in bytes.
KernelRange(kernel_start, kernel_size) ==
  IF kernel_size = 0 THEN <<>>
  ELSE    prop_tab_u32("riscv,kernel-start", <<Number(0), Ram(kernel_start)>>)
       \o prop_tab_u32("riscv,kernel-end", <<Number(0), Ram(kernel_start + kernel_size)>>)

Chosen(kernel_start, kernel_size) ==
     begin_node("chosen")
  \o prop_str("bootargs", "debug keep_bootcon bootmem_debug earlycon=sbi")
  \o KernelRange(kernel_start, kernel_size)
  \o prop_str("stdout-path", "/soc/uart@10000000")
  \o end_node

BuildCalls(kernel_start, kernel_size) ==
     begin_node("")
  \o prop_u32("#address-cells", 2) \o prop_u32("#size-cells", 2)
  \o prop_str("compatible", "ucbbar,riscvemu-bar")
  \o prop_str("model", "emuriscv,emuriscv")
  \o Cpus \o Memory \o Soc \o Chosen(kernel_start, kernel_size)
  \o end_node

\* What a call does to the builder's state.
Performed(s, call) ==
  CASE call.does = "begin" -> fdt_begin_node(s, call.name)
    [] call.does = "end"   -> fdt_end_node(s)
    [] call.does = "texts" -> fdt_prop(s, call.name, call.value)
    [] call.does = "cells" -> fdt_prop_tab_u32(s, call.name, call.value)

=============================================================================
