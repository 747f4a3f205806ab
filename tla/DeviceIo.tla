------------------------------ MODULE DeviceIo ------------------------------
(***************************************************************************)
(* The read and write functions of the memory-mapped devices: HTIF and     *)
(* UART (run_linux.c) and CLINT (clint.c), as functions on the machine     *)
(* record `vm`.  Offsets are counted in words.                             *)
(*                                                                         *)
(* A word has four bytes of ByteSize values, 256 in the program; a 64-bit  *)
(* register is the record of its halves.                                   *)
(***************************************************************************)
EXTENDS Integers, Sequences

CONSTANT ByteSize

ASSUME ByteSizeAssumption == ByteSize \in Nat /\ ByteSize >= 2

HalfSize == ByteSize * ByteSize * ByteSize * ByteSize
Half     == 0 .. HalfSize - 1
Zero64   == [high |-> 0, low |-> 0]

TopByte(half)    == half \div (ByteSize * ByteSize * ByteSize)
SecondByte(half) == (half \div (ByteSize * ByteSize)) % ByteSize

LastByte(half) == half % ByteSize

\* The mask ~0xffffffff is an unsigned int, 0: storing a low half clears the
\* high one.
StoreLow(half)            == [high |-> 0, low |-> half]

\* Mutant of StoreHigh: the mask of the low half is lost, too.
StoreHighAlone(register, half) == [high |-> half, low |-> 0]

StoreHigh(register, half) == [register EXCEPT !.high = half]

-----------------------------------------------------------------------------
(***************************************************************************)
(* HTIF.  Offsets 0 and 1 are tohost, 2 and 3 fromhost; the store to the   *)
(* high half of tohost executes the command.                               *)
(***************************************************************************)
CONSOLE_DEVICE == 1
PUTCHAR        == 1
GETCHAR        == 0

Printed(vm, char) == [vm EXCEPT !.output = Append(@, char)]

\* Mutant of Consumed: tohost keeps the command.
KeptCommand(vm) == vm

Consumed(vm) == [vm EXCEPT !.tohost = Zero64]

htif_handle_cmd(vm) ==
  LET device == TopByte(vm.tohost.high)
      cmd    == SecondByte(vm.tohost.high)
      answer == device * ByteSize * ByteSize * ByteSize + cmd * ByteSize * ByteSize
  IN  IF vm.tohost = [high |-> 0, low |-> 1] THEN [vm EXCEPT !.exit_code = "EXIT_POWEROFF"]
      ELSE IF device = CONSOLE_DEVICE /\ cmd = PUTCHAR
      THEN [Consumed(Printed(vm, LastByte(vm.tohost.low))) EXCEPT !.fromhost = [high |-> answer, low |-> 0]]
      ELSE IF device = CONSOLE_DEVICE /\ cmd = GETCHAR THEN Consumed(vm)
      ELSE vm

\* Mutant of htif_write: the store to the low half executes the command too.
htif_write_eager(vm, offset, val) ==
  CASE offset = 0 -> htif_handle_cmd([vm EXCEPT !.tohost = [@ EXCEPT !.low = val]])
    [] offset = 1 -> htif_handle_cmd([vm EXCEPT !.tohost = StoreHigh(@, val)])
    [] OTHER      -> vm

htif_write(vm, offset, val) ==
  CASE offset = 0 -> [vm EXCEPT !.tohost = StoreLow(val)]
    [] offset = 1 -> htif_handle_cmd([vm EXCEPT !.tohost = StoreHigh(@, val)])
    [] offset = 2 -> [vm EXCEPT !.fromhost = StoreLow(val)]
    [] offset = 3 -> [vm EXCEPT !.fromhost = StoreHigh(@, val)]
    [] OTHER      -> vm

htif_read(vm, offset) ==
  CASE offset = 0 -> vm.tohost.low
    [] offset = 1 -> vm.tohost.high
    [] offset = 2 -> vm.fromhost.low
    [] offset = 3 -> vm.fromhost.high
    [] OTHER      -> 0

-----------------------------------------------------------------------------
(***************************************************************************)
(* CLINT.  Its time is the number of instructions emulated.  reset_mip has *)
(* no definition in the repository and no state here.                      *)
(***************************************************************************)
SIFIVE_TIMECMP_LOW  == 4096       \* 0x4000
SIFIVE_TIMECMP_HIGH == 4097
SIFIVE_TIME_LOW     == 12286      \* 0xBFF8
SIFIVE_TIME_HIGH    == 12287

clint_write(vm, offset, val) ==
  CASE offset = SIFIVE_TIMECMP_LOW  -> [vm EXCEPT !.timecmp = StoreLow(val)]
    [] offset = SIFIVE_TIMECMP_HIGH -> [vm EXCEPT !.timecmp = StoreHigh(@, val)]
    [] OTHER                        -> vm

\* Mutant of clint_read: the time is read where the comparator is.
clint_read_swapped(vm, offset) ==
  CASE offset = SIFIVE_TIME_LOW  -> vm.timecmp.low
    [] offset = SIFIVE_TIME_HIGH -> vm.timecmp.high
    [] OTHER                     -> 0

clint_read(vm, offset) ==
  CASE offset = SIFIVE_TIME_LOW     -> vm.cycles % HalfSize
    [] offset = SIFIVE_TIME_HIGH    -> vm.cycles \div HalfSize
    [] offset = SIFIVE_TIMECMP_LOW  -> vm.timecmp.low
    [] offset = SIFIVE_TIMECMP_HIGH -> vm.timecmp.high
    [] OTHER                        -> 0

-----------------------------------------------------------------------------
(***************************************************************************)
(* UART.  Seven registers; the device range has 64 words, and an index     *)
(* beyond the array reads or writes whatever lies behind it.  uart_skipped *)
(* is never read and left out.                                             *)
(***************************************************************************)
UART_REG_TXFIFO == 0
UartRegister    == 0 .. 6

CONSTANT Unprintable    \* the words uart_write skips: 0, 0x40 and 0x5e

uart_write(vm, offset, val) ==
  LET stored == [vm EXCEPT !.uart_reg = [@ EXCEPT ![offset] = val]]
  IN  IF offset = UART_REG_TXFIFO /\ val \notin Unprintable
      THEN Printed(stored, LastByte(val)) ELSE stored

uart_read(vm, offset) == IF offset = UART_REG_TXFIFO THEN 0 ELSE vm.uart_reg[offset]

-----------------------------------------------------------------------------
InitialMachine ==
  [tohost |-> Zero64, fromhost |-> Zero64, timecmp |-> Zero64, cycles |-> 0,
   uart_reg |-> [r \in UartRegister |-> 0], output |-> <<>>, exit_code |-> "running"]

=============================================================================
