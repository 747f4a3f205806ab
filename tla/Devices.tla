------------------------------ MODULE Devices ------------------------------
(***************************************************************************)
(* The machine's devices behind the memory map: the ranges are registered, *)
(* then a guest loads from and stores to physical addresses in any order.  *)
(* Device functions ignore the size of an access.  The addresses here are  *)
(* word-aligned, and RAM is only a place that takes stores: Hart has the   *)
(* memory.  The clock stands still; ClockDriver has it running.            *)
(***************************************************************************)
EXTENDS VirtualMachine, MemoryMap

CONSTANTS
  GuestAddress,    \* the physical word addresses the guest loads from
  GuestStore       \* its stores, pairs of a physical word address and a word

ASSUME GuestAssumption ==
  /\ GuestAddress \subseteq 0 .. AddressSpace - 1
  /\ GuestStore \subseteq (0 .. AddressSpace - 1) \X Half

VARIABLES
  map,         \* vm->mem_map
  address,     \* the address accessed last
  low_stored   \* history: the word last stored to the low half of tohost since
               \* a command was completed, 0 if none was

deviceVars == <<map, vm, address, low_stored>>

DevicesInit ==
  /\ map = <<>>
  /\ vm = InitialMachine
  /\ address = 0
  /\ low_stored = 0

Register ==
  /\ Len(map) < Len(Registrations)
  /\ map' = Registered(map, Registrations[Len(map) + 1])
  /\ UNCHANGED <<vm, address, low_stored>>

Executing == Len(map) = Len(Registrations) /\ Running

Ends(code) == vm' = [vm EXCEPT !.exit_code = code]

\* get_memory_target leaves range NULL for an address in no range, and the
\* access goes through it.
AccessNowhere ==
  /\ Executing
  /\ address' \in GuestAddress \cup {store[1] : store \in GuestStore}
  /\ Target(map, address').name = "none"
  /\ Ends("crashed")
  /\ UNCHANGED <<map, low_stored>>

LoadDevice ==
  /\ Executing
  /\ address' \in GuestAddress
  /\ Target(map, address').name # "none"
  /\ UNCHANGED <<map, vm, low_stored>>

StoreTo(name, offset, val) ==
  CASE name = "htif"  -> vm' = htif_write(vm, offset, val)
    [] name = "clint" -> vm' = clint_write(vm, offset, val)
    [] name = "uart" /\ offset \in UartRegister    -> vm' = uart_write(vm, offset, val)
    [] name = "uart" /\ offset \notin UartRegister -> Ends("undefined") \/ UNCHANGED vm
    [] OTHER -> UNCHANGED vm

CompletesCommand(target, val) ==
  /\ target.name = "htif" /\ target.offset = 1
  /\ TopByte(val) = CONSOLE_DEVICE /\ SecondByte(val) \in {PUTCHAR, GETCHAR}

Store(physical_address, val) ==
  /\ Executing
  /\ address' = physical_address
  /\ LET target == Target(map, address')
     IN  /\ target.name # "none"
         /\ StoreTo(target.name, target.offset, val)
         /\ low_stored' = IF target.name = "htif" /\ target.offset = 0 THEN val
                          ELSE IF CompletesCommand(target, val) THEN 0
                          ELSE low_stored
  /\ UNCHANGED map

DevicesNext == Register \/ AccessNowhere \/ LoadDevice \/ \E store \in GuestStore : Store(store[1], store[2])

DevicesSpec == DevicesInit /\ [][DevicesNext]_deviceVars

-----------------------------------------------------------------------------
\* The lookup never hands out a pointer past the memory or the registers it
\* found: the offset of every access, at the edges of the ranges too, is
\* inside the range, and no other range claims the address.
TargetInside ==
  LET target == Target(map, address)
  IN  target.name # "none" =>
        \E i \in DOMAIN map :
          /\ map[i].name = target.name
          /\ target.offset \in 0 .. map[i].size - 1
          /\ map[i].address + target.offset = address
          /\ \A j \in DOMAIN map \ {i} :
               address < map[j].address \/ address >= map[j].address + map[j].size

\* tohost never mixes two commands: its low half is the word of the command
\* being written, whatever the guest stored before, and its high half is zero
\* unless the command there is one HTIF does not support.
CommandsDoNotMix ==
  /\ vm.tohost.low = low_stored
  /\ vm.tohost.high # 0 =>
       ~(TopByte(vm.tohost.high) = CONSOLE_DEVICE /\ SecondByte(vm.tohost.high) \in {PUTCHAR, GETCHAR})

\* What reaches the outside follows from a complete command only: a character
\* is the last byte of the low half stored for it or a word stored to the
\* UART's transmit register, and the machine powers off only by 1 in the low
\* half followed by 0 in the high half.
ByHtif(offset) == Target(map, address').name = "htif" /\ Target(map, address').offset = offset

OutputFollowsCommand ==
  /\ vm'.output # vm.output =>
       \/ ByHtif(1) /\ vm'.output = Append(vm.output, LastByte(low_stored)) /\ vm'.tohost = Zero64
       \/ /\ address' = UART_BASE_ADDR
          /\ vm'.output = Append(vm.output, LastByte(vm'.uart_reg[UART_REG_TXFIFO]))
  /\ vm'.exit_code = "EXIT_POWEROFF" /\ vm.exit_code = "running" =>
       ByHtif(1) /\ low_stored = 1 /\ vm'.tohost.high = 0

OutputOnlyByCommand == [][OutputFollowsCommand]_deviceVars

=============================================================================
