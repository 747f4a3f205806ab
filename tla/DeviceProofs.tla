---------------------------- MODULE DeviceProofs ----------------------------
(***************************************************************************)
(* Theorems about the devices, for every byte size: the lookup stays       *)
(* inside the range it found, HTIF acts on complete commands only, the     *)
(* console driver and the HTIF registers implement Console, and a guest    *)
(* that uses the CLINT by halves reads and stores whole 64-bit words.      *)
(***************************************************************************)
EXTENDS Devices, HtifDriver, ClockDriver, TLAPS

Register64 == [high : Nat, low : Nat]

\* The type of *vm, which every device function preserves.
Machine ==
  [tohost : Register64, fromhost : Register64, timecmp : Register64, cycles : Nat,
   uart_reg : [UartRegister -> Nat], output : Seq(Nat),
   exit_code : {"running", "EXIT_POWEROFF", "crashed", "undefined"}]

\* The machine starts with all registers zero.
LEMMA InitialMachineType == InitialMachine \in Machine /\ Zero64 \in Register64
<1>1. Zero64 \in Register64
  BY DEF Zero64, Register64
<1> QED
  BY <1>1 DEF InitialMachine, Machine

\* What a store to a half of a register leaves in it.
LEMMA HalfStores ==
  ASSUME NEW register \in Register64, NEW half \in Nat
  PROVE  /\ StoreLow(half) = [high |-> 0, low |-> half] /\ StoreLow(half) \in Register64
         /\ StoreHigh(register, half) = [high |-> half, low |-> register.low]
         /\ StoreHigh(register, half) \in Register64
BY DEF StoreLow, StoreHigh, Register64

\* Storing to tohost alone keeps the rest of the machine.
LEMMA TohostStored ==
  ASSUME NEW machine \in Machine, NEW register \in Register64
  PROVE  LET stored == [machine EXCEPT !.tohost = register]
         IN  /\ stored \in Machine /\ stored.tohost = register
             /\ stored.output = machine.output /\ stored.exit_code = machine.exit_code
BY DEF Machine

-----------------------------------------------------------------------------
(***************************************************************************)
(* The memory map.                                                         *)
(***************************************************************************)
MapEntry ==
  [name : {"ram", "low_ram", "htif", "clint", "uart"}, address : Nat, size : Nat, is_ram : BOOLEAN]

\* A table the lookup can be used with: no range wraps around the address
\* space, and no two of them have an address in common.
Apart(r, s) == r.address + r.size <= s.address \/ s.address + s.size <= r.address

WellFormedMap(table) ==
  /\ table \in Seq(MapEntry)
  /\ \A i \in DOMAIN table : table[i].address + table[i].size < AddressSpace
  /\ \A i, j \in DOMAIN table : i # j => Apart(table[i], table[j])

\* In such a table the lookup of an address that range i contains finds range i.
LEMMA LookupFindsRange ==
  ASSUME NEW table, WellFormedMap(table), NEW a \in Nat, NEW i \in DOMAIN table,
         Covers(table[i], a)
  PROVE  /\ Target(table, a) =
              [name |-> table[i].name, is_ram |-> table[i].is_ram, offset |-> a - table[i].address]
         /\ a - table[i].address \in 0 .. table[i].size - 1
         /\ \A j \in DOMAIN table \ {i} : a < table[j].address \/ a >= table[j].address + table[j].size
<1>t. table \in Seq(MapEntry) /\ i \in Nat
  BY DEF WellFormedMap
<1>e. \A j \in DOMAIN table : table[j] \in MapEntry
  BY <1>t
<1>r. \A j \in DOMAIN table : table[j].address \in Nat /\ table[j].size \in Nat
  BY <1>e DEF MapEntry
<1>1. \A j \in DOMAIN table :
        (table[j].address + table[j].size) % AddressSpace = table[j].address + table[j].size
  BY <1>r, SMT DEF WellFormedMap, AddressSpace
<1>2. \A j \in DOMAIN table :
        Covers(table[j], a) <=> a >= table[j].address /\ a < table[j].address + table[j].size
  BY <1>1, SMT DEF Covers
<1>3. ASSUME NEW j \in DOMAIN table, j # i
      PROVE  a < table[j].address \/ a >= table[j].address + table[j].size
  <2>1. Apart(table[i], table[j])
    BY <1>3 DEF WellFormedMap
  <2> QED
    BY <2>1, <1>2, <1>r DEF Apart
<1>4. Covering(table, a) = {i}
  BY <1>2, <1>3, <1>r DEF Covering
<1>5. Min(Covering(table, a)) = i
  BY <1>4, <1>t DEF Min
<1> QED
  BY <1>2, <1>3, <1>4, <1>5, <1>r DEF Target

\* The ranges initialize_riscv_machine registers lie apart.
LEMMA RegistrationsApart == WellFormedMap(Registrations) /\ Len(Registrations) = 5
<1>c. /\ RAM_BASE_ADDR \in Nat /\ ram_size \in Nat /\ LOW_RAM_SIZE \in Nat /\ HTIF_BASE_ADDR \in Nat
      /\ HTIF_SIZE \in Nat /\ CLINT_BASE_ADDR \in Nat /\ CLINT_SIZE \in Nat
      /\ UART_BASE_ADDR \in Nat /\ UART_SIZE \in Nat
  BY SMT DEF RAM_BASE_ADDR, ram_size, LOW_RAM_SIZE, HTIF_BASE_ADDR, HTIF_SIZE, CLINT_BASE_ADDR,
             CLINT_SIZE, UART_BASE_ADDR, UART_SIZE
<1>1. Registrations \in Seq(MapEntry)
  <2> DEFINE ram     == MemoryRange("ram", RAM_BASE_ADDR, ram_size, TRUE)
             low_ram == MemoryRange("low_ram", 0, LOW_RAM_SIZE, TRUE)
             htif    == MemoryRange("htif", HTIF_BASE_ADDR, HTIF_SIZE, FALSE)
             clint   == MemoryRange("clint", CLINT_BASE_ADDR, CLINT_SIZE, FALSE)
             uart    == MemoryRange("uart", UART_BASE_ADDR, UART_SIZE, FALSE)
  <2>1. /\ ram \in MapEntry /\ low_ram \in MapEntry /\ htif \in MapEntry
        /\ clint \in MapEntry /\ uart \in MapEntry
    BY <1>c, SMT DEF MemoryRange, MapEntry
  <2>2. Registrations = <<ram, low_ram, htif, clint, uart>>
    BY DEF Registrations
  <2> HIDE DEF ram, low_ram, htif, clint, uart
  <2> QED
    BY <2>1, <2>2
<1>2. Len(Registrations) = 5 /\ DOMAIN Registrations = 1 .. 5
  BY SMTT(30) DEF Registrations
<1>3. \A i \in 1 .. 5 : Registrations[i].address + Registrations[i].size < AddressSpace
  BY SMTT(30) DEF Registrations, MemoryRange, AddressSpace, RAM_BASE_ADDR, ram_size, LOW_RAM_SIZE, HTIF_BASE_ADDR,
         HTIF_SIZE, CLINT_BASE_ADDR, CLINT_SIZE, UART_BASE_ADDR, UART_SIZE
<1>4. \A i, j \in 1 .. 5 : i # j => Apart(Registrations[i], Registrations[j])
  BY SMTT(30) DEF Registrations, MemoryRange, Apart, RAM_BASE_ADDR, ram_size, LOW_RAM_SIZE, HTIF_BASE_ADDR,
         HTIF_SIZE, CLINT_BASE_ADDR, CLINT_SIZE, UART_BASE_ADDR, UART_SIZE
<1> QED
  BY <1>1, <1>2, <1>3, <1>4 DEF WellFormedMap

-----------------------------------------------------------------------------
(***************************************************************************)
(* The devices behind the map.                                             *)
(***************************************************************************)

\* The table is a prefix of the registrations, and tohost holds the word stored
\* to its low half and no command HTIF has carried out.
DevicesInv ==
  /\ map \in Seq(MapEntry) /\ Len(map) <= Len(Registrations)
  /\ \A i \in DOMAIN map : map[i] = Registrations[i]
  /\ address \in Nat
  /\ vm \in Machine
  /\ low_stored \in Nat
  /\ CommandsDoNotMix

\* The map is well-formed while it is filled.
LEMMA MapWellFormed == ASSUME DevicesInv PROVE WellFormedMap(map)
<1>1. map \in Seq(MapEntry) /\ Len(map) <= 5 /\ \A i \in DOMAIN map : map[i] = Registrations[i]
  BY RegistrationsApart DEF DevicesInv
<1>2. /\ \A i \in 1 .. 5 : Registrations[i].address + Registrations[i].size < AddressSpace
      /\ \A i, j \in 1 .. 5 : i # j => Apart(Registrations[i], Registrations[j])
  BY RegistrationsApart DEF WellFormedMap
<1>3. DOMAIN map \subseteq 1 .. 5
  BY <1>1
<1>4. \A i \in DOMAIN map : map[i].address + map[i].size < AddressSpace
  BY <1>1, <1>2, <1>3
<1>5. \A i, j \in DOMAIN map : i # j => Apart(map[i], map[j])
  BY <1>1, <1>2, <1>3
<1> QED
  BY <1>1, <1>4, <1>5 DEF WellFormedMap

\* The lookup stays inside the range it finds.
LEMMA InsideFromInv == ASSUME DevicesInv PROVE TargetInside
<1> DEFINE target == Target(map, address)
<1>1. SUFFICES ASSUME target.name # "none"
               PROVE  \E i \in DOMAIN map :
                        /\ map[i].name = target.name
                        /\ target.offset \in 0 .. map[i].size - 1
                        /\ map[i].address + target.offset = address
                        /\ \A j \in DOMAIN map \ {i} :
                             address < map[j].address \/ address >= map[j].address + map[j].size
  BY DEF TargetInside
<1>2. Covering(map, address) # {}
  BY <1>1 DEF Target
<1>3. PICK i \in DOMAIN map : Covers(map[i], address)
  BY <1>2 DEF Covering
<1>4. WellFormedMap(map) /\ address \in Nat
  BY MapWellFormed DEF DevicesInv
<1>5. map[i] \in MapEntry
  BY <1>4 DEF WellFormedMap
<1> HIDE DEF target
<1>6. /\ target = [name |-> map[i].name, is_ram |-> map[i].is_ram, offset |-> address - map[i].address]
      /\ address - map[i].address \in 0 .. map[i].size - 1
      /\ \A j \in DOMAIN map \ {i} : address < map[j].address \/ address >= map[j].address + map[j].size
  BY <1>3, <1>4, LookupFindsRange DEF target
<1>7. map[i].address \in Nat
  BY <1>5 DEF MapEntry
<1> QED
  BY <1>4, <1>6, <1>7

\* The number 0 is no console command.
LEMMA ZeroIsNoCommand == TopByte(0) = 0 /\ ByteSize \in Nat /\ ByteSize >= 2
<1>1. ByteSize * ByteSize * ByteSize \in Nat /\ ByteSize * ByteSize * ByteSize > 0
  BY ByteSizeAssumption
<1> QED
  BY <1>1, ByteSizeAssumption DEF TopByte

\* What the handler does with the command in tohost.
LEMMA HandlerFacts ==
  ASSUME NEW machine \in Machine, machine.exit_code = "running"
  PROVE  LET after == htif_handle_cmd(machine)
             high_word == machine.tohost.high
             supported == TopByte(high_word) = CONSOLE_DEVICE /\ SecondByte(high_word) \in {PUTCHAR, GETCHAR}
         IN  /\ after \in Machine
             /\ after.tohost = IF supported THEN Zero64 ELSE machine.tohost
             /\ after.output # machine.output =>
                  supported /\ after.output = Append(machine.output, LastByte(machine.tohost.low))
             /\ after.exit_code = "EXIT_POWEROFF" => machine.tohost = [high |-> 0, low |-> 1]
<1> DEFINE after == htif_handle_cmd(machine)
           high_word == machine.tohost.high
           device == TopByte(high_word)
           cmd == SecondByte(high_word)
           supported == device = CONSOLE_DEVICE /\ cmd \in {PUTCHAR, GETCHAR}
           answer == device * ByteSize * ByteSize * ByteSize + cmd * ByteSize * ByteSize
           char == LastByte(machine.tohost.low)
<1>z. Zero64 \in Register64 /\ machine.tohost \in Register64 /\ machine.output \in Seq(Nat)
  BY InitialMachineType DEF Machine
<1>1. CASE machine.tohost = [high |-> 0, low |-> 1]
  <2>1. ~supported
    BY <1>1, ZeroIsNoCommand DEF CONSOLE_DEVICE
  <2>2. after = [machine EXCEPT !.exit_code = "EXIT_POWEROFF"]
    BY <1>1 DEF htif_handle_cmd
  <2> HIDE DEF supported, after
  <2>3. after \in Machine /\ after.tohost = machine.tohost /\ after.output = machine.output
    BY <2>2 DEF Machine
  <2> QED
    BY <2>1, <2>3, <1>1 DEF supported, after
<1>2. CASE machine.tohost # [high |-> 0, low |-> 1] /\ device = CONSOLE_DEVICE /\ cmd = PUTCHAR
  <2>1. char \in Nat /\ answer \in Nat
    <3>1. machine.tohost.low \in Nat
      BY <1>z DEF Register64
    <3> QED
      BY <3>1, <1>2, ZeroIsNoCommand DEF LastByte, CONSOLE_DEVICE, PUTCHAR
  <2>2. after = [Consumed(Printed(machine, char)) EXCEPT !.fromhost = [high |-> answer, low |-> 0]]
    BY <1>2 DEF htif_handle_cmd
  <2>3. [high |-> answer, low |-> 0] \in Register64
    BY <2>1 DEF Register64
  <2> DEFINE reply == [high |-> answer, low |-> 0]
             next == Append(machine.output, char)
  <2>4. next \in Seq(Nat)
    BY <2>1, <1>z
  <2> HIDE DEF answer, char, after, reply, next
  <2>5. /\ Printed(machine, char) \in Machine /\ Printed(machine, char).output = next
        /\ Printed(machine, char).exit_code = "running"
    BY <2>4 DEF Printed, Machine, next
  <2>6. after = [[Printed(machine, char) EXCEPT !.tohost = Zero64] EXCEPT !.fromhost = reply]
    BY <2>2 DEF Consumed, reply
  <2>7. /\ after \in Machine /\ after.tohost = Zero64 /\ after.output = next /\ after.exit_code = "running"
    BY <2>3, <2>5, <2>6, <1>z DEF Machine, reply
  <2> QED
    BY <2>7, <1>2 DEF after, next, char
<1>3. CASE machine.tohost # [high |-> 0, low |-> 1] /\ device = CONSOLE_DEVICE /\ cmd = GETCHAR
  <2>1. after = [machine EXCEPT !.tohost = Zero64]
    BY <1>3 DEF htif_handle_cmd, Consumed, PUTCHAR, GETCHAR
  <2>2. /\ after \in Machine /\ after.tohost = Zero64 /\ after.output = machine.output
        /\ after.exit_code = "running"
    BY <2>1, <1>z, TohostStored
  <2> QED
    BY <2>2, <1>3
<1>4. CASE machine.tohost # [high |-> 0, low |-> 1] /\ ~supported
  <2>1. after = machine
    BY <1>4 DEF htif_handle_cmd
  <2> QED
    BY <2>1, <1>4
<1> QED
  BY <1>1, <1>2, <1>3, <1>4

\* An address in the UART's range is its offset from the UART's base.
LEMMA UartAtBase ==
  ASSUME DevicesInv, NEW a \in Nat, Target(map, a).name = "uart"
  PROVE  a = UART_BASE_ADDR + Target(map, a).offset
<1>1. Covering(map, a) # {}
  BY DEF Target
<1>2. PICK i \in DOMAIN map : Covers(map[i], a)
  BY <1>1 DEF Covering
<1>3. Target(map, a) = [name |-> map[i].name, is_ram |-> map[i].is_ram, offset |-> a - map[i].address]
  BY <1>2, MapWellFormed, LookupFindsRange
<1>4. map[i].name = "uart" /\ map[i] = Registrations[i] /\ i \in 1 .. 5
  BY <1>3, RegistrationsApart DEF DevicesInv
<1>5. map[i].address = UART_BASE_ADDR
  BY <1>4, SMT DEF Registrations, MemoryRange
<1> QED
  BY <1>3, <1>5, SMT DEF UART_BASE_ADDR

\* A store to HTIF keeps the machine's type and mixes no commands.
LEMMA HtifStore ==
  ASSUME DevicesInv, Running, NEW offset, NEW val \in Nat
  PROVE  LET after == htif_write(vm, offset, val)
             completes == offset = 1 /\ TopByte(val) = CONSOLE_DEVICE /\ SecondByte(val) \in {PUTCHAR, GETCHAR}
         IN  /\ after \in Machine
             /\ offset = 0 => after.tohost = [high |-> 0, low |-> val]
             /\ completes => after.tohost = Zero64
             /\ offset # 0 /\ ~completes =>
                  /\ after.tohost.low = vm.tohost.low
                  /\ after.tohost.high = IF offset = 1 THEN val ELSE vm.tohost.high
             /\ after.output # vm.output =>
                  completes /\ after.output = Append(vm.output, LastByte(vm.tohost.low))
             /\ after.exit_code = "EXIT_POWEROFF" => offset = 1 /\ val = 0 /\ vm.tohost.low = 1
<1> DEFINE after == htif_write(vm, offset, val)
           stored == [vm EXCEPT !.tohost = StoreHigh(@, val)]
<1>1. /\ vm \in Machine /\ vm.tohost \in Register64 /\ vm.fromhost \in Register64
      /\ vm.exit_code = "running"
  BY DEF DevicesInv, Machine, Running
<1>2. CASE offset = 0
  <2>1. after = [vm EXCEPT !.tohost = StoreLow(val)]
    BY <1>2 DEF htif_write
  <2> QED
    BY <2>1, <1>1, <1>2, HalfStores, TohostStored
<1>3. CASE offset = 1
  <2>1. after = htif_handle_cmd(stored)
    BY <1>3 DEF htif_write
  <2>2. /\ stored \in Machine /\ stored.output = vm.output /\ stored.exit_code = "running"
        /\ stored.tohost = [high |-> val, low |-> vm.tohost.low]
    BY <1>1, HalfStores, TohostStored
  <2> DEFINE supported == TopByte(val) = CONSOLE_DEVICE /\ SecondByte(val) \in {PUTCHAR, GETCHAR}
  <2> HIDE DEF stored, after
  <2>3. /\ after \in Machine
        /\ after.tohost = IF supported THEN Zero64 ELSE stored.tohost
        /\ after.output # vm.output =>
             supported /\ after.output = Append(vm.output, LastByte(vm.tohost.low))
        /\ after.exit_code = "EXIT_POWEROFF" => stored.tohost = [high |-> 0, low |-> 1]
    BY <2>1, <2>2, HandlerFacts
  <2>4. after.exit_code = "EXIT_POWEROFF" => val = 0 /\ vm.tohost.low = 1
    BY <2>2, <2>3
  <2>5. ~supported => after.tohost.low = vm.tohost.low /\ after.tohost.high = val
    BY <2>2, <2>3
  <2> QED
    BY <2>3, <2>4, <2>5, <1>3 DEF after
<1>4. CASE offset \in {2, 3}
  <2>1. PICK r \in Register64 : after = [vm EXCEPT !.fromhost = r]
    BY <1>1, <1>4, HalfStores DEF htif_write
  <2> HIDE DEF after
  <2>2. after \in Machine /\ after.tohost = vm.tohost /\ after.output = vm.output /\ after.exit_code = "running"
    BY <2>1, <1>1 DEF Machine
  <2> QED
    BY <2>2, <1>4 DEF after
<1>5. CASE offset \notin {0, 1, 2, 3}
  <2>1. after = vm
    BY <1>5 DEF htif_write
  <2> QED
    BY <2>1, <1>1, <1>5
<1> QED
  BY <1>2, <1>3, <1>4, <1>5

\* What a store to another device or to memory changes of the machine.
LEMMA OtherStore ==
  ASSUME DevicesInv, Running, NEW name, name # "htif", NEW offset, NEW val \in Nat,
         StoreTo(name, offset, val)
  PROVE  /\ vm' \in Machine /\ vm'.tohost = vm.tohost /\ vm'.exit_code # "EXIT_POWEROFF"
         /\ vm'.output # vm.output =>
              /\ name = "uart" /\ offset = 0
              /\ vm'.output = Append(vm.output, LastByte(vm'.uart_reg[UART_REG_TXFIFO]))
<1>1. vm \in Machine /\ vm.timecmp \in Register64 /\ vm.exit_code = "running"
  BY DEF DevicesInv, Machine, Running
<1>2. CASE name = "clint"
  <2>1. vm' = vm \/ \E r \in Register64 : vm' = [vm EXCEPT !.timecmp = r]
    BY <1>1, <1>2, HalfStores DEF StoreTo, clint_write
  <2> QED
    BY <2>1, <1>1 DEF Machine
<1>3. CASE name = "uart" /\ offset \in UartRegister
  <2> DEFINE stored == [vm EXCEPT !.uart_reg = [@ EXCEPT ![offset] = val]]
  <2>1. vm' = IF offset = 0 /\ val \notin Unprintable THEN Printed(stored, LastByte(val)) ELSE stored
    BY <1>3 DEF StoreTo, uart_write, UART_REG_TXFIFO
  <2>2. /\ stored \in Machine /\ stored.tohost = vm.tohost /\ stored.output = vm.output
        /\ stored.exit_code = "running" /\ (offset = 0 => stored.uart_reg[0] = val)
    BY <1>1, <1>3 DEF Machine
  <2>3. LastByte(val) \in Nat
    BY ByteSizeAssumption DEF LastByte
  <2> HIDE DEF stored
  <2>4. Append(stored.output, LastByte(val)) \in Seq(Nat)
    BY <2>2, <2>3 DEF Machine
  <2>5. CASE offset = 0 /\ val \notin Unprintable
    <3>1. vm' = [stored EXCEPT !.output = Append(@, LastByte(val))]
      BY <2>1, <2>5 DEF Printed
    <3>2. /\ vm' \in Machine /\ vm'.tohost = stored.tohost /\ vm'.exit_code = stored.exit_code
          /\ vm'.output = Append(stored.output, LastByte(val)) /\ vm'.uart_reg = stored.uart_reg
      BY <3>1, <2>2, <2>4 DEF Machine
    <3> QED
      BY <3>2, <2>2, <2>5, <1>3 DEF UART_REG_TXFIFO
  <2>6. CASE ~(offset = 0 /\ val \notin Unprintable)
    BY <2>1, <2>2, <2>6
  <2> QED
    BY <2>5, <2>6
<1>4. CASE name = "uart" /\ offset \notin UartRegister
  <2>1. vm' = [vm EXCEPT !.exit_code = "undefined"] \/ vm' = vm
    BY <1>4 DEF StoreTo, Ends
  <2> QED
    BY <2>1, <1>1 DEF Machine
<1>5. CASE name \notin {"clint", "uart"}
  <2>1. vm' = vm
    BY <1>5 DEF StoreTo
  <2> QED
    BY <2>1, <1>1
<1> QED
  BY <1>2, <1>3, <1>4, <1>5

\* A guest's store keeps the invariant and shows only what a command says.
LEMMA StoreKeepsInv ==
  ASSUME DevicesInv, NEW store \in GuestStore, Store(store[1], store[2])
  PROVE  DevicesInv' /\ OutputFollowsCommand
<1> DEFINE val == store[2]
           target == Target(map, address')
           completes == target.offset = 1 /\ TopByte(val) = CONSOLE_DEVICE /\ SecondByte(val) \in {PUTCHAR, GETCHAR}
<1>1. address' \in Nat /\ val \in Nat /\ map' = map /\ Running
  BY GuestAssumption, SMT DEF Store, Executing, Half
<1>2. StoreTo(target.name, target.offset, val)
  BY DEF Store
<1>3. low_stored' = IF target.name = "htif" /\ target.offset = 0 THEN val
                    ELSE IF target.name = "htif" /\ completes THEN 0 ELSE low_stored
  BY DEF Store, CompletesCommand
<1>4. low_stored' \in Nat /\ low_stored \in Nat /\ vm.tohost.low = low_stored /\ vm.tohost \in Register64
  BY <1>1, <1>3 DEF DevicesInv, CommandsDoNotMix, Machine
<1>5. CASE target.name = "htif"
  <2> DEFINE after == htif_write(vm, target.offset, val)
  <2>1. vm' = after
    BY <1>2, <1>5 DEF StoreTo
  <2>2. /\ after \in Machine
        /\ target.offset = 0 => after.tohost = [high |-> 0, low |-> val]
        /\ completes => after.tohost = Zero64
        /\ target.offset # 0 /\ ~completes =>
             /\ after.tohost.low = vm.tohost.low
             /\ after.tohost.high = IF target.offset = 1 THEN val ELSE vm.tohost.high
        /\ after.output # vm.output =>
             completes /\ after.output = Append(vm.output, LastByte(vm.tohost.low))
        /\ after.exit_code = "EXIT_POWEROFF" => target.offset = 1 /\ val = 0 /\ vm.tohost.low = 1
    BY <1>1, HtifStore
  <2> HIDE DEF after, target
  <2>3. CommandsDoNotMix'
    <3>1. vm'.tohost.low = low_stored'
      BY <2>1, <2>2, <1>3, <1>4, <1>5 DEF Zero64
    <3>2. vm'.tohost.high # 0 =>
            ~(TopByte(vm'.tohost.high) = CONSOLE_DEVICE /\ SecondByte(vm'.tohost.high) \in {PUTCHAR, GETCHAR})
      BY <2>1, <2>2 DEF Zero64, DevicesInv, CommandsDoNotMix
    <3> QED
      BY <3>1, <3>2 DEF CommandsDoNotMix
  <2>4. vm'.exit_code = "EXIT_POWEROFF" => target.offset = 1 /\ low_stored = 1 /\ vm'.tohost.high = 0
    <3> SUFFICES ASSUME vm'.exit_code = "EXIT_POWEROFF"
                 PROVE  target.offset = 1 /\ low_stored = 1 /\ vm'.tohost.high = 0
      OBVIOUS
    <3>1. target.offset = 1 /\ val = 0 /\ low_stored = 1
      BY <2>1, <2>2, <1>4
    <3>2. ~completes
      BY <3>1, ZeroIsNoCommand DEF CONSOLE_DEVICE
    <3> QED
      BY <3>1, <3>2, <2>1, <2>2
  <2>5. OutputFollowsCommand
    BY <2>1, <2>2, <2>4, <1>4, <1>5 DEF OutputFollowsCommand, ByHtif, target
  <2> QED
    BY <2>1, <2>2, <2>3, <2>5, <1>1, <1>4 DEF DevicesInv
<1>6. CASE target.name # "htif"
  <2>1. /\ vm' \in Machine /\ vm'.tohost = vm.tohost /\ vm'.exit_code # "EXIT_POWEROFF"
        /\ vm'.output # vm.output =>
             /\ target.name = "uart" /\ target.offset = 0
             /\ vm'.output = Append(vm.output, LastByte(vm'.uart_reg[UART_REG_TXFIFO]))
    BY <1>1, <1>2, <1>6, OtherStore
  <2>2. target.name = "uart" /\ target.offset = 0 => address' = UART_BASE_ADDR
    BY <1>1, UartAtBase, SMT DEF UART_BASE_ADDR
  <2>3. OutputFollowsCommand
    BY <2>1, <2>2 DEF OutputFollowsCommand
  <2>4. CommandsDoNotMix'
    BY <2>1, <1>3, <1>6 DEF CommandsDoNotMix, DevicesInv
  <2> QED
    BY <2>1, <2>3, <2>4, <1>1, <1>4 DEF DevicesInv
<1> QED
  BY <1>5, <1>6

\* Every step of the devices keeps the invariant and shows only what a command says.
LEMMA NextKeepsDevicesInv ==
  ASSUME DevicesInv, [DevicesNext]_deviceVars
  PROVE  DevicesInv' /\ OutputFollowsCommand
<1>1. CASE Register
  <2>1. /\ Len(map) < 5 /\ map' = Append(map, Registrations[Len(map) + 1])
        /\ UNCHANGED <<vm, address, low_stored>>
    BY <1>1, RegistrationsApart DEF Register, Registered
  <2>2. /\ map \in Seq(MapEntry) /\ Registrations \in Seq(MapEntry) /\ Len(Registrations) = 5
        /\ \A i \in DOMAIN map : map[i] = Registrations[i]
    BY RegistrationsApart DEF DevicesInv, WellFormedMap
  <2>3. Registrations[Len(map) + 1] \in MapEntry
    BY <2>1, <2>2
  <2>4. map' \in Seq(MapEntry) /\ Len(map') = Len(map) + 1 /\ Len(map') <= 5
    BY <2>1, <2>2, <2>3
  <2>5. \A i \in DOMAIN map' : map'[i] = Registrations[i]
    BY <2>1, <2>2, <2>3
  <2>6. OutputFollowsCommand
    BY <2>1 DEF OutputFollowsCommand
  <2> QED
    BY <2>1, <2>2, <2>4, <2>5, <2>6 DEF DevicesInv, CommandsDoNotMix
<1>2. CASE AccessNowhere
  <2>1. address' \in Nat
    BY <1>2, GuestAssumption, SMT DEF AccessNowhere
  <2>2. vm' = [vm EXCEPT !.exit_code = "crashed"] /\ map' = map /\ low_stored' = low_stored /\ vm \in Machine
    BY <1>2 DEF AccessNowhere, Ends, DevicesInv
  <2>3. vm' \in Machine /\ vm'.tohost = vm.tohost /\ vm'.output = vm.output /\ vm'.exit_code = "crashed"
    BY <2>2 DEF Machine
  <2> QED
    BY <2>1, <2>2, <2>3 DEF DevicesInv, CommandsDoNotMix, OutputFollowsCommand
<1>3. CASE LoadDevice
  <2>1. address' \in Nat
    BY <1>3, GuestAssumption, SMT DEF LoadDevice
  <2> QED
    BY <2>1, <1>3 DEF LoadDevice, DevicesInv, CommandsDoNotMix, OutputFollowsCommand
<1>4. ASSUME NEW store \in GuestStore, Store(store[1], store[2])
      PROVE  DevicesInv' /\ OutputFollowsCommand
  BY <1>4, StoreKeepsInv
<1>5. CASE UNCHANGED deviceVars
  BY <1>5 DEF deviceVars, DevicesInv, CommandsDoNotMix, OutputFollowsCommand
<1> QED
  BY <1>1, <1>2, <1>3, <1>4, <1>5 DEF DevicesNext

\* The invariant of the devices.
LEMMA DevicesInvariant == DevicesSpec => []DevicesInv
<1>1. DevicesInit => DevicesInv
  <2> SUFFICES ASSUME DevicesInit PROVE DevicesInv
    OBVIOUS
  <2>1. map = <<>> /\ Len(map) <= Len(Registrations) /\ map \in Seq(MapEntry)
    BY RegistrationsApart DEF DevicesInit
  <2>2. vm \in Machine /\ vm.tohost = Zero64 /\ low_stored = 0 /\ address = 0
    BY InitialMachineType DEF DevicesInit, InitialMachine
  <2> QED
    BY <2>1, <2>2 DEF DevicesInv, CommandsDoNotMix, Zero64
<1>2. DevicesInv /\ [DevicesNext]_deviceVars => DevicesInv'
  BY NextKeepsDevicesInv
<1> QED
  BY <1>1, <1>2, PTL DEF DevicesSpec

\* The lookup hands out a pointer inside the range it found, and no other range
\* claims the address, for every set of addresses a guest uses.
THEOREM LookupsStayInside == DevicesSpec => []TargetInside
BY DevicesInvariant, InsideFromInv, PTL

\* tohost never holds parts of two commands, for every byte size and every set
\* of stores.
THEOREM CommandsNeverMix == DevicesSpec => []CommandsDoNotMix
<1>1. DevicesInv => CommandsDoNotMix
  BY DEF DevicesInv
<1> QED
  BY <1>1, DevicesInvariant, PTL

\* Characters and the power-off come from complete commands or the UART's
\* transmit register only.
THEOREM OutputIsCommanded == DevicesSpec => OutputOnlyByCommand
<1>1. DevicesInv /\ [DevicesNext]_deviceVars => [OutputFollowsCommand]_deviceVars
  BY NextKeepsDevicesInv
<1> QED
  BY <1>1, DevicesInvariant, PTL DEF DevicesSpec, OutputOnlyByCommand

-----------------------------------------------------------------------------
(***************************************************************************)
(* The console driver.                                                     *)
(***************************************************************************)
Steps == {"idle", "wait_low", "wait_high", "store_low", "store_high"}

Request == Char \cup {PowerOff, Nothing}

\* tohost is empty except between the driver's two stores, where it holds the
\* low word of the request alone; a request lives from AskFor to the second store.
DriverInv ==
  /\ vm \in Machine
  /\ step \in Steps
  /\ request \in Request
  /\ step = "idle" => request = Nothing
  /\ step = "store_high" => vm.tohost = [high |-> 0, low |-> LowWord]
  /\ step # "store_high" /\ Running => vm.tohost = Zero64
  /\ ~Running => step = "idle"

\* Division: a quotient is what leaves a remainder smaller than the divisor.
LEMMA Quotient ==
  ASSUME NEW d \in Nat, d > 0, NEW r \in Nat, r < d
  PROVE  (d + r) \div d = 1 /\ r \div d = 0
OBVIOUS

\* Dividing by the size of a byte undoes multiplying by it.
LEMMA MultipleQuotient ==
  ASSUME NEW d \in Nat, d > 0, NEW q \in Nat
  PROVE  (q * d) \div d = q
OBVIOUS

\* The remainders of a device and a command number.
LEMMA Remainder ==
  ASSUME NEW d \in Nat, d >= 2
  PROVE  (d + 1) % d = 1 /\ d % d = 0
OBVIOUS

\* The driver's command words decode to the console device and the command.
LEMMA CommandFacts ==
  ASSUME NEW cmd \in {PUTCHAR, GETCHAR}
  PROVE  TopByte(Command(cmd)) = CONSOLE_DEVICE /\ SecondByte(Command(cmd)) = cmd
<1> DEFINE S == ByteSize * ByteSize
           T == ByteSize * ByteSize * ByteSize
<1>b. ByteSize \in Nat /\ ByteSize >= 2 /\ cmd \in {0, 1}
  BY ByteSizeAssumption DEF PUTCHAR, GETCHAR
<1>1. S \in Nat /\ S > 0 /\ T \in Nat /\ T = S * ByteSize /\ T > S
  BY <1>b
<1>2. Command(cmd) = T + cmd * S /\ Command(cmd) = (ByteSize + cmd) * S
  BY <1>b DEF Command, CONSOLE_DEVICE
<1>3. cmd * S \in Nat /\ cmd * S < T
  BY <1>b, <1>1
<1> HIDE DEF S, T
<1>4. (T + cmd * S) \div T = 1
  BY <1>1, <1>3, Quotient
<1>5. ((ByteSize + cmd) * S) \div S = ByteSize + cmd
  BY <1>1, <1>b, MultipleQuotient
<1>6. (ByteSize + cmd) % ByteSize = cmd
  BY <1>b, Remainder
<1> QED
  BY <1>2, <1>4, <1>5, <1>6 DEF TopByte, SecondByte, CONSOLE_DEVICE, S, T

\* What the second store does: the request is carried out and tohost is empty again.
LEMMA SecondStore ==
  ASSUME vm \in Machine, request \in Request, Running,
         vm.tohost = [high |-> 0, low |-> LowWord]
  PROVE  LET after == htif_write(vm, 1, HighWord)
         IN  /\ after \in Machine
             /\ after.exit_code = "running" => after.tohost = Zero64
             /\ request = PowerOff => after.output = vm.output /\ after.exit_code = "EXIT_POWEROFF"
             /\ request \in Char => after.output = Append(vm.output, request) /\ after.exit_code = "running"
             /\ request = Nothing => after.output = vm.output /\ after.exit_code = "running"
<1> DEFINE stored == [vm EXCEPT !.tohost = StoreHigh(@, HighWord)]
           after == htif_write(vm, 1, HighWord)
<1>n. ByteSize \in Nat /\ ByteSize >= 2 /\ PowerOff \notin Char /\ Nothing \notin Char /\ Nothing # PowerOff
  BY ByteSizeAssumption, NothingAssumption DEF PowerOff, Char
<1>h. HighWord \in Nat /\ LowWord \in Nat
  BY <1>n DEF HighWord, LowWord, Command, CONSOLE_DEVICE, PUTCHAR, GETCHAR, Char, PowerOff
<1>s. /\ stored \in Machine /\ stored.output = vm.output /\ stored.exit_code = "running"
      /\ stored.tohost = [high |-> HighWord, low |-> LowWord]
  <2>1. vm.tohost \in Register64
    BY DEF Machine
  <2>2. StoreHigh(vm.tohost, HighWord) = [high |-> HighWord, low |-> LowWord]
    BY <2>1, <1>h, HalfStores
  <2> QED
    BY <2>1, <2>2, <1>h, HalfStores, TohostStored DEF Running
<1>a. after = htif_handle_cmd(stored)
  BY DEF htif_write
<1>z. Zero64 \in Register64
  BY InitialMachineType
<1> HIDE DEF stored, after
<1>1. CASE request = PowerOff
  <2>1. stored.tohost = [high |-> 0, low |-> 1]
    BY <1>1, <1>s, <1>n DEF HighWord, LowWord
  <2>2. after = [stored EXCEPT !.exit_code = "EXIT_POWEROFF"]
    BY <2>1, <1>a DEF htif_handle_cmd
  <2> QED
    BY <2>2, <1>1, <1>s, <1>n DEF Machine, after
<1>2. CASE request \in Char
  <2>1. HighWord = Command(PUTCHAR) /\ LowWord = request
    BY <1>2, <1>n DEF HighWord, LowWord
  <2>2. TopByte(stored.tohost.high) = CONSOLE_DEVICE /\ SecondByte(stored.tohost.high) = PUTCHAR
    BY <2>1, <1>s, CommandFacts
  <2>3. stored.tohost # [high |-> 0, low |-> 1]
    <3>1. Command(PUTCHAR) # 0
      BY <1>n DEF Command, CONSOLE_DEVICE, PUTCHAR
    <3> QED
      BY <3>1, <2>1, <1>s
  <2>4. LastByte(stored.tohost.low) = request
    BY <1>2, <1>n, <1>s, <2>1 DEF LastByte, Char
  <2> DEFINE answer == [high |-> CONSOLE_DEVICE * ByteSize * ByteSize * ByteSize
                                   + PUTCHAR * ByteSize * ByteSize, low |-> 0]
  <2>5. after = [Consumed(Printed(stored, request)) EXCEPT !.fromhost = answer]
    BY <2>2, <2>3, <2>4, <1>a DEF htif_handle_cmd
  <2>6. answer \in Register64
    BY <1>n DEF Register64, CONSOLE_DEVICE, PUTCHAR
  <2> HIDE DEF answer
  <2>7. Append(stored.output, request) \in Seq(Nat)
    BY <1>2, <1>s, <1>n DEF Machine, Char
  <2>8. /\ Printed(stored, request) \in Machine
        /\ Printed(stored, request).output = Append(vm.output, request)
        /\ Printed(stored, request).exit_code = "running"
    BY <2>7, <1>s DEF Printed, Machine
  <2> QED
    BY <2>5, <2>6, <2>8, <1>2, <1>n, <1>z DEF Consumed, Machine, after
<1>3. CASE request = Nothing
  <2>1. HighWord = Command(GETCHAR)
    BY <1>3, <1>n DEF HighWord
  <2>2. TopByte(stored.tohost.high) = CONSOLE_DEVICE /\ SecondByte(stored.tohost.high) = GETCHAR
    BY <2>1, <1>s, CommandFacts
  <2>3. stored.tohost # [high |-> 0, low |-> 1]
    <3>1. Command(GETCHAR) # 0
      BY <1>n DEF Command, CONSOLE_DEVICE, GETCHAR
    <3> QED
      BY <3>1, <2>1, <1>s
  <2>4. after = Consumed(stored)
    BY <2>2, <2>3, <1>a DEF htif_handle_cmd, PUTCHAR, GETCHAR
  <2> QED
    BY <2>4, <1>3, <1>s, <1>n, <1>z DEF Consumed, Machine, after
<1> QED
  BY <1>1, <1>2, <1>3 DEF Request, after

\* Every step of the driver keeps the invariant.
LEMMA NextKeepsDriverInv ==
  ASSUME DriverInv, DriverNext
  PROVE  DriverInv'
<1>n. ByteSize \in Nat /\ ByteSize >= 2 /\ PowerOff \notin Char /\ Nothing \notin Char /\ Nothing # PowerOff
  BY ByteSizeAssumption, NothingAssumption DEF PowerOff, Char
<1>1. ASSUME NEW r \in Char \cup {PowerOff}, AskFor(r) PROVE DriverInv'
  BY <1>1 DEF DriverInv, AskFor, Running, Steps, Request
<1>2. CASE Poll
  BY <1>2 DEF DriverInv, Poll, Running, Steps
<1>3. ASSUME NEW from \in {"wait_low", "wait_high"}, NEW offset, NEW to \in {"wait_high", "store_low"},
             Wait(from, offset, to)
      PROVE  DriverInv'
  BY <1>3 DEF DriverInv, Wait, Running, Steps
<1>4. CASE StoreLowWord
  <2>1. LowWord \in Nat /\ LowWord' = LowWord
    BY <1>4, <1>n DEF StoreLowWord, LowWord, Char, PowerOff
  <2>2. vm' = [vm EXCEPT !.tohost = [high |-> 0, low |-> LowWord]]
    BY <1>4 DEF StoreLowWord, htif_write, StoreLow
  <2>3. vm' \in Machine /\ vm'.tohost = [high |-> 0, low |-> LowWord] /\ vm'.exit_code = vm.exit_code
    BY <2>1, <2>2 DEF DriverInv, Machine, Register64
  <2> QED
    BY <2>1, <2>3, <1>4 DEF StoreLowWord, DriverInv, Running, Steps
<1>5. CASE StoreHighWord
  <2>1. vm' \in Machine /\ (vm'.exit_code = "running" => vm'.tohost = Zero64)
    BY <1>5, SecondStore DEF StoreHighWord, DriverInv
  <2> QED
    BY <2>1, <1>5 DEF StoreHighWord, DriverInv, Running, Steps, Request
<1> QED
  BY <1>1, <1>2, <1>3, <1>4, <1>5 DEF DriverNext, DriverStep

\* The invariant holds in every state of driver and registers.
LEMMA DriverInvariant == DriverSpec => []DriverInv
<1>1. DriverInit => DriverInv
  <2> SUFFICES ASSUME DriverInit PROVE DriverInv
    OBVIOUS
  <2> QED
    BY InitialMachineType DEF DriverInit, DriverInv, InitialMachine, Running, Steps, Request
<1>2. DriverInv /\ [DriverNext]_driverVars => DriverInv'
  <2> SUFFICES ASSUME DriverInv, [DriverNext]_driverVars PROVE DriverInv'
    OBVIOUS
  <2>1. CASE DriverNext
    BY <2>1, NextKeepsDriverInv
  <2>2. CASE UNCHANGED driverVars
    BY <2>2 DEF driverVars, DriverInv, Running, LowWord
  <2> QED
    BY <2>1, <2>2
<1> QED
  BY <1>1, <1>2, PTL DEF DriverSpec

\* Every step of the driver is a step of the console or leaves it alone.
LEMMA NextIsConsoleStep ==
  ASSUME DriverInv, DriverNext
  PROVE  [AbstractConsole!ConsoleNext]_(AbstractConsole!consoleVars)
<1> DEFINE off == vm.exit_code = "EXIT_POWEROFF"
<1>n. PowerOff \notin Char /\ Nothing \notin Char /\ Nothing # PowerOff
  BY ByteSizeAssumption, NothingAssumption DEF PowerOff, Char
<1>1. ASSUME NEW r \in Char \cup {PowerOff}, AskFor(r) PROVE AbstractConsole!Ask(r)
  <2>1. request = Nothing /\ ~off /\ request' = r /\ vm' = vm
    BY <1>1 DEF AskFor, DriverInv, Running
  <2> QED
    BY <2>1 DEF AbstractConsole!Ask
<1>2. CASE Poll \/ Wait("wait_low", 0, "wait_high") \/ Wait("wait_high", 1, "store_low")
  BY <1>2 DEF Poll, Wait, AbstractConsole!consoleVars
<1>3. CASE StoreLowWord
  <2>1. vm' = [vm EXCEPT !.tohost = [high |-> 0, low |-> LowWord]] /\ request' = request
    BY <1>3 DEF StoreLowWord, htif_write, StoreLow
  <2>2. vm'.output = vm.output /\ vm'.exit_code = vm.exit_code
    BY <2>1 DEF DriverInv, Machine
  <2> QED
    BY <2>1, <2>2 DEF AbstractConsole!consoleVars
<1>4. CASE StoreHighWord
  <2> DEFINE after == htif_write(vm, 1, HighWord)
  <2>1. /\ request = PowerOff => after.output = vm.output /\ after.exit_code = "EXIT_POWEROFF"
        /\ request \in Char => after.output = Append(vm.output, request) /\ after.exit_code = "running"
        /\ request = Nothing => after.output = vm.output /\ after.exit_code = "running"
    BY <1>4, SecondStore DEF StoreHighWord, DriverInv
  <2>2. vm' = after /\ request' = Nothing /\ vm.exit_code = "running"
    BY <1>4 DEF StoreHighWord, Running
  <2> HIDE DEF after
  <2>3. CASE request = PowerOff
    BY <2>1, <2>2, <2>3 DEF AbstractConsole!ConsoleNext, AbstractConsole!TurnOff
  <2>4. CASE request \in Char
    BY <2>1, <2>2, <2>4 DEF AbstractConsole!ConsoleNext, AbstractConsole!Show
  <2>5. CASE request = Nothing
    BY <2>1, <2>2, <2>5 DEF AbstractConsole!consoleVars
  <2> QED
    BY <2>3, <2>4, <2>5 DEF DriverInv, Request
<1> QED
  BY <1>1, <1>2, <1>3, <1>4 DEF DriverNext, DriverStep, AbstractConsole!ConsoleNext

\* What is asked of the driver is shown once and in order, a poll shows nothing,
\* and the machine goes off only when asked: the two 32-bit stores to tohost act
\* as one command, for every byte size.
THEOREM DriverIsConsole == DriverSpec => ShowsWhatIsAsked
<1>1. DriverInit => AbstractConsole!ConsoleInit
  BY DEF DriverInit, InitialMachine, AbstractConsole!ConsoleInit
<1>2. DriverInv /\ [DriverNext]_driverVars => [AbstractConsole!ConsoleNext]_(AbstractConsole!consoleVars)
  <2> SUFFICES ASSUME DriverInv, [DriverNext]_driverVars
               PROVE  [AbstractConsole!ConsoleNext]_(AbstractConsole!consoleVars)
    OBVIOUS
  <2>1. CASE DriverNext
    BY <2>1, NextIsConsoleStep
  <2>2. CASE UNCHANGED driverVars
    BY <2>2 DEF driverVars, AbstractConsole!consoleVars
  <2> QED
    BY <2>1, <2>2
<1> QED
  BY <1>1, <1>2, DriverInvariant, PTL DEF DriverSpec, ShowsWhatIsAsked

-----------------------------------------------------------------------------
(***************************************************************************)
(* The clock and the alarm.                                                *)
(***************************************************************************)
Phases == {"other", "read_low", "check", "again", "store_low", "store_high"}

\* What the guest has read of the time is a time the clock had since it began;
\* the comparator holds the deadline except between the two stores.
ClockInv ==
  /\ vm \in Machine
  /\ counted \in Nat /\ started \in 0 .. counted
  /\ vm.cycles = instruction_counter(counted)
  /\ phase \in Phases
  /\ high = 0 /\ low \in Nat /\ deadline \in Register64
  /\ phase \in {"check", "again", "store_low"} =>
       \E n \in started .. counted : low = instruction_counter(n)
  /\ phase \notin {"store_low", "store_high"} => vm.timecmp = deadline
  /\ phase = "store_high" => vm.timecmp = [high |-> 0, low |-> deadline.low]

\* A half has values, and the counter, a half, has no high half.
LEMMA CounterIsHalf ==
  /\ HalfSize \in Nat /\ HalfSize > 0
  /\ \A n \in Nat : /\ instruction_counter(n) \in Nat
                    /\ instruction_counter(n) \div HalfSize = 0
                    /\ instruction_counter(n) % HalfSize = instruction_counter(n)
<1>1. HalfSize \in Nat /\ HalfSize > 0
  <2>1. ByteSize * ByteSize \in Nat /\ ByteSize * ByteSize > 0
    BY ByteSizeAssumption
  <2>2. HalfSize = (ByteSize * ByteSize) * (ByteSize * ByteSize)
    BY ByteSizeAssumption DEF HalfSize
  <2> QED
    BY <2>1, <2>2
<1> HIDE DEF HalfSize
<1> QED
  BY <1>1 DEF instruction_counter

\* What an instruction does to the clock, whatever else it stores.
LEMMA ExecutedFacts ==
  ASSUME ClockInv, NEW machine \in Machine, Executed(machine)
  PROVE  /\ vm' \in Machine /\ vm'.timecmp = machine.timecmp
         /\ counted' \in Nat /\ counted' = counted + 1
         /\ vm'.cycles = instruction_counter(counted')
<1>1. counted' = counted + 1 /\ counted' \in Nat /\ vm' = [machine EXCEPT !.cycles = instruction_counter(counted')]
  BY DEF Executed, ClockInv
<1>2. instruction_counter(counted') \in Nat
  BY <1>1, CounterIsHalf
<1> QED
  BY <1>1, <1>2 DEF Machine

\* The two halves of the time.
LEMMA TimeRead ==
  ASSUME ClockInv
  PROVE  /\ clint_read(vm, SIFIVE_TIME_HIGH) = 0
         /\ clint_read(vm, SIFIVE_TIME_LOW) = instruction_counter(counted)
<1>1. /\ clint_read(vm, SIFIVE_TIME_HIGH) = vm.cycles \div HalfSize
      /\ clint_read(vm, SIFIVE_TIME_LOW) = vm.cycles % HalfSize
  BY SMT DEF clint_read, SIFIVE_TIME_HIGH, SIFIVE_TIME_LOW, SIFIVE_TIMECMP_LOW, SIFIVE_TIMECMP_HIGH
<1> QED
  BY <1>1, CounterIsHalf DEF ClockInv

\* The two stores to the comparator.
LEMMA AlarmStores ==
  ASSUME NEW machine \in Machine, NEW half \in Nat
  PROVE  /\ clint_write(machine, SIFIVE_TIMECMP_LOW, half) \in Machine
         /\ clint_write(machine, SIFIVE_TIMECMP_LOW, half).timecmp = [high |-> 0, low |-> half]
         /\ clint_write(machine, SIFIVE_TIMECMP_HIGH, half) \in Machine
         /\ clint_write(machine, SIFIVE_TIMECMP_HIGH, half).timecmp = [high |-> half, low |-> machine.timecmp.low]
<1>1. /\ clint_write(machine, SIFIVE_TIMECMP_LOW, half) = [machine EXCEPT !.timecmp = StoreLow(half)]
      /\ clint_write(machine, SIFIVE_TIMECMP_HIGH, half) =
           [machine EXCEPT !.timecmp = StoreHigh(machine.timecmp, half)]
  BY SMT DEF clint_write, SIFIVE_TIMECMP_LOW, SIFIVE_TIMECMP_HIGH
<1>2. machine.timecmp \in Register64
  BY DEF Machine
<1>3. ASSUME NEW r \in Register64
      PROVE  [machine EXCEPT !.timecmp = r] \in Machine /\ [machine EXCEPT !.timecmp = r].timecmp = r
  BY DEF Machine
<1> QED
  BY <1>1, <1>2, <1>3, HalfStores

\* Every instruction of the guest keeps the invariant.
LEMMA NextKeepsClockInv ==
  ASSUME ClockInv, ClockNext
  PROVE  ClockInv'
<1>0. vm \in Machine /\ counted \in Nat
  BY DEF ClockInv
<1>1. CASE Other
  <2>1. /\ vm' \in Machine /\ vm'.timecmp = vm.timecmp /\ counted' \in Nat /\ counted' = counted + 1
        /\ vm'.cycles = instruction_counter(counted')
    BY <1>0, <1>1, ExecutedFacts DEF Other
  <2> QED
    BY <2>1, <1>1 DEF Other, At, ClockInv, Phases
<1>2. CASE ReadHigh
  <2>1. /\ vm' \in Machine /\ vm'.timecmp = vm.timecmp /\ counted' \in Nat /\ counted' = counted + 1
        /\ vm'.cycles = instruction_counter(counted')
    BY <1>0, <1>2, ExecutedFacts DEF ReadHigh
  <2>2. high' = 0
    BY <1>2, TimeRead DEF ReadHigh
  <2> QED
    BY <2>1, <2>2, <1>2 DEF ReadHigh, At, ClockInv, Phases
<1>3. CASE ReadLow
  <2>1. /\ vm' \in Machine /\ vm'.timecmp = vm.timecmp /\ counted' \in Nat /\ counted' = counted + 1
        /\ vm'.cycles = instruction_counter(counted')
    BY <1>0, <1>3, ExecutedFacts DEF ReadLow
  <2>2. low' = instruction_counter(counted) /\ low' \in Nat
    BY <1>0, <1>3, TimeRead, CounterIsHalf DEF ReadLow
  <2>3. \E n \in started' .. counted' : low' = instruction_counter(n)
    BY <2>1, <2>2, <1>3 DEF ReadLow, ClockInv, instruction_counter
  <2>4. /\ phase = "read_low" /\ phase' = "check" /\ vm.timecmp = deadline
        /\ high' = 0 /\ deadline' = deadline /\ deadline \in Register64
        /\ started' = started /\ started \in 0 .. counted
    BY <1>3 DEF ReadLow, At, ClockInv
  <2> QED
    BY <2>1, <2>2, <2>3, <2>4 DEF ClockInv, Phases
<1>4. CASE CheckHigh
  <2> DEFINE sum == low + Delta
             reached == [high |-> high + sum \div HalfSize, low |-> sum % HalfSize]
  <2>1. /\ vm' \in Machine /\ vm'.timecmp = vm.timecmp /\ counted' \in Nat /\ counted' = counted + 1
        /\ vm'.cycles = instruction_counter(counted')
    BY <1>0, <1>4, ExecutedFacts DEF CheckHigh
  <2>2. phase = "check" /\ phase' = "store_low" /\ deadline' = reached
    BY <1>4, TimeRead DEF CheckHigh, At, ClockInv
  <2>3. reached \in Register64
    <3>1. sum \in Nat /\ high = 0
      BY ClockAssumption DEF ClockInv
    <3>2. sum \div HalfSize \in Nat /\ sum % HalfSize \in Nat
      BY <3>1, CounterIsHalf
    <3> QED
      BY <3>1, <3>2 DEF Register64
  <2>4. \E n \in started' .. counted' : low' = instruction_counter(n)
    BY <2>1, <2>2, <1>4 DEF CheckHigh, ClockInv, instruction_counter
  <2> HIDE DEF reached
  <2> QED
    BY <2>1, <2>2, <2>3, <2>4, <1>4 DEF CheckHigh, ClockInv, Phases
<1>5. CASE StoreDeadlineLow
  <2> DEFINE machine == clint_write(vm, SIFIVE_TIMECMP_LOW, deadline.low)
  <2>1. deadline \in Register64 /\ deadline.low \in Nat
    BY DEF ClockInv, Register64
  <2>2. machine \in Machine /\ machine.timecmp = [high |-> 0, low |-> deadline.low]
    BY <1>0, <2>1, AlarmStores
  <2>3. Executed(machine)
    BY <1>5 DEF StoreDeadlineLow
  <2> HIDE DEF machine
  <2>4. /\ vm' \in Machine /\ vm'.timecmp = machine.timecmp /\ counted' \in Nat /\ counted' = counted + 1
        /\ vm'.cycles = instruction_counter(counted')
    BY <2>2, <2>3, ExecutedFacts
  <2> QED
    BY <2>2, <2>4, <1>5 DEF StoreDeadlineLow, At, ClockInv, Phases
<1>6. CASE StoreDeadlineHigh
  <2> DEFINE machine == clint_write(vm, SIFIVE_TIMECMP_HIGH, deadline.high)
  <2>1. deadline \in Register64 /\ deadline.high \in Nat /\ deadline = [high |-> deadline.high, low |-> deadline.low]
    BY DEF ClockInv, Register64
  <2>2. machine \in Machine /\ machine.timecmp = [high |-> deadline.high, low |-> vm.timecmp.low]
    BY <1>0, <2>1, AlarmStores
  <2>3. Executed(machine) /\ vm.timecmp = [high |-> 0, low |-> deadline.low]
    BY <1>6 DEF StoreDeadlineHigh, At, ClockInv
  <2> HIDE DEF machine
  <2>4. /\ vm' \in Machine /\ vm'.timecmp = machine.timecmp /\ counted' \in Nat /\ counted' = counted + 1
        /\ vm'.cycles = instruction_counter(counted')
    BY <2>2, <2>3, ExecutedFacts
  <2>5. vm'.timecmp = deadline
    BY <2>1, <2>2, <2>3, <2>4
  <2> QED
    BY <2>4, <2>5, <1>6 DEF StoreDeadlineHigh, At, ClockInv, Phases
<1> QED
  BY <1>1, <1>2, <1>3, <1>4, <1>5, <1>6 DEF ClockNext

\* The invariant of clock and alarm.
LEMMA ClockInvariant == ClockSpec => []ClockInv
<1>1. ClockInit => ClockInv
  <2> SUFFICES ASSUME ClockInit PROVE ClockInv
    OBVIOUS
  <2>1. instruction_counter(0) = 0
    BY CounterIsHalf DEF instruction_counter
  <2>2. vm \in Machine /\ Zero64 \in Register64 /\ vm.cycles = 0 /\ vm.timecmp = Zero64
    BY InitialMachineType DEF ClockInit, InitialMachine
  <2> QED
    BY <2>1, <2>2 DEF ClockInit, ClockInv, Phases
<1>2. ClockInv /\ [ClockNext]_clockVars => ClockInv'
  <2> SUFFICES ASSUME ClockInv, [ClockNext]_clockVars PROVE ClockInv'
    OBVIOUS
  <2>1. CASE UNCHANGED clockVars
    BY <2>1 DEF clockVars, ClockInv
  <2> QED
    BY <2>1, NextKeepsClockInv
<1> QED
  BY <1>1, <1>2, PTL DEF ClockSpec

\* Whatever the byte size and however often the counter wraps, the guest reads a
\* time the clock had while it read.
THEOREM TimeIsNeverTorn == ClockSpec => []TimeNotTorn
<1>1. ClockInv => TimeNotTorn
  <2> SUFFICES ASSUME ClockInv, phase = "store_low"
               PROVE  \E n \in started .. counted : [high |-> high, low |-> low] =
                        [high |-> instruction_counter(n) \div HalfSize, low |-> instruction_counter(n) % HalfSize]
    BY DEF TimeNotTorn
  <2>1. PICK n \in started .. counted : low = instruction_counter(n)
    BY DEF ClockInv
  <2>2. n \in Nat /\ high = 0
    BY DEF ClockInv
  <2>3. high = instruction_counter(n) \div HalfSize /\ low = instruction_counter(n) % HalfSize
    BY <2>1, <2>2, CounterIsHalf
  <2> QED
    BY <2>3
<1> QED
  BY <1>1, ClockInvariant, PTL

\* After its two stores the comparator holds the guest's deadline, for every
\* distance of the alarm.
THEOREM AlarmIsSet == ClockSpec => []AlarmIsDeadline
<1>1. ClockInv => AlarmIsDeadline
  BY DEF ClockInv, AlarmIsDeadline
<1> QED
  BY <1>1, ClockInvariant, PTL

=============================================================================
