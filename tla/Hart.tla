-------------------------------- MODULE Hart --------------------------------
(***************************************************************************)
(* The hart with its registers, its memory and the reservation of lr: one  *)
(* step is one call of emulate_op, with every walk of the page tables that *)
(* it makes.  The choices of Privileged become decisions of the memory:    *)
(* whether a fetch or an access faults, where it lands and what it finds.  *)
(*                                                                         *)
(* Every specification of this module implements Spec of Privileged for    *)
(* the same hart and exit_code.  What an instruction computes is a choice  *)
(* among Contents; where it reads and writes is not.                       *)
(***************************************************************************)
EXTENDS Privileged, Sv32

CONSTANTS
  Register,        \* the register file, x0 included
  ZeroRegister,    \* x0
  DataAddresses,   \* the virtual addresses of loads and stores, all aligned
  InitialMemory    \* what load_bios_and_kernel leaves in RAM

Split(w) == [vpn1   |-> w \div (4 * Entries * Entries),
             vpn0   |-> (w \div (4 * Entries)) % Entries,
             offset |-> (w \div 4) % Entries]

Join(va) == 4 * (va.offset + Entries * (va.vpn0 + Entries * va.vpn1))

ZeroWord == [ppn |-> <<0, 0>>, V |-> FALSE, R |-> FALSE, W |-> FALSE, X |-> FALSE,
             A |-> FALSE, D |-> FALSE]
OneWord  == [ZeroWord EXCEPT !.V = TRUE]
AllOnes  == [ppn |-> <<Entries - 1, Entries - 1>>, V |-> TRUE, R |-> TRUE, W |-> TRUE,
             X |-> TRUE, A |-> TRUE, D |-> TRUE]

\* The sentinel -1: no aligned address, and so outside VirtAddr.
NoReservation == [vpn1 |-> Entries, vpn0 |-> 0, offset |-> 0]

ASSUME HartAssumption ==
  /\ WordSize = 4 * Entries * Entries * Entries
  /\ TablePage = Page
  /\ ResetTable = <<0, 0>>
  /\ Unmapped = {w \in Word : InNoRange(Identity(Split(w)))}
  /\ Devices = {w \in Word : Identity(Split(w))[1] \in DevicePages}
  /\ DataAddresses \subseteq VirtAddr
  /\ FaultAddresses = {Join(va) : va \in DataAddresses}
  /\ ZeroRegister \in Register
  /\ InitialMemory \in Memory

VARIABLES
  x,                 \* state->x
  mem,               \* the RAM ranges of the memory map
  load_reservation   \* state->load_reservation

hartVars == <<hart, exit_code, x, mem, load_reservation>>

\* mallocz clears the reservation: it is the address 0, not -1.
HartInit ==
  /\ Init
  /\ x = [r \in Register |-> ZeroWord]
  /\ mem = InitialMemory
  /\ load_reservation = Split(0)

set_reg(r, word) == IF r = ZeroRegister THEN x ELSE [x EXCEPT ![r] = word]

-----------------------------------------------------------------------------
(***************************************************************************)
(* read_common and write_common: the word, the memory after the walk and   *)
(* whether a fault is now pending.  No range: target.range is NULL.  A     *)
(* device answers with any word and changes nothing of this state.         *)
(***************************************************************************)
Translations(m, va, access) ==
  translate_address(m, Translating, hart.csr.satp.ppn, va, access)

Value(word, m)  == [kind |-> "ok", word |-> word, mem |-> m]
Faulted(m)      == [kind |-> "fault", word |-> AllOnes, mem |-> m]   \* returns PAGE_FAULT = -1
Crashed(m)      == [kind |-> "crash", word |-> AllOnes, mem |-> m]

Failed(o) == CASE o.status = "PAGE_FAULT" -> {Faulted(o.mem)}
               [] o.status = "crash"      -> {Crashed(o.mem)}

read_common(m, va) ==
  UNION { IF o.status # "TRANSLATE_OK" THEN Failed(o)
          ELSE IF InRam(o.pa) THEN {Value(o.mem[o.pa], o.mem)}
          ELSE IF InNoRange(o.pa) THEN {Crashed(o.mem)}
          ELSE {Value(word, o.mem) : word \in Contents}
          : o \in Translations(m, va, "LOAD") }

write_common(m, va, word) ==
  UNION { IF o.status # "TRANSLATE_OK" THEN Failed(o)
          ELSE IF InRam(o.pa) THEN {Value(word, [o.mem EXCEPT ![o.pa] = word])}
          ELSE IF InNoRange(o.pa) THEN {Crashed(o.mem)}
          ELSE {Value(word, o.mem)}
          : o \in Translations(m, va, "STORE") }

\* Mutant of LeftBy: the access raises the exception itself.
RaisedBy(s, r, cause, va) ==
  IF r.kind = "fault" THEN raise_exception(s, cause, Join(va)) ELSE s

\* The pending fault of an access that failed.
LeftBy(s, r, cause, va) == IF r.kind = "fault" THEN PageFault(s, cause, Join(va)) ELSE s

-----------------------------------------------------------------------------
(***************************************************************************)
(* The fetch.  Its walk marks the entry it ends at, so the instruction     *)
(* runs on the memory that the fetch leaves.                               *)
(***************************************************************************)
Fetches == Translations(mem, Split(hart.pc), "FETCH")

FromRam == {o \in Fetches : o.status = "TRANSLATE_OK" /\ InRam(o.pa)}

UnchangedContext == UNCHANGED <<x, load_reservation>>

HartFetchFails ==
  /\ Running
  /\ \E o \in Fetches :
       /\ \/ /\ o.status = "PAGE_FAULT"
             /\ hart' = LET f == Fetched(PageFault(hart, CAUSE_FETCH_PAGE_FAULT, hart.pc))
                        IN  raise_exception(f, f.pending_exception, f.pending_tval)
          \/ /\ o.status = "TRANSLATE_OK" /\ InNoRange(o.pa)
             /\ hart' = LET f == Fetched(hart)
                        IN  raise_exception(f, f.pending_exception, f.pending_tval)
       /\ mem' = o.mem
  /\ UNCHANGED exit_code
  /\ UnchangedContext

\* A walk through a table that is not in memory, or code in a device range.
HartFetchCrashes ==
  /\ Running
  /\ \E o \in Fetches :
       \/ o.status = "crash"
       \/ o.status = "TRANSLATE_OK" /\ ~InRam(o.pa) /\ ~InNoRange(o.pa)
  /\ exit_code' = "crashed"
  /\ UNCHANGED <<hart, mem>>
  /\ UnchangedContext

\* The instruction leaves s for the epilogue.
Completes(s, m) ==
  /\ Running
  /\ hart' = Retire(s)
  /\ mem' = m
  /\ UNCHANGED exit_code

\* The instruction ends the process; what it leaves is never seen.
Ends(code) ==
  /\ Running
  /\ exit_code' = code
  /\ UNCHANGED <<hart, mem>>
  /\ UnchangedContext

-----------------------------------------------------------------------------
(***************************************************************************)
(* Instructions without a memory access.                                   *)
(***************************************************************************)
Compute(rd, word) ==
  \E o \in FromRam :
    /\ Completes(Fetched(hart), o.mem)
    /\ x' = set_reg(rd, word)
    /\ UNCHANGED load_reservation

\* jal, jalr and taken branches, which link to x0.
JumpTo(rd, link, target) ==
  \E o \in FromRam :
    /\ Completes([Fetched(hart) EXCEPT !.pc = target], o.mem)
    /\ x' = set_reg(rd, link)
    /\ UNCHANGED load_reservation

WriteCsr(rd, old, w) ==
  \E o \in FromRam :
    /\ Completes(write_csr(Fetched(hart), w.csr, w.value), o.mem)
    /\ x' = set_reg(rd, old)
    /\ UNCHANGED load_reservation

\* ecall and the returns.
Transfers ==
  \E o \in FromRam :
    /\ \/ Completes(ecall(Fetched(hart)), o.mem)
       \/ MretPermitted(hart) /\ Completes(mret(Fetched(hart)), o.mem)
       \/ SretPermitted(hart) /\ Completes(sret(Fetched(hart)), o.mem)
       \/ Completes(uret(Fetched(hart)), o.mem)
    /\ UnchangedContext

\* ecall in U with a file name: one word of it is enough to fault or to mark.
\* A name outside every range is reported and ends the trace.
TracedEcall(va) ==
  /\ hart.privilege = PRIV_U
  /\ \E o \in FromRam : \E t \in Translations(o.mem, va, "LOAD") :
       \/ /\ t.status = "PAGE_FAULT"
          /\ Completes(ecall(PageFault(Fetched(hart), CAUSE_LOAD_PAGE_FAULT, Join(va))), t.mem)
       \/ t.status = "TRANSLATE_OK" /\ Completes(ecall(Fetched(hart)), t.mem)
       \/ t.status = "crash" /\ Ends("crashed")
  /\ UnchangedContext

Stops ==
  /\ FromRam # {}
  /\ \/ ~MretPermitted(hart) /\ Ends("EXIT_ILLEGAL_MRET")
     \/ ~SretPermitted(hart) /\ Ends("EXIT_ILLEGAL_SRET")
     \/ Ends("EXIT_WFI")
     \/ Ends("EXIT_ILLEGAL_INSTRUCTION")

-----------------------------------------------------------------------------
(***************************************************************************)
(* Loads and stores of cpu.c: a fault keeps rd.                            *)
(***************************************************************************)
\* Mutant of Load: rd is written before the fault is noticed.
LoadBeforeCheck(rd, va) ==
  \E o \in FromRam : \E r \in read_common(o.mem, va) :
    \/ r.kind = "crash" /\ Ends("crashed")
    \/ /\ r.kind # "crash"
       /\ Completes(LeftBy(Fetched(hart), r, CAUSE_LOAD_PAGE_FAULT, va), r.mem)
       /\ x' = set_reg(rd, r.word)
       /\ UNCHANGED load_reservation

Load(rd, va) ==
  \E o \in FromRam : \E r \in read_common(o.mem, va) :
    \/ r.kind = "crash" /\ Ends("crashed")
    \/ /\ r.kind # "crash"
       /\ Completes(LeftBy(Fetched(hart), r, CAUSE_LOAD_PAGE_FAULT, va), r.mem)
       /\ x' = IF r.kind = "fault" THEN x ELSE set_reg(rd, r.word)
       /\ UNCHANGED load_reservation

Store(rs2, va) ==
  \E o \in FromRam : \E w \in write_common(o.mem, va, x[rs2]) :
    \/ w.kind = "crash" /\ Ends("crashed")
    \/ /\ w.kind # "crash"
       /\ Completes(LeftBy(Fetched(hart), w, CAUSE_STORE_PAGE_FAULT, va), w.mem)
       /\ UnchangedContext

\* The store that completes HTIF's power-off command.
PowersOff(va) ==
  /\ \E o \in FromRam : \E t \in Translations(o.mem, va, "STORE") :
       t.status = "TRANSLATE_OK" /\ t.pa[1] \in DevicePages
  /\ Ends("EXIT_POWEROFF")

-----------------------------------------------------------------------------
(***************************************************************************)
(* The A extension: no handler looks at what its accesses left pending.    *)
(***************************************************************************)
\* Read r, then write w to the memory r left; rd gets what was read, -1 on a
\* fault.  The store's fault replaces the load's.
ReadModifyWrite(rd, va, r, w) ==
  \/ (r.kind = "crash" \/ w.kind = "crash") /\ Ends("crashed")
  \/ /\ r.kind # "crash" /\ w.kind # "crash"
     /\ LET s == LeftBy(Fetched(hart), r, CAUSE_LOAD_PAGE_FAULT, va)
        IN  Completes(LeftBy(s, w, CAUSE_STORE_PAGE_FAULT, va), w.mem)
     /\ x' = set_reg(rd, r.word)
     /\ UNCHANGED load_reservation

\* amoadd, amoand, amoor and amoxor, whose result is some word.
Amo(rd, va, result) ==
  \E o \in FromRam : \E r \in read_common(o.mem, va) : \E w \in write_common(r.mem, va, result) :
    ReadModifyWrite(rd, va, r, w)

\* rd is written before rs2 is read.
amoswap_w(rd, rs2, va) ==
  \E o \in FromRam : \E r \in read_common(o.mem, va) :
    \E w \in write_common(r.mem, va, set_reg(rd, r.word)[rs2]) : ReadModifyWrite(rd, va, r, w)

lr(rd, va) ==
  \E o \in FromRam : \E r \in read_common(o.mem, va) :
    \/ r.kind = "crash" /\ Ends("crashed")
    \/ /\ r.kind # "crash"
       /\ Completes(LeftBy(Fetched(hart), r, CAUSE_LOAD_PAGE_FAULT, va), r.mem)
       /\ x' = set_reg(rd, r.word)
       /\ load_reservation' = va

\* Mutant of sc: one that finds no reservation for its address leaves it alone.
scKeepsReservation(rd, rs2, va) ==
  \E o \in FromRam :
    \/ /\ load_reservation = va
       /\ \E w \in write_common(o.mem, va, x[rs2]) :
            /\ w.kind # "crash"
            /\ Completes(LeftBy(Fetched(hart), w, CAUSE_STORE_PAGE_FAULT, va), w.mem)
            /\ x' = set_reg(rd, ZeroWord)
            /\ load_reservation' = NoReservation
    \/ /\ load_reservation # va
       /\ Completes(Fetched(hart), o.mem)
       /\ x' = set_reg(rd, OneWord)
       /\ UNCHANGED load_reservation

sc(rd, rs2, va) ==
  \E o \in FromRam :
    \/ /\ load_reservation = va
       /\ \E w \in write_common(o.mem, va, x[rs2]) :
            \/ w.kind = "crash" /\ Ends("crashed")
            \/ /\ w.kind # "crash"
               /\ Completes(LeftBy(Fetched(hart), w, CAUSE_STORE_PAGE_FAULT, va), w.mem)
               /\ x' = set_reg(rd, ZeroWord)
               /\ load_reservation' = NoReservation
    \/ /\ load_reservation # va
       /\ Completes(Fetched(hart), o.mem)
       /\ x' = set_reg(rd, OneWord)
       /\ load_reservation' = NoReservation

-----------------------------------------------------------------------------
MemoryStep ==
  \E va \in DataAddresses :
    \/ PowersOff(va) \/ TracedEcall(va)
    \/ \E rs2 \in Register : Store(rs2, va)
    \/ \E rd \in Register :
         \/ Load(rd, va) \/ lr(rd, va)
         \/ \E result \in Contents : Amo(rd, va, result)
         \/ \E rs2 \in Register : amoswap_w(rd, rs2, va) \/ sc(rd, rs2, va)

RegisterStep ==
  \E rd \in Register, word \in Contents :
    \/ Compute(rd, word)
    \/ \E target \in BranchTargets : JumpTo(rd, word, target)
    \/ \E w \in GuestWrites : WriteCsr(rd, word, w)

HartNext == HartFetchFails \/ HartFetchCrashes \/ RegisterStep \/ MemoryStep \/ Transfers \/ Stops

HartSpec == HartInit /\ [][HartNext]_hartVars

=============================================================================
