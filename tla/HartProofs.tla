----------------------------- MODULE HartProofs -----------------------------
(***************************************************************************)
(* The hart with registers, memory and page tables implements Privileged:  *)
(* every step it takes is a step, or no step, of the abstract hart.  So    *)
(* the theorems about Privileged hold for it.                              *)
(***************************************************************************)
EXTENDS HartHistory, PrivilegedProofs

\* In machine mode and with translation off, an address translates to itself.
LEMMA BareOutcome ==
  ASSUME NEW m, NEW va, NEW access, ~Translating, NEW o \in Translations(m, va, access)
  PROVE  o.status = "TRANSLATE_OK" /\ o.pa = Identity(va) /\ o.mem = m
BY DEF Translations, translate_address, Translated, Translating

\* Where the fetch lands decides which abstract fetch it is.
LEMMA FetchLands ==
  ASSUME Inv, NEW o \in Fetches, o.status = "TRANSLATE_OK"
  PROVE  /\ InRam(o.pa) => Fetchable
         /\ InNoRange(o.pa) => MayFetchFrom(Unmapped)
         /\ ~InRam(o.pa) /\ ~InNoRange(o.pa) => MayFetchFrom(Devices)
<1>1. CASE Translating
  BY <1>1 DEF Fetchable, MayFetchFrom
<1>2. CASE ~Translating
  <2>1. o.pa = Identity(Split(hart.pc))
    BY <1>2, BareOutcome DEF Fetches
  <2>2. hart.pc \in Word
    BY DEF Inv, TypeOK, Hart
  <2>3. /\ hart.pc \in Unmapped <=> InNoRange(o.pa)
        /\ hart.pc \in Devices <=> o.pa[1] \in DevicePages
    BY <2>1, <2>2, HartAssumption
  <2>4. DevicePages \subseteq Page \ RamPages
    BY Sv32Assumption
  <2> QED
    BY <2>2, <2>3, <2>4 DEF InRam, InNoRange, Fetchable, MayFetchFrom
<1> QED
  BY <1>1, <1>2

\* Only a translated fetch can page-fault, or crash in its walk.
LEMMA FetchFaults ==
  ASSUME NEW o \in Fetches, o.status # "TRANSLATE_OK"
  PROVE  Translating
BY BareOutcome DEF Fetches

\* Only a translated access leaves a page fault pending.
LEMMA AccessFaults ==
  ASSUME NEW m, NEW va, NEW word,
         NEW r \in read_common(m, va) \cup write_common(m, va, word), r.kind = "fault"
  PROVE  Translating
<1> SUFFICES ASSUME ~Translating PROVE FALSE
  OBVIOUS
<1>1. CASE r \in read_common(m, va)
  <2>1. PICK o \in Translations(m, va, "LOAD") :
          r \in IF o.status # "TRANSLATE_OK" THEN Failed(o)
                ELSE IF InRam(o.pa) THEN {Value(o.mem[o.pa], o.mem)}
                ELSE IF InNoRange(o.pa) THEN {Crashed(o.mem)}
                ELSE {Value(w, o.mem) : w \in Contents}
    BY <1>1 DEF read_common
  <2> QED
    BY <2>1, BareOutcome DEF Value, Crashed
<1>2. CASE r \in write_common(m, va, word)
  <2>1. PICK o \in Translations(m, va, "STORE") :
          r \in IF o.status # "TRANSLATE_OK" THEN Failed(o)
                ELSE IF InRam(o.pa) THEN {Value(word, [o.mem EXCEPT ![o.pa] = word])}
                ELSE IF InNoRange(o.pa) THEN {Crashed(o.mem)}
                ELSE {Value(word, o.mem)}
    BY <1>2 DEF write_common
  <2> QED
    BY <2>1, BareOutcome DEF Value, Crashed
<1> QED
  BY <1>1, <1>2

\* An instruction fetched from RAM completes or ends the process as in Privileged.
LEMMA FetchedFromRam ==
  ASSUME Inv, NEW o \in FromRam
  PROVE  /\ \A s, m : Completes(s, m) => Executes(s)
         /\ \A code : Ends(code) => Exits(code)
BY FetchLands DEF FromRam, Completes, Executes, Ends, Exits

\* The virtual address of a data access is one that Privileged lets fault.
LEMMA FaultingAddress ==
  ASSUME NEW va \in DataAddresses
  PROVE  Join(va) \in FaultAddresses
BY HartAssumption

\* A store's page fault replaces the fault of the load before it.
LEMMA LastFaultPends ==
  ASSUME NEW s \in Hart, NEW c, NEW d, NEW a, NEW b
  PROVE  PageFault(PageFault(s, c, a), d, b) = PageFault(s, d, b)
BY DEF PageFault, Hart

-----------------------------------------------------------------------------
\* Fetches that fail are the fetch failures of Privileged.
LEMMA FetchFailsIsNext ==
  ASSUME Inv, HartFetchFails \/ HartFetchCrashes
  PROVE  Next
<1>1. CASE HartFetchFails
  <2>1. PICK o \in Fetches :
          \/ /\ o.status = "PAGE_FAULT"
             /\ hart' = LET f == Fetched(PageFault(hart, CAUSE_FETCH_PAGE_FAULT, hart.pc))
                        IN  raise_exception(f, f.pending_exception, f.pending_tval)
          \/ /\ o.status = "TRANSLATE_OK" /\ InNoRange(o.pa)
             /\ hart' = LET f == Fetched(hart)
                        IN  raise_exception(f, f.pending_exception, f.pending_tval)
    BY <1>1 DEF HartFetchFails
  <2>2. Running /\ UNCHANGED exit_code
    BY <1>1 DEF HartFetchFails
  <2>3. CASE o.status = "PAGE_FAULT"
    BY <2>1, <2>2, <2>3, FetchFaults DEF FetchPageFault, Next
  <2>4. CASE o.status = "TRANSLATE_OK" /\ InNoRange(o.pa)
    BY <2>1, <2>2, <2>4, FetchLands DEF FetchUnmapped, Next
  <2> QED
    BY <2>1, <2>3, <2>4
<1>2. CASE HartFetchCrashes
  <2>1. PICK o \in Fetches : \/ o.status = "crash"
                             \/ o.status = "TRANSLATE_OK" /\ ~InRam(o.pa) /\ ~InNoRange(o.pa)
    BY <1>2 DEF HartFetchCrashes
  <2>2. MayFetchFrom(Devices)
    BY <2>1, FetchFaults, FetchLands DEF MayFetchFrom
  <2> QED
    BY <1>2, <2>2 DEF HartFetchCrashes, DeviceFetch, Next
<1> QED
  BY <1>1, <1>2

\* What a data access leaves pending, the epilogue turns into the abstract fault.
LEMMA LeftByIsNext ==
  ASSUME Inv, NEW va \in DataAddresses, NEW r, NEW cause,
         cause \in {CAUSE_LOAD_PAGE_FAULT, CAUSE_STORE_PAGE_FAULT},
         r.kind = "fault" => Translating,
         Executes(LeftBy(Fetched(hart), r, cause, va))
  PROVE  Next
<1>1. CASE r.kind = "fault"
  BY <1>1, FaultingAddress DEF LeftBy, LoadPageFault, StorePageFault, Next
<1>2. CASE r.kind # "fault"
  BY <1>2 DEF LeftBy, Plain, Next
<1> QED
  BY <1>1, <1>2

\* Instructions that end the process in an access.
LEMMA CrashIsNext ==
  ASSUME Inv, FromRam # {}, Ends("crashed")
  PROVE  Next
BY FetchedFromRam DEF UnmappedAccess, Next

\* Instructions without a data access.
LEMMA RegisterStepIsNext ==
  ASSUME Inv, RegisterStep
  PROVE  Next
<1>1. PICK rd \in Register, word \in Contents :
        \/ Compute(rd, word)
        \/ \E target \in BranchTargets : JumpTo(rd, word, target)
        \/ \E w \in GuestWrites : WriteCsr(rd, word, w)
  BY DEF RegisterStep
<1>2. CASE Compute(rd, word)
  BY <1>2, FetchedFromRam DEF Compute, Plain, Next
<1>3. ASSUME NEW target \in BranchTargets, JumpTo(rd, word, target) PROVE Next
  BY <1>3, FetchedFromRam DEF JumpTo, Jump, Next
<1>4. ASSUME NEW w \in GuestWrites, WriteCsr(rd, word, w) PROVE Next
  BY <1>4, FetchedFromRam DEF WriteCsr, CsrWrite, Next
<1> QED
  BY <1>1, <1>2, <1>3, <1>4

\* ecall, the returns and the exits.
LEMMA TransfersIsNext ==
  ASSUME Inv, Transfers \/ Stops
  PROVE  Next
<1>1. CASE Transfers
  BY <1>1, FetchedFromRam DEF Transfers, Ecall, Mret, Sret, Uret, Next
<1>2. CASE Stops
  BY <1>2, FetchedFromRam DEF Stops, MretRefused, SretRefused, Wfi, UnknownInstruction, Next
<1> QED
  BY <1>1, <1>2

\* The file-name trace of ecall: a fault of it is TracedEcallFault.
LEMMA TracedEcallIsNext ==
  ASSUME Inv, NEW va \in DataAddresses, TracedEcall(va)
  PROVE  Next
<1> DEFINE Traced(t) ==
      \/ /\ t.status = "PAGE_FAULT"
         /\ Completes(ecall(PageFault(Fetched(hart), CAUSE_LOAD_PAGE_FAULT, Join(va))), t.mem)
      \/ t.status = "TRANSLATE_OK" /\ Completes(ecall(Fetched(hart)), t.mem)
      \/ t.status = "crash" /\ Ends("crashed")
<1>0. PICK o \in FromRam : \E t \in Translations(o.mem, va, "LOAD") : Traced(t)
  BY DEF TracedEcall
<1>1. PICK t \in Translations(o.mem, va, "LOAD") : Traced(t)
  BY <1>0
<1>2. CASE t.status = "PAGE_FAULT"
  <2>1. Translating /\ hart.privilege = PRIV_U
    BY <1>2, BareOutcome DEF TracedEcall
  <2>2. Executes(ecall(PageFault(Fetched(hart), CAUSE_LOAD_PAGE_FAULT, Join(va))))
    BY <1>1, <1>2, FetchedFromRam
  <2> QED
    BY <2>1, <2>2, FaultingAddress DEF TracedEcallFault, Next
<1>3. CASE Completes(ecall(Fetched(hart)), t.mem)
  BY <1>3, FetchedFromRam DEF Ecall, Next
<1>4. CASE Ends("crashed")
  BY <1>4, CrashIsNext
<1> QED
  BY <1>1, <1>2, <1>3, <1>4

\* One access, then the epilogue.
LEMMA OneAccessIsNext ==
  ASSUME Inv, NEW va \in DataAddresses, NEW o \in FromRam, NEW m, NEW word,
         NEW r \in read_common(m, va) \cup write_common(m, va, word),
         NEW cause \in {CAUSE_LOAD_PAGE_FAULT, CAUSE_STORE_PAGE_FAULT},
         \/ Ends("crashed")
         \/ Completes(LeftBy(Fetched(hart), r, cause, va), r.mem)
  PROVE  Next
<1>1. r.kind = "fault" => Translating
  BY AccessFaults
<1>2. CASE Ends("crashed")
  BY <1>2, CrashIsNext
<1>3. CASE Completes(LeftBy(Fetched(hart), r, cause, va), r.mem)
  BY <1>1, <1>3, FetchedFromRam, LeftByIsNext
<1> QED
  BY <1>2, <1>3

\* Two accesses, then the epilogue: of two faults the last one pends.
LEMMA TwoAccessesIsNext ==
  ASSUME Inv, NEW va \in DataAddresses, NEW o \in FromRam, NEW rd, NEW word,
         NEW r \in read_common(o.mem, va), NEW w \in write_common(r.mem, va, word),
         ReadModifyWrite(rd, va, r, w)
  PROVE  Next
<1>1. (r.kind = "fault" => Translating) /\ (w.kind = "fault" => Translating)
  BY AccessFaults
<1>2. CASE Ends("crashed")
  BY <1>2, CrashIsNext
<1>3. CASE w.kind = "fault" /\ Completes(LeftBy(LeftBy(Fetched(hart), r, CAUSE_LOAD_PAGE_FAULT, va),
                                               w, CAUSE_STORE_PAGE_FAULT, va), w.mem)
  <2>1. LeftBy(LeftBy(Fetched(hart), r, CAUSE_LOAD_PAGE_FAULT, va), w, CAUSE_STORE_PAGE_FAULT, va)
          = LeftBy(Fetched(hart), w, CAUSE_STORE_PAGE_FAULT, va)
    BY <1>3, InvFacts, LastFaultPends DEF LeftBy
  <2> QED
    BY <1>1, <1>3, <2>1, FetchedFromRam, LeftByIsNext
<1>4. CASE w.kind # "fault" /\ Completes(LeftBy(LeftBy(Fetched(hart), r, CAUSE_LOAD_PAGE_FAULT, va),
                                               w, CAUSE_STORE_PAGE_FAULT, va), w.mem)
  <2>1. LeftBy(LeftBy(Fetched(hart), r, CAUSE_LOAD_PAGE_FAULT, va), w, CAUSE_STORE_PAGE_FAULT, va)
          = LeftBy(Fetched(hart), r, CAUSE_LOAD_PAGE_FAULT, va)
    BY <1>4 DEF LeftBy
  <2> QED
    BY <1>1, <1>4, <2>1, FetchedFromRam, LeftByIsNext
<1> QED
  BY <1>2, <1>3, <1>4 DEF ReadModifyWrite

\* Loads, stores, traces and the A extension.
LEMMA MemoryStepIsNext ==
  ASSUME Inv, MemoryStep
  PROVE  Next
<1>1. PICK va \in DataAddresses :
        \/ PowersOff(va) \/ TracedEcall(va)
        \/ \E rs2 \in Register : Store(rs2, va)
        \/ \E rd \in Register :
             \/ Load(rd, va) \/ lr(rd, va)
             \/ \E result \in Contents : Amo(rd, va, result)
             \/ \E rs2 \in Register : amoswap_w(rd, rs2, va) \/ sc(rd, rs2, va)
  BY DEF MemoryStep
<1>2. CASE PowersOff(va)
  BY <1>2, FetchedFromRam DEF PowersOff, PowerOff, Next
<1>3. ASSUME NEW rs2 \in Register, Store(rs2, va) PROVE Next
  <2>1. PICK o \in FromRam : \E w \in write_common(o.mem, va, x[rs2]) :
          Ends("crashed") \/ Completes(LeftBy(Fetched(hart), w, CAUSE_STORE_PAGE_FAULT, va), w.mem)
    BY <1>3 DEF Store
  <2> QED
    BY <2>1, OneAccessIsNext
<1>4. ASSUME NEW rd \in Register, Load(rd, va) \/ lr(rd, va) PROVE Next
  <2>1. PICK o \in FromRam : \E r \in read_common(o.mem, va) :
          Ends("crashed") \/ Completes(LeftBy(Fetched(hart), r, CAUSE_LOAD_PAGE_FAULT, va), r.mem)
    BY <1>4 DEF Load, lr
  <2> QED
    BY <2>1, OneAccessIsNext
<1>5. ASSUME NEW rd \in Register, NEW result \in Contents, Amo(rd, va, result) PROVE Next
  BY <1>5, TwoAccessesIsNext DEF Amo
<1>6. ASSUME NEW rd \in Register, NEW rs2 \in Register, amoswap_w(rd, rs2, va) PROVE Next
  BY <1>6, TwoAccessesIsNext DEF amoswap_w
<1>7. ASSUME NEW rd \in Register, NEW rs2 \in Register, sc(rd, rs2, va) PROVE Next
  <2>1. PICK o \in FromRam :
          \/ Completes(Fetched(hart), o.mem)
          \/ \E w \in write_common(o.mem, va, x[rs2]) :
               Ends("crashed") \/ Completes(LeftBy(Fetched(hart), w, CAUSE_STORE_PAGE_FAULT, va), w.mem)
    BY <1>7 DEF sc
  <2>2. CASE Completes(Fetched(hart), o.mem)
    BY <2>2, FetchedFromRam DEF Plain, Next
  <2> QED
    BY <2>1, <2>2, OneAccessIsNext
<1> QED
  BY <1>1, <1>2, <1>3, <1>4, <1>5, <1>6, <1>7, TracedEcallIsNext

\* Every step of the hart is a step of the abstract hart.
LEMMA HartStepIsNext ==
  ASSUME Inv, HartNext
  PROVE  Next
BY FetchFailsIsNext, RegisterStepIsNext, MemoryStepIsNext, TransfersIsNext DEF HartNext

\* The hart with registers, memory, page tables and the A extension implements
\* the abstract hart, whatever the tables contain: a fetch, an access or an
\* atomic instruction that faults takes exactly one trap.
THEOREM Refinement == HartSpec => Spec
<1>1. HartInit => Init /\ Inv
  BY InitEstablishesInv DEF HartInit
<1>2. Inv /\ [HartNext]_hartVars => Inv' /\ [Next]_vars
  <2> SUFFICES ASSUME Inv, [HartNext]_hartVars PROVE Inv' /\ [Next]_vars
    OBVIOUS
  <2>1. CASE HartNext
    BY <2>1, HartStepIsNext, NextKeepsInv
  <2>2. CASE UNCHANGED hartVars
    BY <2>2 DEF hartVars, vars, Inv, TypeOK, NothingPending, CountersAgree
  <2> QED
    BY <2>1, <2>2
<1> QED
  BY <1>1, <1>2, PTL DEF HartSpec, Spec

\* So the detailed hart is well formed, leaves nothing pending, keeps its clocks
\* and raises its privilege only through a trap vector.
THEOREM HartIsSound ==
  HartSpec => [](TypeOK /\ NothingPending /\ CountersAgree) /\ PrivilegeRisesOnlyByTrap
BY Refinement, TypeCorrectness, NothingStaysPending, ClocksNeverDisagree, RisesOnlyByTraps, PTL

-----------------------------------------------------------------------------
(***************************************************************************)
(* The reservation of lr and sc.                                           *)
(***************************************************************************)
\* A step that makes no reservation keeps the address, or ends the process.
LEMMA OthersKeepReservation ==
  ASSUME HartFetchFails \/ HartFetchCrashes \/ RegisterStep \/ Transfers \/ Stops
  PROVE  Running /\ (load_reservation' = load_reservation \/ exit_code' # "running")
<1>1. CASE HartFetchFails
  BY <1>1 DEF HartFetchFails, UnchangedContext
<1>2. CASE HartFetchCrashes
  BY <1>2 DEF HartFetchCrashes, UnchangedContext
<1>3. CASE RegisterStep
  BY <1>3 DEF RegisterStep, Compute, JumpTo, WriteCsr, Completes
<1>4. CASE Transfers
  BY <1>4 DEF Transfers, Completes, UnchangedContext
<1>5. CASE Stops
  BY <1>5 DEF Stops, Ends, UnchangedContext
<1> QED
  BY <1>1, <1>2, <1>3, <1>4, <1>5

\* So do the accesses that are neither lr nor sc.
LEMMA AccessesKeepReservation ==
  ASSUME NEW va \in DataAddresses,
         \/ TracedEcall(va) \/ PowersOff(va)
         \/ \E rd \in Register : Load(rd, va)
         \/ \E rs2 \in Register : Store(rs2, va)
         \/ \E rd \in Register, result \in Contents : Amo(rd, va, result)
         \/ \E rd, rs2 \in Register : amoswap_w(rd, rs2, va)
  PROVE  Running /\ (load_reservation' = load_reservation \/ exit_code' # "running")
<1>1. CASE TracedEcall(va) \/ PowersOff(va)
  BY <1>1 DEF TracedEcall, PowersOff, Ends, Completes, UnchangedContext
<1>2. ASSUME NEW rd \in Register, Load(rd, va)
      PROVE  Running /\ (load_reservation' = load_reservation \/ exit_code' # "running")
  BY <1>2 DEF Load, Ends, Completes, UnchangedContext
<1>3. ASSUME NEW rs2 \in Register, Store(rs2, va)
      PROVE  Running /\ (load_reservation' = load_reservation \/ exit_code' # "running")
  BY <1>3 DEF Store, Ends, Completes, UnchangedContext
<1>4. ASSUME NEW rd \in Register, NEW result \in Contents, Amo(rd, va, result)
      PROVE  Running /\ (load_reservation' = load_reservation \/ exit_code' # "running")
  BY <1>4 DEF Amo, ReadModifyWrite, Ends, Completes, UnchangedContext
<1>5. ASSUME NEW rd \in Register, NEW rs2 \in Register, amoswap_w(rd, rs2, va)
      PROVE  Running /\ (load_reservation' = load_reservation \/ exit_code' # "running")
  BY <1>5 DEF amoswap_w, ReadModifyWrite, Ends, Completes, UnchangedContext
<1> QED
  BY <1>1, <1>2, <1>3, <1>4, <1>5

\* Every step keeps the reservation linked to the latest lr.
LEMMA HistoryStepKeepsLink ==
  ASSUME ReservationLinked, HistoryNext
  PROVE  ReservationLinked'
<1>1. ASSUME Running, UNCHANGED linked,
             load_reservation' = load_reservation \/ exit_code' # "running"
      PROVE  ReservationLinked'
  BY <1>1 DEF ReservationLinked, Running
<1>2. CASE (HartFetchFails \/ HartFetchCrashes \/ RegisterStep \/ Transfers \/ Stops) /\ UNCHANGED linked
  BY <1>1, <1>2, OthersKeepReservation
<1>3. ASSUME NEW va \in DataAddresses, UNCHANGED linked,
             \/ TracedEcall(va) \/ PowersOff(va)
             \/ \E rd \in Register : Load(rd, va)
             \/ \E rs2 \in Register : Store(rs2, va)
             \/ \E rd \in Register, result \in Contents : Amo(rd, va, result)
             \/ \E rd, rs2 \in Register : amoswap_w(rd, rs2, va)
      PROVE  ReservationLinked'
  BY <1>1, <1>3, AccessesKeepReservation
<1>4. ASSUME NEW va \in DataAddresses, NEW rd \in Register, lr(rd, va), linked' = {va}
      PROVE  ReservationLinked'
  BY <1>4 DEF lr, Ends, ReservationLinked, Running
<1>5. ASSUME NEW va \in DataAddresses, NEW rd \in Register, NEW rs2 \in Register, sc(rd, rs2, va)
      PROVE  ReservationLinked'
  BY <1>5 DEF sc, Ends, ReservationLinked, Running
<1> QED
  BY <1>2, <1>3, <1>4, <1>5 DEF HistoryNext

\* A reservation that is there was made by the latest lr, with no sc since, or
\* is the address 0 of a zeroed State: for every program and every memory.
THEOREM ReservationsAreLinked == HistorySpec => []ReservationLinked
<1>1. HistoryInit => ReservationLinked
  BY DEF HistoryInit, HartInit, ReservationLinked
<1>2. ReservationLinked /\ [HistoryNext]_historyVars => ReservationLinked'
  BY HistoryStepKeepsLink DEF historyVars, ReservationLinked, Running
<1> QED
  BY <1>1, <1>2, PTL DEF HistorySpec

-----------------------------------------------------------------------------
(***************************************************************************)
(* Page tables: what flags are, and that a walk whose entries are in RAM   *)
(* marks the entry that maps the address, no other, and lands where it     *)
(* says.                                                                   *)
(***************************************************************************)
\* A word that gains flags is the same entry: it points and maps as before.
LEMMA FlagFields ==
  ASSUME NEW p \in Pte, NEW q \in Pte, GainsFlags(p, q)
  PROVE  /\ q.ppn = p.ppn
         /\ Pointer(q) <=> Pointer(p)
         /\ Maps(q) <=> Maps(p)
         /\ p.A => q.A
         /\ p.D => q.D
<1>1. /\ q.ppn = p.ppn /\ q.V = p.V /\ q.R = p.R /\ q.W = p.W /\ q.X = p.X
  BY DEF GainsFlags, Pte
<1> QED
  BY <1>1 DEF GainsFlags, Pointer, Maps, Leaf, Reserved

\* Gaining nothing is gaining.
LEMMA GainsNothing ==
  ASSUME NEW p \in Pte
  PROVE  GainsFlags(p, p)
BY DEF GainsFlags, Pte

\* Gains add up.
LEMMA GainsMore ==
  ASSUME NEW p \in Pte, NEW q \in Pte, NEW r \in Pte, GainsFlags(p, q), GainsFlags(q, r)
  PROVE  GainsFlags(p, r)
BY DEF GainsFlags, Pte

\* The walk marks an entry by setting flags.
LEMMA MarkedGains ==
  ASSUME NEW p \in Pte, NEW access
  PROVE  /\ Marked(p, access) \in Pte
         /\ GainsFlags(p, Marked(p, access))
         /\ Marked(p, access).A
         /\ access = "STORE" => Marked(p, access).D
<1>1. Marked(p, access) = [p EXCEPT !.A = TRUE, !.D = p.D \/ access = "STORE"]
  BY DEF Marked
<1>2. Marked(p, access) \in Pte
  BY <1>1 DEF Pte
<1>3. Marked(p, access).A /\ (Marked(p, access).D <=> p.D \/ access = "STORE")
  BY <1>1 DEF Pte
<1>4. [Marked(p, access) EXCEPT !.A = p.A, !.D = p.D] = p
  BY <1>1 DEF Pte
<1> QED
  BY <1>2, <1>3, <1>4 DEF GainsFlags

\* Entries of tables in RAM are words of RAM, and of an entry that is one.
LEMMA EntriesInRam ==
  ASSUME NEW m \in Memory, NEW table, NEW va \in VirtAddr, InRam(RootEntry(table, va))
  PROVE  /\ RootEntry(table, va) \in RamAddr
         /\ m[RootEntry(table, va)] \in Pte
         /\ InRam(LastEntry(m, table, va)) =>
              LastEntry(m, table, va) \in RamAddr /\ m[LastEntry(m, table, va)] \in Pte
<1>1. RootEntry(table, va) \in RamAddr
  BY DEF RootEntry, InRam, RamAddr, VirtAddr
<1>2. InRam(LastEntry(m, table, va)) => LastEntry(m, table, va) \in RamAddr
  BY DEF LastEntry, InRam, RamAddr, VirtAddr
<1> QED
  BY <1>1, <1>2 DEF Memory

\* Only words of RAM map an address.
LEMMA MappingInRam ==
  ASSUME NEW m \in Memory, NEW table, NEW va \in VirtAddr
  PROVE  Mapping(m, table, va) \subseteq RamAddr
BY EntriesInRam DEF Mapping

\* Flags do not change what the tables mean.
LEMMA SameMeaning ==
  ASSUME NEW m \in Memory, NEW n \in Memory, NEW table, NEW va \in VirtAddr,
         \A a \in RamAddr : GainsFlags(m[a], n[a])
  PROVE  /\ Mapping(n, table, va) = Mapping(m, table, va)
         /\ WalkDefined(n, table, va) <=> WalkDefined(m, table, va)
         /\ \A e \in Mapping(m, table, va) : Target(n, table, va, e) = Target(m, table, va, e)
<1> DEFINE root == RootEntry(table, va)
           last == LastEntry(m, table, va)
<1>1. CASE ~InRam(root)
  BY <1>1 DEF Mapping, WalkDefined
<1>2. CASE InRam(root)
  <2>1. root \in RamAddr /\ m[root] \in Pte /\ n[root] \in Pte
    BY <1>2, EntriesInRam
  <2>2. /\ n[root].ppn = m[root].ppn
        /\ Pointer(n[root]) <=> Pointer(m[root])
        /\ Maps(n[root]) <=> Maps(m[root])
    BY <2>1, FlagFields
  <2>3. LastEntry(n, table, va) = last
    BY <2>2 DEF LastEntry
  <2>4. InRam(last) => /\ last \in RamAddr /\ m[last] \in Pte /\ n[last] \in Pte
    BY <1>2, <2>3, EntriesInRam
  <2>5. InRam(last) => /\ n[last].ppn = m[last].ppn
                       /\ Pointer(n[last]) <=> Pointer(m[last])
                       /\ Maps(n[last]) <=> Maps(m[last])
    BY <2>4, FlagFields
  <2>6. Mapping(n, table, va) = Mapping(m, table, va)
    BY <1>2, <2>2, <2>3, <2>5 DEF Mapping
  <2>7. WalkDefined(n, table, va) <=> WalkDefined(m, table, va)
    BY <1>2, <2>2, <2>3, <2>5 DEF WalkDefined
  <2>8. ASSUME NEW e \in Mapping(m, table, va)
        PROVE  Target(n, table, va, e) = Target(m, table, va, e)
    <3>1. n[e].ppn = m[e].ppn
      BY <1>2, <2>2, <2>5, <2>8 DEF Mapping
    <3> QED
      BY <2>2, <3>1 DEF Target, Superpage
  <2> QED
    BY <2>6, <2>7, <2>8
<1> QED
  BY <1>1, <1>2

-----------------------------------------------------------------------------
(***************************************************************************)
(* What walks return, whatever they meet.                                  *)
(***************************************************************************)
\* Marking an entry leaves a memory, wherever the entry is.
LEMMA MarkedMemoryType ==
  ASSUME NEW m \in Memory, NEW pa, NEW pte \in Pte, NEW access,
         NEW n \in MarkedMemories(m, pa, pte, access)
  PROVE  n \in Memory
<1>1. Marked(pte, access) \in Pte
  BY MarkedGains
<1> QED
  BY <1>1 DEF MarkedMemories, write_word_physical, Memory

\* Every walk has an outcome.
LEMMA OutcomeTypes ==
  ASSUME NEW m \in Memory
  PROVE  /\ PageFaults(m) \in Outcome /\ Crashes(m) \in Outcome
         /\ \A pa \in PhysAddr : Translated(pa, m) \in Outcome
<1>1. 0 \in Index
  BY Sv32Assumption DEF Index
<1>2. AnyPa \in PhysAddr
  BY <1>1 DEF AnyPa, PhysAddr, Page
<1> QED
  BY <1>2 DEF Outcome, PageFaults, Crashes, Translated

\* A leaf marks and translates, or faults.
LEMMA LeafType ==
  ASSUME NEW m \in Memory, NEW pa, NEW pte \in Pte, NEW to \in PhysAddr, NEW access,
         NEW o \in LeafOutcomes(m, pa, pte, to, access)
  PROVE  o \in Outcome
BY MarkedMemoryType, OutcomeTypes DEF LeafOutcomes

\* What a walk reads is an entry, whatever a stray pointer finds.
LEMMA ReadType ==
  ASSUME NEW m \in Memory, NEW table, NEW i \in Index,
         NEW pte \in read_word_physical(m, <<table, i>>)
  PROVE  pte \in Pte
<1>1. CASE InRam(<<table, i>>)
  <2>1. <<table, i>> \in RamAddr
    BY <1>1 DEF InRam, RamAddr
  <2> QED
    BY <1>1, <2>1 DEF read_word_physical, Memory
<1>2. CASE ~InRam(<<table, i>>)
  BY <1>2, Sv32Assumption DEF read_word_physical
<1> QED
  BY <1>1, <1>2

\* So has the last level, with a pointer there too.
LEMMA LastLevelType ==
  ASSUME NEW m \in Memory, NEW table, NEW va \in VirtAddr, NEW access,
         NEW o \in LastLevel(m, table, va, access)
  PROVE  o \in Outcome
<1> DEFINE pte_addr == <<table, va.vpn0>>
           Found(pte) == IF ~pte.V THEN {PageFaults(m)}
                         ELSE IF Leaf(pte)
                         THEN LeafOutcomes(m, pte_addr, pte, <<pte.ppn, va.offset>>, access)
                         ELSE {Translated(pa, m) : pa \in PhysAddr}
<1>1. o \in CrashOutside(pte_addr, m) \/ \E pte \in read_word_physical(m, pte_addr) : o \in Found(pte)
  BY DEF LastLevel
<1>2. CASE o \in CrashOutside(pte_addr, m)
  BY <1>2, OutcomeTypes DEF CrashOutside
<1>3. ASSUME NEW pte \in read_word_physical(m, pte_addr), o \in Found(pte)
      PROVE  o \in Outcome
  <2>1. pte \in Pte
    BY <1>3, ReadType DEF VirtAddr
  <2>2. <<pte.ppn, va.offset>> \in PhysAddr
    BY <2>1 DEF Pte, VirtAddr, PhysAddr
  <2>3. CASE o \in LeafOutcomes(m, pte_addr, pte, <<pte.ppn, va.offset>>, access)
    BY <2>1, <2>2, <2>3, LeafType
  <2>4. CASE o = PageFaults(m) \/ \E pa \in PhysAddr : o = Translated(pa, m)
    BY <2>4, OutcomeTypes
  <2> QED
    BY <1>3, <2>3, <2>4
<1> QED
  BY <1>1, <1>2, <1>3

\* So has any translation.
LEMMA WalkType ==
  ASSUME NEW m \in Memory, NEW va \in VirtAddr, NEW access, NEW o \in Translations(m, va, access)
  PROVE  o \in Outcome
<1> DEFINE table == hart.csr.satp.ppn
           pte_addr == <<table, va.vpn1>>
           Found(pte) == IF ~pte.V THEN {PageFaults(m)}
                         ELSE IF Leaf(pte)
                         THEN LeafOutcomes(m, pte_addr, pte, SuperpageTarget(pte, va), access)
                         ELSE LastLevel(m, pte.ppn, va, access)
<1>1. CASE ~Translating
  <2>1. Identity(va) \in PhysAddr
    BY DEF Identity, VirtAddr, PhysAddr, Page
  <2> QED
    BY <1>1, <2>1, OutcomeTypes DEF Translations, translate_address
<1>2. CASE Translating
  <2>1. o \in CrashOutside(pte_addr, m) \/ \E pte \in read_word_physical(m, pte_addr) : o \in Found(pte)
    BY <1>2 DEF Translations, translate_address, RootLevel
  <2>2. CASE o \in CrashOutside(pte_addr, m)
    BY <2>2, OutcomeTypes DEF CrashOutside
  <2>3. ASSUME NEW pte \in read_word_physical(m, pte_addr), o \in Found(pte)
        PROVE  o \in Outcome
    <3>1. pte \in Pte
      BY <2>3, ReadType DEF VirtAddr
    <3>2. SuperpageTarget(pte, va) \in PhysAddr
      BY <3>1 DEF SuperpageTarget, Pte, VirtAddr, PhysAddr, Page
    <3>3. CASE o \in LeafOutcomes(m, pte_addr, pte, SuperpageTarget(pte, va), access)
      BY <3>1, <3>2, <3>3, LeafType
    <3>4. CASE o = PageFaults(m)
      BY <3>4, OutcomeTypes
    <3>5. CASE o \in LastLevel(m, pte.ppn, va, access)
      BY <3>5, LastLevelType
    <3> QED
      BY <2>3, <3>3, <3>4, <3>5
  <2> QED
    BY <2>1, <2>2, <2>3
<1> QED
  BY <1>1, <1>2

-----------------------------------------------------------------------------
(***************************************************************************)
(* A defined walk arrives.                                                 *)
(***************************************************************************)
\* n is m after some of the entries E gained flags.
Flagged(m, n, E) ==
  /\ n \in Memory
  /\ \A a \in RamAddr : n[a] = m[a] \/ (a \in E /\ GainsFlags(m[a], n[a]))

Records(n, E, access) ==
  \A e \in E : n[e].A /\ (access = "STORE" => n[e].D)

\* A leaf in RAM: the walk marks it and lands where it says.
LEMMA LeafMarks ==
  ASSUME NEW m \in Memory, NEW e \in RamAddr, InRam(e), Maps(m[e]), NEW to, NEW access,
         NEW o \in LeafOutcomes(m, e, m[e], to, access)
  PROVE  /\ o.status = "TRANSLATE_OK" /\ o.pa = to
         /\ Flagged(m, o.mem, {e}) /\ Records(o.mem, {e}, access)
<1>1. m[e] \in Pte
  BY DEF Memory
<1>2. PICK n \in MarkedMemories(m, e, m[e], access) : o = Translated(to, n)
  BY DEF LeafOutcomes, Maps
<1>3. o.status = "TRANSLATE_OK" /\ o.pa = to /\ o.mem = n
  BY <1>2 DEF Translated
<1>4. n = [m EXCEPT ![e] = Marked(m[e], access)]
  BY <1>1, <1>2 DEF MarkedMemories, write_word_physical, Memory
<1>5. n \in Memory /\ n[e] = Marked(m[e], access) /\ \A a \in RamAddr \ {e} : n[a] = m[a]
  BY <1>1, <1>4, MarkedGains DEF Memory
<1> QED
  BY <1>1, <1>3, <1>5, MarkedGains DEF Flagged, Records

\* An entry other than the one that maps marks nothing: it faults, or points on.
LEMMA RefusedLeaf ==
  ASSUME NEW m \in Memory, NEW e \in RamAddr, Leaf(m[e]), Reserved(m[e]), NEW to, NEW access,
         NEW o \in LeafOutcomes(m, e, m[e], to, access)
  PROVE  o = PageFaults(m)
BY DEF LeafOutcomes

\* A translation where every entry it reads is in RAM: it ends at the entry that
\* maps the address, marks that entry and no other, and lands where it says.
Arrives(m, table, va, access, o) ==
  /\ Flagged(m, o.mem, Mapping(m, table, va))
  /\ Records(o.mem, Mapping(m, table, va), access)
  /\ o.status = IF Mapping(m, table, va) = {} THEN "PAGE_FAULT" ELSE "TRANSLATE_OK"
  /\ o.status = "TRANSLATE_OK" =>
       \E e \in Mapping(m, table, va) : o.pa = Target(m, table, va, e)

\* A walk of an address that nothing maps faults.
LEMMA FaultArrives ==
  ASSUME NEW m \in Memory, NEW table, NEW va, NEW access, Mapping(m, table, va) = {}
  PROVE  Arrives(m, table, va, access, PageFaults(m))
BY DEF Arrives, Flagged, Records, PageFaults

\* A walk that ends at a leaf marks it and lands where it says.
LEMMA LeafArrives ==
  ASSUME NEW m \in Memory, NEW table, NEW va, NEW access, NEW e \in RamAddr, InRam(e), Maps(m[e]),
         Mapping(m, table, va) = {e},
         NEW o \in LeafOutcomes(m, e, m[e], Target(m, table, va, e), access)
  PROVE  Arrives(m, table, va, access, o)
<1>1. Mapping(m, table, va) # {}
  OBVIOUS
<1>2. /\ o.status = "TRANSLATE_OK" /\ o.pa = Target(m, table, va, e)
      /\ Flagged(m, o.mem, {e}) /\ Records(o.mem, {e}, access)
  BY LeafMarks
<1> QED
  BY <1>1, <1>2 DEF Arrives

\* The last level arrives.
LEMMA LastLevelArrives ==
  ASSUME NEW m \in Memory, NEW table, NEW va \in VirtAddr, NEW access,
         WalkDefined(m, table, va), Pointer(m[RootEntry(table, va)]),
         NEW o \in LastLevel(m, m[RootEntry(table, va)].ppn, va, access)
  PROVE  Arrives(m, table, va, access, o)
<1> DEFINE root == RootEntry(table, va)
           last == LastEntry(m, table, va)
<1>1. InRam(root) /\ InRam(last) /\ ~Pointer(m[last])
  BY DEF WalkDefined
<1>2. last \in RamAddr /\ m[last] \in Pte
  BY <1>1, EntriesInRam
<1>3. last = <<m[root].ppn, va.vpn0>>
  BY DEF LastEntry
<1>4. o \in IF ~m[last].V THEN {PageFaults(m)}
            ELSE IF Leaf(m[last])
            THEN LeafOutcomes(m, last, m[last], <<m[last].ppn, va.offset>>, access)
            ELSE {Translated(pa, m) : pa \in PhysAddr}
  BY <1>1, <1>3 DEF LastLevel, CrashOutside, read_word_physical
<1>5. ~Maps(m[root])
  BY DEF Pointer, Maps
<1>6. Mapping(m, table, va) = {e \in {last} : Maps(m[e])}
  BY <1>1, <1>5 DEF Mapping
<1>7. CASE ~m[last].V
  <2>1. Mapping(m, table, va) = {}
    BY <1>6, <1>7 DEF Maps
  <2> QED
    BY <1>4, <1>7, <2>1, FaultArrives
<1>8. CASE m[last].V
  <2>1. Leaf(m[last])
    BY <1>1, <1>8 DEF Pointer
  <2>2. o \in LeafOutcomes(m, last, m[last], <<m[last].ppn, va.offset>>, access)
    BY <1>4, <1>8, <2>1
  <2>3. CASE Reserved(m[last])
    <3>1. Mapping(m, table, va) = {}
      BY <1>6, <2>3 DEF Maps
    <3> QED
      BY <1>2, <2>1, <2>2, <2>3, <3>1, RefusedLeaf, FaultArrives
  <2>4. CASE ~Reserved(m[last])
    <3>1. Maps(m[last]) /\ Mapping(m, table, va) = {last}
      BY <1>6, <1>8, <2>1, <2>4 DEF Maps
    <3>2. Target(m, table, va, last) = <<m[last].ppn, va.offset>>
      BY <1>5 DEF Target, Superpage
    <3> QED
      BY <1>1, <1>2, <2>2, <3>1, <3>2, LeafArrives
  <2> QED
    BY <2>3, <2>4
<1> QED
  BY <1>7, <1>8

\* The whole walk arrives.
LEMMA WalkArrives ==
  ASSUME NEW m \in Memory, NEW table, NEW va \in VirtAddr, NEW access,
         WalkDefined(m, table, va), NEW o \in RootLevel(m, table, va, access)
  PROVE  Arrives(m, table, va, access, o)
<1> DEFINE root == RootEntry(table, va)
<1>1. InRam(root) /\ root \in RamAddr /\ m[root] \in Pte
  BY EntriesInRam DEF WalkDefined
<1>2. root = <<table, va.vpn1>>
  BY DEF RootEntry
<1>3. o \in IF ~m[root].V THEN {PageFaults(m)}
            ELSE IF Leaf(m[root])
            THEN LeafOutcomes(m, root, m[root], SuperpageTarget(m[root], va), access)
            ELSE LastLevel(m, m[root].ppn, va, access)
  BY <1>1, <1>2 DEF RootLevel, CrashOutside, read_word_physical
<1>4. CASE ~m[root].V
  <2>1. Mapping(m, table, va) = {}
    BY <1>4 DEF Mapping, Maps, Pointer
  <2> QED
    BY <1>3, <1>4, <2>1, FaultArrives
<1>5. CASE m[root].V /\ ~Leaf(m[root])
  BY <1>3, <1>5, LastLevelArrives DEF Pointer
<1>6. CASE m[root].V /\ Leaf(m[root])
  <2>1. ~Pointer(m[root])
    BY <1>6 DEF Pointer
  <2>2. Mapping(m, table, va) = {e \in {root} : Maps(m[e])}
    BY <1>1, <2>1 DEF Mapping
  <2>3. CASE Reserved(m[root])
    <3>1. Mapping(m, table, va) = {}
      BY <2>2, <2>3 DEF Maps
    <3> QED
      BY <1>1, <1>3, <1>6, <2>3, <3>1, RefusedLeaf, FaultArrives
  <2>4. CASE ~Reserved(m[root])
    <3>1. Maps(m[root]) /\ Mapping(m, table, va) = {root}
      BY <1>6, <2>2, <2>4 DEF Maps
    <3>2. Target(m, table, va, root) = SuperpageTarget(m[root], va)
      BY <3>1 DEF Target, Superpage, SuperpageTarget
    <3> QED
      BY <1>1, <1>3, <1>6, <3>1, <3>2, LeafArrives
  <2> QED
    BY <2>3, <2>4
<1> QED
  BY <1>4, <1>5, <1>6

-----------------------------------------------------------------------------
(***************************************************************************)
(* The accesses of one instruction, one after the other: the tables mean   *)
(* to the later ones what they meant when it began.                        *)
(***************************************************************************)
\* n is the memory after accesses to V, of which those to S stored: judged by
\* what the tables meant when the instruction began.
Defined(va) == Translating => WalkDefined(mem, Table, va)

After(n, V, S) ==
  /\ Flagged(mem, n, UNION {MapEntries(va) : va \in V})
  /\ \A va \in V : Records(n, MapEntries(va), "FETCH")
  /\ \A va \in S : Records(n, MapEntries(va), "STORE")

\* Before its fetch an instruction has accessed nothing.
LEMMA NothingAccessed ==
  ASSUME mem \in Memory
  PROVE  After(mem, {}, {})
BY DEF After, Flagged

\* Flags that came later leave what was recorded before.
LEMMA RecordsStay ==
  ASSUME NEW m \in Memory, NEW n, NEW E, Flagged(m, n, E), NEW F \in SUBSET RamAddr,
         NEW access, Records(m, F, access)
  PROVE  Records(n, F, access)
<1> SUFFICES ASSUME NEW e \in F PROVE n[e].A /\ (access = "STORE" => n[e].D)
  BY DEF Records
<1>1. e \in RamAddr /\ m[e] \in Pte /\ n[e] \in Pte
  BY DEF Flagged, Memory
<1>2. m[e].A /\ (access = "STORE" => m[e].D)
  BY DEF Records
<1> QED
  BY <1>1, <1>2, FlagFields DEF Flagged

\* Marks of two walks add up.
LEMMA FlagsAddUp ==
  ASSUME NEW l \in Memory, NEW m, NEW n, NEW E, NEW F, Flagged(l, m, E), Flagged(m, n, F)
  PROVE  Flagged(l, n, E \cup F)
<1>1. m \in Memory /\ n \in Memory
  BY DEF Flagged
<1>2. ASSUME NEW a \in RamAddr
      PROVE  n[a] = l[a] \/ (a \in E \cup F /\ GainsFlags(l[a], n[a]))
  <2>1. l[a] \in Pte /\ m[a] \in Pte /\ n[a] \in Pte
    BY <1>1 DEF Memory
  <2>2. /\ m[a] = l[a] \/ (a \in E /\ GainsFlags(l[a], m[a]))
        /\ n[a] = m[a] \/ (a \in F /\ GainsFlags(m[a], n[a]))
    BY DEF Flagged
  <2> QED
    BY <2>1, <2>2, GainsMore
<1> QED
  BY <1>1, <1>2 DEF Flagged

\* Gaining flags keeps a memory and everything its entries mean.
LEMMA FlaggedGains ==
  ASSUME NEW m \in Memory, NEW n, NEW E, Flagged(m, n, E)
  PROVE  n \in Memory /\ \A a \in RamAddr : GainsFlags(m[a], n[a])
BY GainsNothing DEF Flagged, Memory

\* Whether a walk faults depends on the tables alone.
PageFaulting(va) == Translating /\ MapEntries(va) = {}

\* One more access.
LEMMA OneMoreAccess ==
  ASSUME mem \in Memory, NEW n, NEW V \in SUBSET VirtAddr, NEW S \in SUBSET V, After(n, V, S),
         NEW va \in VirtAddr, Defined(va), NEW access, NEW o \in Translations(n, va, access)
  PROVE  /\ After(o.mem, V \cup {va}, IF access = "STORE" THEN S \cup {va} ELSE S)
         /\ o.status = IF PageFaulting(va) THEN "PAGE_FAULT" ELSE "TRANSLATE_OK"
         /\ o.status = "TRANSLATE_OK" => o.pa \in Reached(va)
<1>1. n \in Memory /\ \A a \in RamAddr : GainsFlags(mem[a], n[a])
  BY FlaggedGains DEF After
<1>2. /\ Flagged(n, o.mem, MapEntries(va))
      /\ Records(o.mem, MapEntries(va), access)
      /\ o.status = IF PageFaulting(va) THEN "PAGE_FAULT" ELSE "TRANSLATE_OK"
      /\ o.status = "TRANSLATE_OK" => o.pa \in Reached(va)
  <2>1. CASE ~Translating
    BY <1>1, <2>1, BareOutcome DEF MapEntries, Reached, Flagged, Records, PageFaulting
  <2>2. CASE Translating
    <3>1. /\ Mapping(n, Table, va) = Mapping(mem, Table, va)
          /\ WalkDefined(n, Table, va)
          /\ \A e \in Mapping(mem, Table, va) : Target(n, Table, va, e) = Target(mem, Table, va, e)
      BY <1>1, <2>2, SameMeaning DEF Defined
    <3>2. o \in RootLevel(n, Table, va, access)
      BY <2>2 DEF Translations, translate_address, Table
    <3>3. Arrives(n, Table, va, access, o)
      BY <1>1, <3>1, <3>2, WalkArrives
    <3> QED
      BY <2>2, <3>1, <3>3 DEF Arrives, MapEntries, Reached, PageFaulting
  <2> QED
    BY <2>1, <2>2
<1>3. \A v \in VirtAddr : MapEntries(v) \in SUBSET RamAddr
  BY MappingInRam DEF MapEntries
<1>4. Flagged(mem, o.mem, UNION {MapEntries(v) : v \in V \cup {va}})
  <2>1. Flagged(mem, o.mem, (UNION {MapEntries(v) : v \in V}) \cup MapEntries(va))
    BY <1>2, FlagsAddUp DEF After
  <2>2. UNION {MapEntries(v) : v \in V \cup {va}} = (UNION {MapEntries(v) : v \in V}) \cup MapEntries(va)
    OBVIOUS
  <2> QED
    BY <2>1, <2>2
<1>5. ASSUME NEW v \in V \cup {va} PROVE Records(o.mem, MapEntries(v), "FETCH")
  <2>1. CASE v = va
    BY <1>2, <2>1 DEF Records
  <2>2. CASE v \in V
    <3>1. Records(n, MapEntries(v), "FETCH") /\ MapEntries(v) \in SUBSET RamAddr
      BY <1>3, <2>2 DEF After
    <3> QED
      BY <1>1, <1>2, <3>1, RecordsStay
  <2> QED
    BY <2>1, <2>2
<1>6. ASSUME NEW v \in IF access = "STORE" THEN S \cup {va} ELSE S
      PROVE  Records(o.mem, MapEntries(v), "STORE")
  <2>1. CASE v \in S
    <3>1. Records(n, MapEntries(v), "STORE") /\ MapEntries(v) \in SUBSET RamAddr
      BY <1>3, <2>1 DEF After
    <3> QED
      BY <1>1, <1>2, <3>1, RecordsStay
  <2>2. CASE v = va /\ access = "STORE"
    BY <1>2, <2>2
  <2> QED
    BY <2>1, <2>2
<1> QED
  BY <1>2, <1>4, <1>5, <1>6 DEF After

\* A quotient is below the factor that the dividend is below.
LEMMA Quotient ==
  ASSUME NEW d \in Nat \ {0}, NEW k \in Nat \ {0}, NEW w \in 0 .. d * k - 1
  PROVE  w \div d \in 0 .. k - 1
<1> DEFINE q == w \div d
<1>1. q \in Int /\ d * q <= w /\ w < d * (q + 1)
  OBVIOUS
<1>2. d * q < d * k /\ 0 < d * (q + 1)
  BY <1>1
<1>3. q < k
  BY <1>1, <1>2
<1>4. q >= 0
  BY <1>1, <1>2
<1> QED
  BY <1>1, <1>3, <1>4

\* So every pc is an address that tables translate.
LEMMA SplitIsVirtual ==
  ASSUME NEW w \in Word
  PROVE  Split(w) \in VirtAddr
<1> DEFINE d == 4 * Entries * Entries
<1>1. Entries \in Nat \ {0} /\ WordSize = d * Entries
  BY Sv32Assumption, HartAssumption
<1>2. d \in Nat \ {0} /\ 4 * Entries \in Nat \ {0}
  BY <1>1
<1>3. w \div d \in Index
  <2>1. w \in 0 .. d * Entries - 1
    BY <1>1 DEF Word
  <2> HIDE DEF d
  <2> QED
    BY <1>1, <1>2, <2>1, Quotient DEF Index
<1>4. ASSUME NEW c \in Nat \ {0} PROVE (w \div c) % Entries \in Index
  BY <1>1, <1>4 DEF Index, Word
<1> QED
  BY <1>2, <1>3, <1>4 DEF Split, VirtAddr

-----------------------------------------------------------------------------
(***************************************************************************)
(* What accesses return, and what they do to memory.                       *)
(***************************************************************************)
\* Memory and registers hold words.
WordsOK == mem \in Memory /\ x \in [Register -> Pte]

\* The words the code names are words.
LEMMA ConstantWords == ZeroWord \in Pte /\ OneWord \in Pte /\ AllOnes \in Pte /\ Contents \subseteq Pte
<1>1. 0 \in Index /\ Entries - 1 \in Index /\ Contents \subseteq Pte
  BY Sv32Assumption DEF Index
<1>2. <<0, 0>> \in Page /\ <<Entries - 1, Entries - 1>> \in Page
  BY <1>1 DEF Page
<1>3. ZeroWord \in Pte /\ AllOnes \in Pte
  BY <1>2 DEF ZeroWord, AllOnes, Pte
<1> QED
  BY <1>1, <1>3 DEF OneWord, Pte

\* What an access to memory returns.
LEMMA AccessTypes ==
  ASSUME NEW m \in Memory, NEW va \in VirtAddr
  PROVE  /\ \A r \in read_common(m, va) : r.mem \in Memory /\ r.word \in Pte
         /\ \A word \in Pte : \A w \in write_common(m, va, word) : w.mem \in Memory /\ w.word \in Pte
<1>1. ASSUME NEW o \in Outcome, o.status # "TRANSLATE_OK", NEW r \in Failed(o)
      PROVE  r.mem \in Memory /\ r.word \in Pte
  BY <1>1, ConstantWords DEF Failed, Faulted, Crashed, Outcome
<1>2. ASSUME NEW o \in Outcome
      PROVE  /\ o.mem \in Memory
             /\ InRam(o.pa) => o.pa \in RamAddr /\ o.mem[o.pa] \in Pte
  BY DEF Outcome, Memory, InRam, RamAddr, PhysAddr
<1>3. ASSUME NEW r \in read_common(m, va)
      PROVE  r.mem \in Memory /\ r.word \in Pte
  <2>1. PICK o \in Translations(m, va, "LOAD") :
          r \in IF o.status # "TRANSLATE_OK" THEN Failed(o)
                ELSE IF InRam(o.pa) THEN {Value(o.mem[o.pa], o.mem)}
                ELSE IF InNoRange(o.pa) THEN {Crashed(o.mem)}
                ELSE {Value(word, o.mem) : word \in Contents}
    BY DEF read_common
  <2>2. o \in Outcome
    BY WalkType
  <2> QED
    BY <1>1, <1>2, <2>1, <2>2, ConstantWords DEF Crashed, Value
<1>4. ASSUME NEW word \in Pte, NEW w \in write_common(m, va, word)
      PROVE  w.mem \in Memory /\ w.word \in Pte
  <2>1. PICK o \in Translations(m, va, "STORE") :
          w \in IF o.status # "TRANSLATE_OK" THEN Failed(o)
                ELSE IF InRam(o.pa) THEN {Value(word, [o.mem EXCEPT ![o.pa] = word])}
                ELSE IF InNoRange(o.pa) THEN {Crashed(o.mem)}
                ELSE {Value(word, o.mem)}
    BY DEF write_common
  <2>2. o \in Outcome
    BY WalkType
  <2>3. [o.mem EXCEPT ![o.pa] = word] \in Memory
    BY <1>2, <2>2 DEF Memory
  <2> QED
    BY <1>1, <1>2, <2>1, <2>2, <2>3, ConstantWords DEF Crashed, Value
<1> QED
  BY <1>3, <1>4

\* A load is one more access.
LEMMA LoadAccesses ==
  ASSUME mem \in Memory, NEW n, NEW V \in SUBSET VirtAddr, NEW S \in SUBSET V, After(n, V, S),
         NEW va \in VirtAddr, Defined(va), NEW r \in read_common(n, va)
  PROVE  After(r.mem, V \cup {va}, S) /\ (r.kind = "fault" => PageFaulting(va))
<1>1. PICK o \in Translations(n, va, "LOAD") :
        r \in IF o.status # "TRANSLATE_OK" THEN Failed(o)
              ELSE IF InRam(o.pa) THEN {Value(o.mem[o.pa], o.mem)}
              ELSE IF InNoRange(o.pa) THEN {Crashed(o.mem)}
              ELSE {Value(word, o.mem) : word \in Contents}
  BY DEF read_common
<1>2. After(o.mem, V \cup {va}, S) /\ o \in Outcome
  BY OneMoreAccess, WalkType, FlaggedGains DEF After
<1>3. r.mem = o.mem
  BY <1>1, <1>2 DEF Failed, Faulted, Crashed, Value, Outcome
<1>4. r.kind = "fault" => o.status # "TRANSLATE_OK"
  BY <1>1 DEF Crashed, Value
<1>5. o.status # "TRANSLATE_OK" => PageFaulting(va)
  BY OneMoreAccess
<1> QED
  BY <1>2, <1>3, <1>4, <1>5

\* A store that does not fault writes where it lands.
Written(w, n, va) ==
  /\ w.kind = "fault" => w.mem = n
  /\ PageFaulting(va) => w.kind = "fault"
  /\ \A a \in RamAddr \ Reached(va) : w.mem[a] = n[a]

\* A store is one more access and, if it does not fault, a word where it lands.
LEMMA StoreAccesses ==
  ASSUME mem \in Memory, NEW n, NEW V \in SUBSET VirtAddr, NEW S \in SUBSET V, After(n, V, S),
         NEW va \in VirtAddr, Defined(va), NEW word, NEW w \in write_common(n, va, word)
  PROVE  \E k : After(k, V \cup {va}, S \cup {va}) /\ Written(w, k, va)
<1>1. PICK o \in Translations(n, va, "STORE") :
        w \in IF o.status # "TRANSLATE_OK" THEN Failed(o)
              ELSE IF InRam(o.pa) THEN {Value(word, [o.mem EXCEPT ![o.pa] = word])}
              ELSE IF InNoRange(o.pa) THEN {Crashed(o.mem)}
              ELSE {Value(word, o.mem)}
  BY DEF write_common
<1>2. /\ After(o.mem, V \cup {va}, S \cup {va})
      /\ o.status = IF PageFaulting(va) THEN "PAGE_FAULT" ELSE "TRANSLATE_OK"
      /\ o.status = "TRANSLATE_OK" => o.pa \in Reached(va)
  BY OneMoreAccess
<1>3. o \in Outcome
  BY WalkType, FlaggedGains DEF After
<1>4. CASE o.status = "TRANSLATE_OK"
  <2>1. ~PageFaulting(va)
    BY <1>2, <1>4
  <2>2. CASE w = Value(word, [o.mem EXCEPT ![o.pa] = word])
    <3>1. w.kind # "fault" /\ w.mem = [o.mem EXCEPT ![o.pa] = word]
      BY <2>2 DEF Value
    <3>2. \A a \in RamAddr \ Reached(va) : w.mem[a] = o.mem[a]
      BY <1>2, <1>3, <1>4, <3>1 DEF Outcome, Memory
    <3> QED
      BY <1>2, <2>1, <3>1, <3>2 DEF Written
  <2>3. CASE w.mem = o.mem
    BY <1>2, <2>1, <2>3 DEF Written
  <2> QED
    BY <1>1, <1>4, <2>2, <2>3 DEF Crashed, Value
<1>5. CASE o.status # "TRANSLATE_OK"
  <2>1. w.kind = "fault" /\ w.mem = o.mem
    BY <1>1, <1>2, <1>5 DEF Failed, Faulted
  <2> QED
    BY <1>2, <2>1 DEF Written
<1> QED
  BY <1>4, <1>5

-----------------------------------------------------------------------------
(***************************************************************************)
(* Instructions as effects on memory.                                      *)
(***************************************************************************)
\* What an instruction does to memory: nothing, as it ends the process, or the
\* marks of its accesses and, if no store faults, words where its stores land.
Effect(reads, stores) ==
  LET accessed == {Split(hart.pc)} \cup reads \cup stores
  IN  \/ exit_code' # "running" /\ UNCHANGED mem
      \/ /\ exit_code' = "running"
         /\ (\A va \in accessed : Defined(va)) =>
              \E n : /\ After(n, accessed, stores)
                     /\ \A a \in RamAddr \ UNION {Reached(va) : va \in stores} : mem'[a] = n[a]
                     /\ stores = {} \/ Plain \/ \A a \in RamAddr : mem'[a] = n[a]

\* The instruction's own fetch.
LEMMA FetchAccesses ==
  ASSUME Inv, mem \in Memory, NEW o \in Fetches
  PROVE  /\ o \in Outcome /\ Split(hart.pc) \in VirtAddr
         /\ Defined(Split(hart.pc)) => After(o.mem, {Split(hart.pc)}, {})
<1>1. Split(hart.pc) \in VirtAddr
  BY SplitIsVirtual DEF Inv, TypeOK, Hart
<1>2. o \in Translations(mem, Split(hart.pc), "FETCH")
  BY DEF Fetches
<1>3. Defined(Split(hart.pc)) => After(o.mem, {} \cup {Split(hart.pc)}, {})
  BY <1>1, <1>2, OneMoreAccess, NothingAccessed
<1> QED
  BY <1>1, <1>2, <1>3, WalkType

\* An instruction that ends the process leaves memory and registers alone.
LEMMA EndsEffect ==
  ASSUME WordsOK, NEW code, Ends(code), code # "running", UNCHANGED x, NEW R, NEW S
  PROVE  Effect(R, S) /\ WordsOK'
BY DEF Ends, Effect, WordsOK

\* An instruction that only fetches.
LEMMA FetchEffect ==
  ASSUME Inv, WordsOK, NEW o \in Fetches, mem' = o.mem, exit_code' = "running"
  PROVE  Effect({}, {}) /\ mem' \in Memory
BY FetchAccesses DEF WordsOK, Effect, Outcome

\* One that loads.
LEMMA LoadEffect ==
  ASSUME Inv, WordsOK, NEW o \in Fetches, NEW va \in VirtAddr, NEW r \in read_common(o.mem, va),
         mem' = r.mem, exit_code' = "running"
  PROVE  Effect({va}, {}) /\ mem' \in Memory /\ r.word \in Pte
<1> DEFINE pc == Split(hart.pc)
<1>1. o.mem \in Memory /\ pc \in VirtAddr /\ (Defined(pc) => After(o.mem, {pc}, {}))
  BY FetchAccesses DEF WordsOK, Outcome
<1>2. Defined(pc) /\ Defined(va) => After(r.mem, {pc} \cup {va}, {})
  BY <1>1, LoadAccesses DEF WordsOK
<1>3. {pc} \cup {va} \cup {} = {pc} \cup {va}
  OBVIOUS
<1> QED
  BY <1>1, <1>2, <1>3, AccessTypes DEF Effect

\* One that stores.
LEMMA StoreEffect ==
  ASSUME Inv, WordsOK, NEW o \in Fetches, NEW va \in VirtAddr, NEW word \in Pte,
         NEW w \in write_common(o.mem, va, word), mem' = w.mem, exit_code' = "running",
         w.kind = "fault" \/ Plain
  PROVE  Effect({}, {va}) /\ mem' \in Memory
<1> DEFINE pc == Split(hart.pc)
<1>1. o.mem \in Memory /\ pc \in VirtAddr /\ (Defined(pc) => After(o.mem, {pc}, {}))
  BY FetchAccesses DEF WordsOK, Outcome
<1>2. ASSUME Defined(pc), Defined(va)
      PROVE  \E k : After(k, {pc} \cup {va}, {va}) /\ Written(w, k, va)
  <2>1. mem \in Memory /\ {pc} \in SUBSET VirtAddr /\ {} \in SUBSET {pc}
    BY <1>1 DEF WordsOK
  <2>2. \E k : After(k, {pc} \cup {va}, {} \cup {va}) /\ Written(w, k, va)
    BY <1>1, <1>2, <2>1, StoreAccesses
  <2> QED
    BY <2>2
<1>3. /\ {pc} \cup {} \cup {va} = {pc} \cup {va}
      /\ UNION {Reached(v) : v \in {va}} = Reached(va)
  OBVIOUS
<1> QED
  BY <1>1, <1>2, <1>3, AccessTypes DEF Effect, Written

\* One that reads, then writes.
LEMMA ReadModifyWriteEffect ==
  ASSUME Inv, WordsOK, NEW o \in Fetches, NEW va \in VirtAddr, NEW word \in Pte,
         NEW r \in read_common(o.mem, va), NEW w \in write_common(r.mem, va, word),
         mem' = w.mem, exit_code' = "running",
         r.kind = "fault" \/ w.kind = "fault" \/ Plain
  PROVE  Effect({}, {va}) /\ mem' \in Memory
<1> DEFINE pc == Split(hart.pc)
<1>1. o.mem \in Memory /\ pc \in VirtAddr /\ (Defined(pc) => After(o.mem, {pc}, {}))
  BY FetchAccesses DEF WordsOK, Outcome
<1>2. r.mem \in Memory
  BY <1>1, AccessTypes
<1>3. ASSUME Defined(pc), Defined(va)
      PROVE  After(r.mem, {pc} \cup {va}, {}) /\ (r.kind = "fault" => PageFaulting(va))
  <2>1. mem \in Memory /\ {pc} \in SUBSET VirtAddr /\ {} \in SUBSET {pc}
    BY <1>1 DEF WordsOK
  <2> QED
    BY <1>1, <1>3, <2>1, LoadAccesses
<1>4. ASSUME Defined(pc), Defined(va)
      PROVE  \E k : After(k, ({pc} \cup {va}) \cup {va}, {va}) /\ Written(w, k, va)
  <2>1. mem \in Memory /\ {pc} \cup {va} \in SUBSET VirtAddr /\ {} \in SUBSET ({pc} \cup {va})
    BY <1>1 DEF WordsOK
  <2>2. \E k : After(k, ({pc} \cup {va}) \cup {va}, {} \cup {va}) /\ Written(w, k, va)
    BY <1>3, <1>4, <2>1, StoreAccesses
  <2> QED
    BY <2>2
<1>5. /\ {pc} \cup {} \cup {va} = ({pc} \cup {va}) \cup {va}
      /\ UNION {Reached(v) : v \in {va}} = Reached(va)
  OBVIOUS
<1>6. ASSUME NEW k, Defined(pc), Defined(va), Written(w, k, va)
      PROVE  Plain \/ \A a \in RamAddr : w.mem[a] = k[a]
  BY <1>3, <1>6 DEF Written
<1>7. ASSUME Defined(pc), Defined(va)
      PROVE  \E k : /\ After(k, {pc} \cup {} \cup {va}, {va})
                    /\ \A a \in RamAddr \ UNION {Reached(v) : v \in {va}} : w.mem[a] = k[a]
                    /\ Plain \/ \A a \in RamAddr : w.mem[a] = k[a]
  BY <1>4, <1>5, <1>6, <1>7 DEF Written
<1> QED
  BY <1>2, <1>7, AccessTypes DEF Effect

\* Writing a word to a register keeps the register file.
LEMMA SetRegTypes ==
  ASSUME WordsOK, NEW r \in Register, NEW word \in Pte
  PROVE  set_reg(r, word) \in [Register -> Pte]
BY DEF WordsOK, set_reg

-----------------------------------------------------------------------------
(***************************************************************************)
(* The effect of each instruction.                                         *)
(***************************************************************************)
\* An instruction comes from a fetch.
LEMMA FromRamFetched ==
  ASSUME NEW o \in FromRam
  PROVE  o \in Fetches
BY DEF FromRam

\* An access that does not fault leaves the hart of an instruction that completes.
LEMMA UnfaultedIsPlain ==
  ASSUME Inv, NEW o \in FromRam, NEW w, NEW cause, NEW va, NEW m,
         Completes(LeftBy(Fetched(hart), w, cause, va), m)
  PROVE  w.kind = "fault" \/ Plain
BY FetchedFromRam DEF LeftBy, Plain

\* An instruction that completes leaves the process running.
LEMMA CompletesRunning ==
  ASSUME NEW s, NEW m, Completes(s, m)
  PROVE  exit_code' = "running" /\ mem' = m
BY DEF Completes, Running

\* Steps without a data access.
LEMMA PlainEffects ==
  ASSUME Inv, WordsOK, HartFetchFails \/ HartFetchCrashes \/ RegisterStep \/ Transfers \/ Stops
  PROVE  Effect({}, {}) /\ WordsOK'
<1>1. CASE HartFetchFails
  <2>1. PICK o \in Fetches : mem' = o.mem
    BY <1>1 DEF HartFetchFails
  <2>2. exit_code' = "running" /\ x' = x
    BY <1>1 DEF HartFetchFails, Running, UnchangedContext
  <2> QED
    BY <2>1, <2>2, FetchEffect DEF WordsOK
<1>2. CASE HartFetchCrashes
  BY <1>2 DEF HartFetchCrashes, UnchangedContext, Effect, WordsOK
<1>3. CASE RegisterStep
  <2>1. PICK rd \in Register, word \in Contents :
          \/ Compute(rd, word)
          \/ \E target \in BranchTargets : JumpTo(rd, word, target)
          \/ \E w \in GuestWrites : WriteCsr(rd, word, w)
    BY <1>3 DEF RegisterStep
  <2>2. PICK o \in FromRam : (\E s : Completes(s, o.mem)) /\ x' = set_reg(rd, word)
    BY <2>1 DEF Compute, JumpTo, WriteCsr
  <2> QED
    BY <2>2, FromRamFetched, CompletesRunning, FetchEffect, SetRegTypes, ConstantWords DEF WordsOK
<1>4. CASE Transfers
  <2>1. PICK o \in FromRam : (\E s : Completes(s, o.mem)) /\ x' = x
    BY <1>4 DEF Transfers, UnchangedContext
  <2> QED
    BY <2>1, FromRamFetched, CompletesRunning, FetchEffect DEF WordsOK
<1>5. CASE Stops
  BY <1>5, EndsEffect DEF Stops, Ends, UnchangedContext
<1> QED
  BY <1>1, <1>2, <1>3, <1>4, <1>5

\* Data addresses are addresses that tables translate.
LEMMA DataAddressesAreVirtual ==
  ASSUME NEW va \in DataAddresses
  PROVE  va \in VirtAddr
BY HartAssumption

\* The file name that a traced ecall reads.
LEMMA TraceEffect ==
  ASSUME Inv, WordsOK, NEW va \in DataAddresses, TracedEcall(va)
  PROVE  Effect({va}, {}) /\ WordsOK'
<1> DEFINE pc == Split(hart.pc)
<1>0. va \in VirtAddr /\ UNCHANGED x
  BY DataAddressesAreVirtual DEF TracedEcall, UnchangedContext
<1>1. PICK o \in FromRam : \E t \in Translations(o.mem, va, "LOAD") :
        (\E s : Completes(s, t.mem)) \/ Ends("crashed")
  BY DEF TracedEcall
<1>2. PICK t \in Translations(o.mem, va, "LOAD") : (\E s : Completes(s, t.mem)) \/ Ends("crashed")
  BY <1>1
<1>3. o.mem \in Memory /\ pc \in VirtAddr /\ (Defined(pc) => After(o.mem, {pc}, {}))
  BY FetchAccesses, FromRamFetched DEF WordsOK, Outcome
<1>4. t \in Outcome
  BY <1>0, <1>3, WalkType
<1>5. Defined(pc) /\ Defined(va) => After(t.mem, {pc} \cup {va}, {})
  BY <1>0, <1>3, OneMoreAccess DEF WordsOK
<1>6. CASE \E s : Completes(s, t.mem)
  <2>1. mem' = t.mem /\ exit_code' = "running"
    BY <1>6, CompletesRunning
  <2>2. {pc} \cup {va} \cup {} = {pc} \cup {va}
    OBVIOUS
  <2> QED
    BY <1>0, <1>4, <1>5, <2>1, <2>2 DEF Effect, WordsOK, Outcome
<1>7. CASE Ends("crashed")
  BY <1>0, <1>7, EndsEffect
<1> QED
  BY <1>2, <1>6, <1>7

\* Loads and lr.
LEMMA LoadEffects ==
  ASSUME Inv, WordsOK, NEW va \in DataAddresses, NEW rd \in Register, Load(rd, va) \/ lr(rd, va)
  PROVE  Effect({va}, {}) /\ WordsOK'
<1>1. PICK o \in FromRam : \E r \in read_common(o.mem, va) :
        \/ Ends("crashed")
        \/ (\E s : Completes(s, r.mem)) /\ (x' = x \/ x' = set_reg(rd, r.word))
  BY DEF Load, lr
<1>2. CASE Ends("crashed")
  BY <1>2, EndsEffect DEF Ends, UnchangedContext
<1>3. ASSUME NEW r \in read_common(o.mem, va),
             (\E s : Completes(s, r.mem)) /\ (x' = x \/ x' = set_reg(rd, r.word))
      PROVE  Effect({va}, {}) /\ WordsOK'
  BY <1>3, CompletesRunning, FromRamFetched, LoadEffect, SetRegTypes, DataAddressesAreVirtual DEF WordsOK
<1> QED
  BY <1>1, <1>2, <1>3

\* Stores.
LEMMA StoreEffects ==
  ASSUME Inv, WordsOK, NEW va \in DataAddresses, NEW rs2 \in Register, Store(rs2, va)
  PROVE  Effect({}, {va}) /\ WordsOK'
<1>1. PICK o \in FromRam : \E w \in write_common(o.mem, va, x[rs2]) :
        \/ Ends("crashed")
        \/ Completes(LeftBy(Fetched(hart), w, CAUSE_STORE_PAGE_FAULT, va), w.mem) /\ x' = x
  BY DEF Store, UnchangedContext
<1>2. x[rs2] \in Pte
  BY DEF WordsOK
<1>3. CASE Ends("crashed")
  BY <1>3, EndsEffect DEF Ends, UnchangedContext
<1>4. ASSUME NEW w \in write_common(o.mem, va, x[rs2]),
             Completes(LeftBy(Fetched(hart), w, CAUSE_STORE_PAGE_FAULT, va), w.mem) /\ x' = x
      PROVE  Effect({}, {va}) /\ WordsOK'
  <2>1. mem' = w.mem /\ exit_code' = "running" /\ (w.kind = "fault" \/ Plain)
    BY <1>4, CompletesRunning, UnfaultedIsPlain
  <2> QED
    BY <1>2, <1>4, <2>1, FromRamFetched, StoreEffect, DataAddressesAreVirtual DEF WordsOK
<1> QED
  BY <1>1, <1>3, <1>4

\* The AMOs: what they read goes to rd, which amoswap.w may store.
LEMMA AtomicEffects ==
  ASSUME Inv, WordsOK, NEW va \in DataAddresses, NEW rd \in Register, NEW rs2 \in Register,
         amoswap_w(rd, rs2, va) \/ \E result \in Contents : Amo(rd, va, result)
  PROVE  Effect({}, {va}) /\ WordsOK'
<1>0. va \in VirtAddr
  BY DataAddressesAreVirtual
<1>1. PICK o \in FromRam : \E r \in read_common(o.mem, va) :
        \E word \in Contents \cup {set_reg(rd, r.word)[rs2]} :
          \E w \in write_common(r.mem, va, word) : ReadModifyWrite(rd, va, r, w)
  BY DEF amoswap_w, Amo
<1>2. PICK r \in read_common(o.mem, va) :
        \E word \in Contents \cup {set_reg(rd, r.word)[rs2]} :
          \E w \in write_common(r.mem, va, word) : ReadModifyWrite(rd, va, r, w)
  BY <1>1
<1>3. o.mem \in Memory
  BY FetchAccesses, FromRamFetched DEF WordsOK, Outcome
<1>4. r.word \in Pte
  BY <1>0, <1>3, AccessTypes
<1>5. set_reg(rd, r.word) \in [Register -> Pte]
  BY <1>4, SetRegTypes
<1>6. PICK word \in Pte : \E w \in write_common(r.mem, va, word) : ReadModifyWrite(rd, va, r, w)
  BY <1>2, <1>5, ConstantWords
<1>7. PICK w \in write_common(r.mem, va, word) : ReadModifyWrite(rd, va, r, w)
  BY <1>6
<1>8. CASE Ends("crashed")
  BY <1>8, EndsEffect DEF Ends, UnchangedContext
<1> DEFINE s == LeftBy(Fetched(hart), r, CAUSE_LOAD_PAGE_FAULT, va)
<1>9. CASE /\ Completes(LeftBy(s, w, CAUSE_STORE_PAGE_FAULT, va), w.mem)
           /\ x' = set_reg(rd, r.word)
  <2>1. mem' = w.mem /\ exit_code' = "running"
    BY <1>9, CompletesRunning
  <2>2. r.kind = "fault" \/ w.kind = "fault" \/ Plain
    <3>1. CASE r.kind # "fault"
      BY <1>9, <3>1, UnfaultedIsPlain DEF LeftBy
    <3> QED
      BY <3>1
  <2> QED
    BY <1>0, <1>5, <1>9, <2>1, <2>2, FromRamFetched, ReadModifyWriteEffect DEF WordsOK
<1> QED
  BY <1>7, <1>8, <1>9 DEF ReadModifyWrite

\* An sc stores only at the reserved address.
LEMMA ConditionalEffects ==
  ASSUME Inv, WordsOK, NEW va \in DataAddresses, NEW rd \in Register, NEW rs2 \in Register,
         sc(rd, rs2, va)
  PROVE  Effect({}, IF load_reservation = va THEN {va} ELSE {}) /\ WordsOK'
<1>1. CASE load_reservation = va
  <2>1. PICK o \in FromRam : \E w \in write_common(o.mem, va, x[rs2]) :
          \/ Ends("crashed")
          \/ /\ Completes(LeftBy(Fetched(hart), w, CAUSE_STORE_PAGE_FAULT, va), w.mem)
             /\ x' = set_reg(rd, ZeroWord)
    BY <1>1 DEF sc
  <2>2. x[rs2] \in Pte /\ set_reg(rd, ZeroWord) \in [Register -> Pte]
    BY SetRegTypes, ConstantWords DEF WordsOK
  <2>3. CASE Ends("crashed")
    BY <2>3, EndsEffect DEF Ends, UnchangedContext
  <2>4. ASSUME NEW w \in write_common(o.mem, va, x[rs2]),
               /\ Completes(LeftBy(Fetched(hart), w, CAUSE_STORE_PAGE_FAULT, va), w.mem)
               /\ x' = set_reg(rd, ZeroWord)
        PROVE  Effect({}, IF load_reservation = va THEN {va} ELSE {}) /\ WordsOK'
    <3>1. mem' = w.mem /\ exit_code' = "running" /\ (w.kind = "fault" \/ Plain)
      BY <2>4, CompletesRunning, UnfaultedIsPlain
    <3>2. Effect({}, {va}) /\ mem' \in Memory
      BY <2>2, <2>4, <3>1, FromRamFetched, StoreEffect, DataAddressesAreVirtual
    <3>3. (IF load_reservation = va THEN {va} ELSE {}) = {va}
      BY <1>1
    <3> QED
      BY <2>2, <2>4, <3>2, <3>3 DEF WordsOK
  <2> QED
    BY <2>1, <2>3, <2>4
<1>2. CASE load_reservation # va
  <2>1. PICK o \in FromRam : Completes(Fetched(hart), o.mem) /\ x' = set_reg(rd, OneWord)
    BY <1>2 DEF sc
  <2>2. exit_code' = "running" /\ mem' = o.mem
    BY <2>1, CompletesRunning
  <2>3. Effect({}, {}) /\ mem' \in Memory /\ x' \in [Register -> Pte]
    BY <2>1, <2>2, FromRamFetched, FetchEffect, SetRegTypes, ConstantWords
  <2>4. Effect({}, {}) /\ WordsOK'
    BY <2>3 DEF WordsOK
  <2>5. (IF load_reservation = va THEN {va} ELSE {}) = {}
    BY <1>2
  <2> QED
    BY <2>4, <2>5
<1> QED
  BY <1>1, <1>2

\* What every step does to memory is what the history remembers of it.
LEMMA StepEffect ==
  ASSUME Inv, WordsOK, HistoryNext
  PROVE  /\ WordsOK'
         /\ \E R, S \in SUBSET DataAddresses : Effect(R, S) /\ Remembers(R, S)
<1>1. CASE /\ HartFetchFails \/ HartFetchCrashes \/ RegisterStep \/ Transfers \/ Stops
           /\ Remembers({}, {})
  BY <1>1, PlainEffects
<1>2. ASSUME NEW va \in DataAddresses,
             TracedEcall(va) \/ \E rd \in Register : Load(rd, va) \/ lr(rd, va),
             Remembers({va}, {})
      PROVE  WordsOK' /\ \E R, S \in SUBSET DataAddresses : Effect(R, S) /\ Remembers(R, S)
  <2>1. Effect({va}, {}) /\ WordsOK'
    BY <1>2, TraceEffect, LoadEffects
  <2> QED
    BY <1>2, <2>1
<1>3. ASSUME NEW va \in DataAddresses,
             \/ PowersOff(va)
             \/ \E rs2 \in Register : Store(rs2, va)
             \/ \E rd \in Register, result \in Contents : Amo(rd, va, result)
             \/ \E rd, rs2 \in Register : amoswap_w(rd, rs2, va),
             Remembers({}, {va})
      PROVE  WordsOK' /\ \E R, S \in SUBSET DataAddresses : Effect(R, S) /\ Remembers(R, S)
  <2>1. CASE PowersOff(va)
    <3>1. Ends("EXIT_POWEROFF") /\ UNCHANGED x
      BY <2>1 DEF PowersOff, Ends, UnchangedContext
    <3>2. Effect({}, {va}) /\ WordsOK'
      BY <3>1, EndsEffect
    <3> QED
      BY <1>3, <3>2
  <2>2. CASE ~PowersOff(va)
    <3>1. Effect({}, {va}) /\ WordsOK'
      BY <1>3, <2>2, StoreEffects, AtomicEffects
    <3> QED
      BY <1>3, <3>1
  <2> QED
    BY <2>1, <2>2
<1>4. ASSUME NEW va \in DataAddresses, NEW rd \in Register, NEW rs2 \in Register, sc(rd, rs2, va),
             Remembers({}, IF load_reservation = va THEN {va} ELSE {})
      PROVE  WordsOK' /\ \E R, S \in SUBSET DataAddresses : Effect(R, S) /\ Remembers(R, S)
  <2> DEFINE S == IF load_reservation = va THEN {va} ELSE {}
  <2>1. Effect({}, S) /\ WordsOK' /\ S \in SUBSET DataAddresses
    BY <1>4, ConditionalEffects
  <2> QED
    BY <1>4, <2>1
<1> QED
  BY <1>1, <1>2, <1>3, <1>4 DEF HistoryNext

\* So every step of the history is a step of the hart.
LEMMA HistoryIsHart ==
  ASSUME HistoryNext
  PROVE  HartNext
<1>1. CASE HartFetchFails \/ HartFetchCrashes \/ RegisterStep \/ Transfers \/ Stops
  BY <1>1 DEF HartNext
<1>2. ASSUME NEW va \in DataAddresses,
             \/ PowersOff(va) \/ TracedEcall(va)
             \/ \E rs2 \in Register : Store(rs2, va)
             \/ \E rd \in Register :
                  \/ Load(rd, va) \/ lr(rd, va)
                  \/ \E result \in Contents : Amo(rd, va, result)
                  \/ \E rs2 \in Register : amoswap_w(rd, rs2, va) \/ sc(rd, rs2, va)
      PROVE  HartNext
  BY <1>2 DEF HartNext, MemoryStep
<1> QED
  BY <1>1, <1>2 DEF HistoryNext

-----------------------------------------------------------------------------
(***************************************************************************)
(* Flags, confinement and restarts: the invariant of the history.          *)
(***************************************************************************)
\* The invariant: the words of memory and registers, and flags that agree with
\* the history.  Only RAM has entries.
HistoryOK == used \in SUBSET RamAddr /\ stored \in SUBSET RamAddr /\ wild \in BOOLEAN

FlagsInv == Inv /\ WordsOK /\ HistoryOK /\ FlagsRecordAccesses

\* Entries that map an access are words of RAM.
LEMMA EntriesAreInRam ==
  ASSUME WordsOK, NEW V \in SUBSET VirtAddr
  PROVE  UNION {MapEntries(va) : va \in V} \in SUBSET RamAddr
BY MappingInRam DEF MapEntries, WordsOK

\* Every step records what it accesses and keeps what was recorded.
LEMMA StepKeepsFlags ==
  ASSUME FlagsInv, HistoryNext
  PROVE  FlagsInv'
<1>1. Inv' /\ WordsOK'
  BY HistoryIsHart, HartStepIsNext, NextKeepsInv, StepEffect DEF FlagsInv
<1>2. PICK R, S \in SUBSET DataAddresses : Effect(R, S) /\ Remembers(R, S)
  BY StepEffect DEF FlagsInv
<1> DEFINE accessed == {Split(hart.pc)} \cup R \cup S
           written  == UNION {Reached(va) : va \in S}
<1>3. CASE exit_code' # "running"
  BY <1>1, <1>2, <1>3 DEF Effect, Remembers, FlagsInv, HistoryOK, FlagsRecordAccesses
<1>4. CASE exit_code' = "running"
  <2>1. /\ used' = (used \cup UNION {MapEntries(va) : va \in accessed}) \ written
        /\ stored' = (stored \cup UNION {MapEntries(va) : va \in S}) \ written
        /\ wild' = (wild \/ \E va \in accessed : Translating /\ ~WalkDefined(mem, Table, va))
    BY <1>2, <1>4 DEF Remembers
  <2>2. accessed \in SUBSET VirtAddr /\ S \in SUBSET VirtAddr
    BY SplitIsVirtual, DataAddressesAreVirtual DEF FlagsInv, Inv, TypeOK, Hart
  <2>3. HistoryOK'
    BY <2>1, <2>2, EntriesAreInRam DEF FlagsInv, HistoryOK
  <2>4. ASSUME ~wild' PROVE FlagsRecordAccesses'
    <3>1. ~wild /\ \A va \in accessed : Defined(va)
      BY <2>1, <2>4 DEF FlagsInv, HistoryOK, Defined
    <3>2. PICK n : /\ After(n, accessed, S)
                   /\ \A a \in RamAddr \ written : mem'[a] = n[a]
      BY <1>2, <1>4, <3>1 DEF Effect
    <3>3. n \in Memory /\ \A a \in RamAddr : GainsFlags(mem[a], n[a])
      BY <3>2, FlaggedGains DEF After, FlagsInv, WordsOK
    <3>4. ASSUME NEW e \in used' PROVE mem'[e].A
      <4>1. e \in RamAddr /\ e \notin written
        BY <2>1, <2>3 DEF HistoryOK
      <4>2. CASE e \in used
        <5>1. mem[e].A /\ mem[e] \in Pte /\ n[e] \in Pte
          BY <3>1, <3>3, <4>1, <4>2 DEF FlagsInv, WordsOK, FlagsRecordAccesses, Memory
        <5> QED
          BY <3>2, <3>3, <4>1, <5>1, FlagFields
      <4>3. CASE \E va \in accessed : e \in MapEntries(va)
        BY <3>2, <4>1, <4>3 DEF After, Records
      <4> QED
        BY <2>1, <4>2, <4>3
    <3>5. ASSUME NEW e \in stored' PROVE mem'[e].D
      <4>1. e \in RamAddr /\ e \notin written
        BY <2>1, <2>3 DEF HistoryOK
      <4>2. CASE e \in stored
        <5>1. mem[e].D /\ mem[e] \in Pte /\ n[e] \in Pte
          BY <3>1, <3>3, <4>1, <4>2 DEF FlagsInv, WordsOK, FlagsRecordAccesses, Memory
        <5> QED
          BY <3>2, <3>3, <4>1, <5>1, FlagFields
      <4>3. CASE \E va \in S : e \in MapEntries(va)
        BY <3>2, <4>1, <4>3 DEF After, Records
      <4> QED
        BY <2>1, <4>2, <4>3
    <3> QED
      BY <3>4, <3>5 DEF FlagsRecordAccesses
  <2> QED
    BY <1>1, <2>3, <2>4 DEF FlagsInv, FlagsRecordAccesses
<1> QED
  BY <1>3, <1>4

\* Only what is mapped changes, and entries that gain flags.
LEMMA StepIsConfined ==
  ASSUME FlagsInv, HistoryNext
  PROVE  Confined
<1> SUFFICES ASSUME Translating, ~wild', NEW a \in RamAddr, mem'[a] # mem[a],
                    ~ \E va \in DataAddresses : a \in Reached(va)
             PROVE  a \in used' /\ GainsFlags(mem[a], mem'[a])
  BY DEF Confined
<1>1. PICK R, S \in SUBSET DataAddresses : Effect(R, S) /\ Remembers(R, S)
  BY StepEffect DEF FlagsInv
<1> DEFINE accessed == {Split(hart.pc)} \cup R \cup S
           written  == UNION {Reached(va) : va \in S}
<1>2. exit_code' = "running"
  BY <1>1 DEF Effect
<1>3. /\ used' = (used \cup UNION {MapEntries(va) : va \in accessed}) \ written
      /\ wild' = (wild \/ \E va \in accessed : Translating /\ ~WalkDefined(mem, Table, va))
  BY <1>1, <1>2 DEF Remembers
<1>4. \A va \in accessed : Defined(va)
  BY <1>3 DEF FlagsInv, HistoryOK, Defined
<1>5. PICK n : /\ After(n, accessed, S)
               /\ \A b \in RamAddr \ written : mem'[b] = n[b]
  BY <1>1, <1>2, <1>4 DEF Effect
<1>6. a \notin written
  OBVIOUS
<1>7. n[a] # mem[a]
  BY <1>5, <1>6
<1>8. a \in UNION {MapEntries(va) : va \in accessed} /\ GainsFlags(mem[a], n[a])
  BY <1>5, <1>7 DEF After, Flagged
<1> QED
  BY <1>3, <1>5, <1>6, <1>8

\* A faulting load or store keeps the registers, the reservation and the data.
LEMMA FaultKeepsContext ==
  ASSUME Inv, TakesPageFault,
         HartFetchFails \/ \E r \in Register, va \in DataAddresses : Load(r, va) \/ Store(r, va)
  PROVE  UNCHANGED <<x, load_reservation>>
<1>1. CASE HartFetchFails
  BY <1>1 DEF HartFetchFails, UnchangedContext
<1>2. ASSUME NEW rd \in Register, NEW va \in DataAddresses, Load(rd, va)
      PROVE  UNCHANGED <<x, load_reservation>>
  <2>1. PICK o \in FromRam : \E r \in read_common(o.mem, va) :
          \/ Ends("crashed")
          \/ /\ Completes(LeftBy(Fetched(hart), r, CAUSE_LOAD_PAGE_FAULT, va), r.mem)
             /\ x' = IF r.kind = "fault" THEN x ELSE set_reg(rd, r.word)
             /\ UNCHANGED load_reservation
    BY <1>2 DEF Load
  <2>2. CASE Ends("crashed")
    BY <2>2 DEF Ends, UnchangedContext
  <2>3. ASSUME NEW r \in read_common(o.mem, va),
               Completes(LeftBy(Fetched(hart), r, CAUSE_LOAD_PAGE_FAULT, va), r.mem)
        PROVE  r.kind = "fault"
    BY <2>3, UnfaultedIsPlain DEF TakesPageFault
  <2> QED
    BY <2>1, <2>2, <2>3
<1>3. ASSUME NEW rs2 \in Register, NEW va \in DataAddresses, Store(rs2, va)
      PROVE  UNCHANGED <<x, load_reservation>>
  BY <1>3 DEF Store, Ends, UnchangedContext
<1> QED
  BY <1>1, <1>2, <1>3

\* It keeps the data too, whatever the instruction.
LEMMA FaultKeepsData ==
  ASSUME FlagsInv, HistoryNext, TakesPageFault, ~wild', NEW a \in RamAddr
  PROVE  GainsFlags(mem[a], mem'[a])
<1>1. PICK R, S \in SUBSET DataAddresses : Effect(R, S) /\ Remembers(R, S)
  BY StepEffect DEF FlagsInv
<1> DEFINE accessed == {Split(hart.pc)} \cup R \cup S
           written  == UNION {Reached(va) : va \in S}
<1>2. exit_code' = "running" /\ ~Plain
  BY DEF TakesPageFault, FetchPageFault, LoadPageFault, StorePageFault, Executes, Running
<1>3. wild' = (wild \/ \E va \in accessed : Translating /\ ~WalkDefined(mem, Table, va))
  BY <1>1, <1>2 DEF Remembers
<1>4. \A va \in accessed : Defined(va)
  BY <1>3 DEF FlagsInv, HistoryOK, Defined
<1>5. PICK n : /\ After(n, accessed, S)
               /\ \A b \in RamAddr \ written : mem'[b] = n[b]
               /\ S = {} \/ Plain \/ \A b \in RamAddr : mem'[b] = n[b]
  BY <1>1, <1>2, <1>4 DEF Effect
<1>6. mem'[a] = n[a]
  BY <1>2, <1>5
<1>7. GainsFlags(mem[a], n[a])
  BY <1>5, FlaggedGains DEF After, FlagsInv, WordsOK
<1> QED
  BY <1>6, <1>7

\* So every page fault of a plain access is restartable.
LEMMA StepIsRestartable ==
  ASSUME FlagsInv, HistoryNext
  PROVE  Restartable
BY FaultKeepsContext, FaultKeepsData DEF Restartable, FlagsInv

\* The invariant holds at the start.
LEMMA HistoryBegins ==
  ASSUME HistoryInit
  PROVE  FlagsInv
<1>1. Inv
  BY InitEstablishesInv DEF HistoryInit, HartInit
<1>2. WordsOK
  BY HartAssumption, ConstantWords DEF HistoryInit, HartInit, WordsOK
<1> QED
  BY <1>1, <1>2 DEF HistoryInit, FlagsInv, HistoryOK, FlagsRecordAccesses

\* Every step keeps the invariant and the action properties.
LEMMA FlagsInduction ==
  ASSUME FlagsInv, [HistoryNext]_historyVars
  PROVE  FlagsInv' /\ [Confined]_historyVars /\ [Restartable]_historyVars
<1>1. CASE HistoryNext
  BY <1>1, StepKeepsFlags, StepIsConfined, StepIsRestartable
<1>2. CASE UNCHANGED historyVars
  BY <1>2 DEF historyVars, FlagsInv, Inv, TypeOK, NothingPending, CountersAgree,
              WordsOK, HistoryOK, FlagsRecordAccesses
<1> QED
  BY <1>1, <1>2

\* The accessed and dirty flags record every fetch, load and store, for page
\* tables of every size and contents and for every program, until a walk leaves
\* RAM or ends at a pointer.
THEOREM FlagsAlwaysRecord == HistorySpec => []FlagsRecordAccesses
<1>1. FlagsInv => FlagsRecordAccesses
  BY DEF FlagsInv
<1> QED
  BY <1>1, HistoryBegins, FlagsInduction, PTL DEF HistorySpec

\* Translated code changes only the words it has mapped, and the flags of the
\* entries its accesses used.
THEOREM StoresAreConfined == HistorySpec => StoresStayInMapping
BY HistoryBegins, FlagsInduction, PTL DEF HistorySpec, StoresStayInMapping

\* A page fault of a fetch, load or store leaves an instruction that can be
\* executed again: nothing but flags has changed.
THEOREM FaultsAreRestartable == HistorySpec => PlainFaultsRestartable
BY HistoryBegins, FlagsInduction, PTL DEF HistorySpec, PlainFaultsRestartable

=============================================================================
