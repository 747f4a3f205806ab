---------------------------- MODULE HartHistory ----------------------------
(***************************************************************************)
(* Hart with history variables: which page-table entries were used for     *)
(* accesses and for stores since the guest last wrote them, and which      *)
(* address lr reserved.  They are computed from the meaning of the tables  *)
(* in memory (Mapping), not from the walk.                                 *)
(***************************************************************************)
EXTENDS Hart

VARIABLES
  used,     \* entries that mapped some access since the guest wrote them
  stored,   \* entries that mapped a store since the guest wrote them
  wild,     \* a walk left RAM or ended at a pointer: its outcome is arbitrary
  linked    \* the addresses, at most one, with an lr and no sc after it

historyVars == <<hart, exit_code, x, mem, load_reservation, used, stored, wild, linked>>

Table == hart.csr.satp.ppn

MapEntries(va) == IF Translating THEN Mapping(mem, Table, va) ELSE {}

Reached(va) ==
  IF Translating THEN {Target(mem, Table, va, e) : e \in Mapping(mem, Table, va)}
                 ELSE {Identity(va)}

HistoryInit == HartInit /\ used = {} /\ stored = {} /\ wild = FALSE /\ linked = {}

\* One instruction that reads or executes at the addresses `reads` and stores
\* at `stores`.  A store to an entry is the guest's own and ends its history.
Remembers(reads, stores) ==
  LET accessed == {Split(hart.pc)} \cup reads \cup stores
      written  == UNION {Reached(va) : va \in stores}
  IN  IF exit_code' # "running" THEN UNCHANGED <<used, stored, wild>>
      ELSE /\ used' = (used \cup UNION {MapEntries(va) : va \in accessed}) \ written
           /\ stored' = (stored \cup UNION {MapEntries(va) : va \in stores}) \ written
           /\ wild' = (wild \/ \E va \in accessed : Translating /\ ~WalkDefined(mem, Table, va))

HistoryNext ==
  \/ /\ HartFetchFails \/ HartFetchCrashes \/ RegisterStep \/ Transfers \/ Stops
     /\ Remembers({}, {})
     /\ UNCHANGED linked
  \/ \E va \in DataAddresses :
       \/ /\ TracedEcall(va) \/ \E rd \in Register : Load(rd, va)
          /\ Remembers({va}, {})
          /\ UNCHANGED linked
       \/ /\ \/ PowersOff(va)
             \/ \E rs2 \in Register : Store(rs2, va)
             \/ \E rd \in Register, result \in Contents : Amo(rd, va, result)
             \/ \E rd, rs2 \in Register : amoswap_w(rd, rs2, va)
          /\ Remembers({}, {va})
          /\ UNCHANGED linked
       \/ /\ \E rd \in Register : lr(rd, va)
          /\ Remembers({va}, {})
          /\ linked' = {va}
       \/ /\ \E rd, rs2 \in Register : sc(rd, rs2, va)
          /\ Remembers({}, IF load_reservation = va THEN {va} ELSE {})
          /\ linked' = {}

HistorySpec == HistoryInit /\ [][HistoryNext]_historyVars

-----------------------------------------------------------------------------
(***************************************************************************)
(* Properties.                                                             *)
(***************************************************************************)

\* An operating system can rely on the accessed and dirty flags: as long as it
\* does not rewrite an entry, the flags record every fetch, load and store that
\* went through it, whichever level used it and whatever other entries were
\* changed in between.
FlagsRecordAccesses ==
  ~wild => /\ \A e \in used   : mem[e].A
           /\ \A e \in stored : mem[e].D

\* An lr serves at most one sc, and an sc to another address ends it, whatever
\* traps, faults and stores come between: a reservation that is still there
\* was made by the latest lr, or is the address 0 that mallocz leaves.
ReservationLinked ==
  Running /\ load_reservation # NoReservation =>
    \/ linked = {load_reservation}
    \/ linked = {} /\ load_reservation = Split(0)

\* The page tables confine what translated code can change: a word of RAM
\* changes only if it is mapped, or if it is an entry and gains flags.
GainsFlags(old, new) ==
  /\ [new EXCEPT !.A = old.A, !.D = old.D] = old
  /\ old.A => new.A
  /\ old.D => new.D

Confined ==
  Translating /\ ~wild' =>
    \A a \in RamAddr : mem'[a] # mem[a] =>
      \/ \E va \in DataAddresses : a \in Reached(va)
      \/ a \in used' /\ GainsFlags(mem[a], mem'[a])

StoresStayInMapping == [][Confined]_historyVars

\* A load or store that faults can be executed again: it has changed no
\* register, no reservation and no data.  A fault whose trap leaves the very
\* hart that completing would have left cannot be told from completing.
TakesPageFault == (FetchPageFault \/ LoadPageFault \/ StorePageFault) /\ ~Plain

Restartable ==
  TakesPageFault /\ (\/ HartFetchFails
                     \/ \E r \in Register, va \in DataAddresses : Load(r, va) \/ Store(r, va))
    => /\ UNCHANGED <<x, load_reservation>>
       /\ ~wild' => \A a \in RamAddr : GainsFlags(mem[a], mem'[a])

PlainFaultsRestartable == [][Restartable]_historyVars

=============================================================================
