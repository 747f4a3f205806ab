-------------------------------- MODULE Sv32 --------------------------------
(***************************************************************************)
(* Address translation: translate_address and the physical accesses it     *)
(* makes (memory.c), as functions from memory to the set of possible       *)
(* outcomes.                                                               *)
(*                                                                         *)
(* Addresses are split, not added up: Sv32 has as many entries in a table  *)
(* as words in a page, so an address is two table indices and a word       *)
(* index, a physical page is a pair of indices, and the masks and shifts   *)
(* of the code select components.  A memory word is what the walk sees in  *)
(* it, a page-table entry; data words are such records too.                *)
(***************************************************************************)
EXTENDS Integers

CONSTANTS
  Entries,      \* entries per table and words per page: 1024 in the program
  RamPages,     \* the physical pages behind RAM ranges
  DevicePages,  \* the physical pages behind device ranges
  Contents      \* the words that guests and stray pointers put in memory

Index == 0 .. Entries - 1

Page == Index \X Index

PhysAddr == Page \X Index

VirtAddr == [vpn1 : Index, vpn0 : Index, offset : Index]

\* R, W and X, valid, accessed and dirty bits and the page number.  The shift
\* by PAGE_SHIFT drops the two high bits of the 22-bit PPN; ppn is the rest.
\* U, G and the software bits exist but the walk never looks at them.
Pte == [ppn : Page, V : BOOLEAN, R : BOOLEAN, W : BOOLEAN, X : BOOLEAN,
        A : BOOLEAN, D : BOOLEAN]

Access == {"LOAD", "STORE", "FETCH"}

RamAddr == RamPages \X Index

Memory == [RamAddr -> Pte]

ASSUME Sv32Assumption ==
  /\ Entries \in Nat \ {0}
  /\ RamPages \subseteq Page
  /\ DevicePages \subseteq Page \ RamPages
  /\ Contents \subseteq Pte

-----------------------------------------------------------------------------
(***************************************************************************)
(* read_word_physical and write_word_physical ignore the status of the     *)
(* range lookup.  Outside every range target.ptr is uninitialised: it may  *)
(* be a stale pointer into RAM, or no pointer at all, and then the process *)
(* crashes, as it does for a device range, whose phys_mem_ptr is NULL.     *)
(***************************************************************************)
InRam(pa) == pa[1] \in RamPages

InNoRange(pa) == pa[1] \notin RamPages \cup DevicePages

read_word_physical(mem, pa) ==
  IF InRam(pa) THEN {mem[pa]} ELSE IF InNoRange(pa) THEN Contents ELSE {}

write_word_physical(mem, pa, word) ==
  IF InRam(pa) THEN {[mem EXCEPT ![pa] = word]}
  ELSE IF InNoRange(pa) THEN {[mem EXCEPT ![q] = word] : q \in RamAddr}
  ELSE {}

-----------------------------------------------------------------------------
(***************************************************************************)
(* Outcomes of a translation: the memory afterwards, and for TRANSLATE_OK  *)
(* the physical address.                                                   *)
(***************************************************************************)
Outcome == [status : {"TRANSLATE_OK", "PAGE_FAULT", "crash"}, pa : PhysAddr, mem : Memory]

AnyPa == <<(<<0, 0>>), 0>>

Translated(pa, mem) == [status |-> "TRANSLATE_OK", pa |-> pa, mem |-> mem]
PageFaults(mem)     == [status |-> "PAGE_FAULT", pa |-> AnyPa, mem |-> mem]
Crashes(mem)        == [status |-> "crash", pa |-> AnyPa, mem |-> mem]

CrashOutside(pa, mem) == IF InRam(pa) THEN {} ELSE {Crashes(mem)}

Leaf(pte)     == pte.R \/ pte.W \/ pte.X
Reserved(pte) == pte.W /\ ~pte.R

\* Mutant of Marked: an entry already accessed is not marked again.
MarkedOnce(pte, access) == IF pte.A THEN pte ELSE [pte EXCEPT !.A = TRUE, !.D = @ \/ access = "STORE"]

\* ENABLE_DIRTY is defined: a missing flag is set, not faulted.
Marked(pte, access) == [pte EXCEPT !.A = TRUE, !.D = @ \/ access = "STORE"]

MarkedMemories(mem, pte_addr, pte, access) ==
  IF Marked(pte, access) = pte THEN {mem}
  ELSE write_word_physical(mem, pte_addr, Marked(pte, access))

\* A valid leaf at pte_addr that maps to pa.
LeafOutcomes(mem, pte_addr, pte, pa, access) ==
  IF Reserved(pte)
  THEN {PageFaults(mem)}
  ELSE {Translated(pa, m) : m \in MarkedMemories(mem, pte_addr, pte, access)}

\* The second iteration.  A pointer in the last table leaves the loop, and
\* translate_address returns TRANSLATE_OK without having set *physical_address.
LastLevel(mem, table, va, access) ==
  LET pte_addr == <<table, va.vpn0>>
  IN  CrashOutside(pte_addr, mem) \cup
      UNION { IF ~pte.V THEN {PageFaults(mem)}
              ELSE IF Leaf(pte)
              THEN LeafOutcomes(mem, pte_addr, pte, <<pte.ppn, va.offset>>, access)
              ELSE {Translated(pa, mem) : pa \in PhysAddr}
              : pte \in read_word_physical(mem, pte_addr) }

\* Mutant of SuperpageTarget: the mask does not depend on the level.
EntryPage(pte, va) == <<pte.ppn, va.offset>>

SuperpageTarget(pte, va) == <<(<<pte.ppn[1], va.vpn0>>), va.offset>>

\* The first iteration.  A leaf here maps a superpage: the low page index comes
\* from the virtual address, whatever the entry holds there.
RootLevel(mem, table, va, access) ==
  LET pte_addr == <<table, va.vpn1>>
  IN  CrashOutside(pte_addr, mem) \cup
      UNION { IF ~pte.V THEN {PageFaults(mem)}
              ELSE IF Leaf(pte)
              THEN LeafOutcomes(mem, pte_addr, pte, SuperpageTarget(pte, va), access)
              ELSE LastLevel(mem, pte.ppn, va, access)
              : pte \in read_word_physical(mem, pte_addr) }

\* sv32 is FALSE in machine mode and in SATP_MODE_BARE, where the virtual
\* address is the physical one.
Identity(va) == <<(<<va.vpn1, va.vpn0>>), va.offset>>

translate_address(mem, sv32, table, va, access) ==
  IF sv32 THEN RootLevel(mem, table, va, access) ELSE {Translated(Identity(va), mem)}

-----------------------------------------------------------------------------
(***************************************************************************)
(* What the tables in memory mean, stated without the walk: the reference  *)
(* for the properties.                                                     *)
(***************************************************************************)
Pointer(pte) == pte.V /\ ~Leaf(pte)
Maps(pte)    == pte.V /\ Leaf(pte) /\ ~Reserved(pte)

RootEntry(table, va)      == <<table, va.vpn1>>
LastEntry(mem, table, va) == <<mem[RootEntry(table, va)].ppn, va.vpn0>>

\* Every entry the walk of va reads is in RAM, and the last one is no pointer.
WalkDefined(mem, table, va) ==
  LET root == RootEntry(table, va)
      last == LastEntry(mem, table, va)
  IN  InRam(root) /\ (Pointer(mem[root]) => InRam(last) /\ ~Pointer(mem[last]))

EndsAtPointer(mem, table, va) ==
  LET root == RootEntry(table, va)
      last == LastEntry(mem, table, va)
  IN  InRam(root) /\ Pointer(mem[root]) /\ InRam(last) /\ Pointer(mem[last])

\* The entries that map va, at most one, and the address they map it to.
Mapping(mem, table, va) ==
  LET root == RootEntry(table, va)
  IN  IF ~InRam(root) THEN {}
      ELSE {e \in {root} : Maps(mem[e])} \cup
           {e \in {LastEntry(mem, table, va)} : Pointer(mem[root]) /\ InRam(e) /\ Maps(mem[e])}

Superpage(mem, table, va) == Maps(mem[RootEntry(table, va)])

Target(mem, table, va, e) ==
  IF Superpage(mem, table, va)
  THEN <<(<<mem[e].ppn[1], va.vpn0>>), va.offset>>
  ELSE <<mem[e].ppn, va.offset>>

=============================================================================
