------------------------------- MODULE MCHart -------------------------------
(***************************************************************************)
(* Hart with tables of two entries and pages of two words: four pages, the *)
(* highest a device.  The firmware enables Sv32 and drops to S; what       *)
(* follows is any guest of MaxInstructions instructions in all, which can  *)
(* reach its own page tables through a superpage.                          *)
(***************************************************************************)
EXTENDS HartHistory

CONSTANT MaxInstructions

MCPages     == (0 .. 1) \X (0 .. 1)
MCResetPage == <<0, 0>>
MCRam       == {<<0, 0>>, <<0, 1>>}
MCDevices   == {<<1, 1>>}

Address(i, j, k) == [vpn1 |-> i, vpn0 |-> j, offset |-> k]

MCLeaf(page)    == [ZeroWord EXCEPT !.ppn = page, !.V = TRUE, !.R = TRUE, !.W = TRUE, !.X = TRUE]
MCPointer(page) == [ZeroWord EXCEPT !.ppn = page, !.V = TRUE]

\* The root table is page <0,1>: a pointer to page <0,0>, which is the code and
\* the last-level table, and a superpage over both RAM pages.
MCInitialMemory ==
  [a \in MCRam \X (0 .. 1) |->
     CASE a = <<(<<0, 1>>), 0>> -> MCPointer(<<0, 0>>)
       [] a = <<(<<0, 1>>), 1>> -> MCLeaf(<<0, 0>>)
       [] a = <<(<<0, 0>>), 0>> -> MCLeaf(<<0, 0>>)
       [] OTHER                 -> ZeroWord]

\* Data words that are also entries, for the page outside every range: as a
\* superpage the leaf maps it and the device page.
MCContents == {MCLeaf(<<1, 0>>), MCPointer(<<1, 0>>)}

MCDataAddresses  == {Address(0, 0, 1), Address(0, 1, 0), Address(1, 1, 0)}
MCFaultAddresses == {4, 8, 24}
MCUnmappedWords  == 16 .. 23
MCDeviceWords    == 24 .. 31

Satp    == [csr |-> "satp", value |-> [sv32 |-> TRUE, ppn |-> <<0, 1>>]]
ToS     == [csr |-> "mstatus", value |-> [ZeroMstatus EXCEPT !.MPP = PRIV_S]]
MCGuestWrites == {Satp, ToS}

SetsUp(action) == action /\ Remembers({}, {}) /\ UNCHANGED linked

Guest ==
  CASE hart.instruction_counter = 0 -> SetsUp(WriteCsr(ZeroRegister, ZeroWord, Satp))
    [] hart.instruction_counter = 1 -> SetsUp(WriteCsr(ZeroRegister, ZeroWord, ToS))
    [] hart.instruction_counter = 2 -> SetsUp(Transfers /\ hart'.privilege = PRIV_S)
    [] OTHER -> hart.instruction_counter < MaxInstructions /\ HistoryNext

MCSpec == HistoryInit /\ [][Guest]_historyVars

=============================================================================
