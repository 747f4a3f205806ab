----------------------------- MODULE HartClaims -----------------------------
(***************************************************************************)
(* What comments in the source say of translation and of the A extension,  *)
(* stated as action properties of HartHistory.  The code does otherwise:   *)
(* each one is the property of a run that expects a counterexample.        *)
(***************************************************************************)
EXTENDS HartHistory

\* memory.c:142, where the walk has run out of levels: "physical_address = -1;
\* //raise page fault".  A fetch whose walk ends at a pointer faults.
LastLevelPointerFaults ==
  [][ Translating /\ EndsAtPointer(mem, Table, Split(hart.pc)) => FetchPageFault ]_historyVars

\* cpu.c:209: "if there is pending exception, abort and don't write RD as we may
\* clobber the register if RD == RS1".  No instruction that takes a page fault
\* writes a register.
FaultKeepsRd == [][ TakesPageFault => x' = x ]_historyVars

=============================================================================
