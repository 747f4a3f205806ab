----------------------------- MODULE MCMonitor -----------------------------
(***************************************************************************)
(* Monitor with two monitors open at most and at most MaxInstructions      *)
(* instructions: enough to set up translation and delegation, drop to U,   *)
(* open the monitor, step into a second one, save in one and load in the   *)
(* other, and leave both.                                                  *)
(***************************************************************************)
EXTENDS Monitor

CONSTANT MaxInstructions

MCGuestWrites ==
  {[csr |-> "satp", value |-> [sv32 |-> TRUE, ppn |-> ResetTable]],
   [csr |-> "medeleg", value |-> {CAUSE_USER_ECALL, CAUSE_LOAD_PAGE_FAULT}]}

MCSpec ==
  MonitorInit /\ [][hart.instruction_counter < MaxInstructions /\ MonitorNext]_monitorVars

=============================================================================
