---------------------------- MODULE MCTrapFrames ----------------------------
(***************************************************************************)
(* TrapFrames for guests of at most MaxInstructions instructions: enough   *)
(* to set up delegation, drop to U, trap into S, trap from there into M    *)
(* and unwind both, with a rewrite of a saved pc on the way.               *)
(***************************************************************************)
EXTENDS TrapFrames

CONSTANT MaxInstructions

MCGuestWrites ==
  {[csr |-> "mtvec", value |-> 4],
   [csr |-> "stvec", value |-> 8],
   [csr |-> "medeleg", value |-> {CAUSE_USER_ECALL, CAUSE_MACHINE_ECALL, CAUSE_LOAD_PAGE_FAULT}],
   [csr |-> "satp", value |-> [sv32 |-> TRUE, ppn |-> ResetTable]],
   [csr |-> "sepc", value |-> 4],
   [csr |-> "mstatus", value |-> [ZeroMstatus EXCEPT !.MPP = PRIV_S, !.TSR = TRUE]],
   [csr |-> "mstatus", value |-> [ZeroMstatus EXCEPT !.SPP = PRIV_S]]}

MCSpec == FrameInit /\ [][hart.instruction_counter < MaxInstructions /\ FrameNext]_frameVars

=============================================================================
