----------------------------- MODULE TrapFrames -----------------------------
(***************************************************************************)
(* Privileged with a history variable: for each level that takes traps,    *)
(* what its latest trap interrupted, until the return from that trap or    *)
(* until the guest itself rewrites the CSRs that hold it.  The history is  *)
(* kept from the hart before the step, so it does not depend on how        *)
(* raise_exception computes epc and the previous privilege.                *)
(***************************************************************************)
EXTENDS Privileged

VARIABLE frame   \* frame[PRIV_S], frame[PRIV_M]: the interrupted context

frameVars == <<hart, exit_code, frame>>

TrapLevel == {PRIV_S, PRIV_M}

Frame == [live : BOOLEAN, pc : Word, privilege : Privilege]

NoFrame == [live |-> FALSE, pc |-> 0, privilege |-> PRIV_U]

FrameInit == Init /\ frame = [x \in TrapLevel |-> NoFrame]

TakesTrap ==
  /\ FetchPageFault \/ FetchUnmapped \/ LoadPageFault \/ StorePageFault \/ Ecall \/ TracedEcallFault
  /\ frame' = [frame EXCEPT ![hart'.privilege] =
                 [live |-> TRUE, pc |-> hart.pc, privilege |-> hart.privilege]]

Returns ==
  \/ Mret /\ frame' = [frame EXCEPT ![PRIV_M] = NoFrame]
  \/ Sret /\ frame' = [frame EXCEPT ![PRIV_S] = NoFrame]

\* The CSRs a level's frame lives in.
FrameCsr == [x \in TrapLevel |-> IF x = PRIV_M THEN {"mepc", "mcause", "mstatus"}
                                               ELSE {"sepc", "scause", "mstatus"}]

Rewrites ==
  \E w \in GuestWrites :
    /\ CsrWrite(w)
    /\ frame' = [x \in TrapLevel |-> IF w.csr \in FrameCsr[x] THEN NoFrame ELSE frame[x]]

Others ==
  /\ \/ Plain \/ Jump \/ Uret \/ MretRefused \/ SretRefused \/ DeviceFetch
     \/ Wfi \/ UnknownInstruction \/ PowerOff \/ UnmappedAccess
  /\ UNCHANGED frame

FrameNext == TakesTrap \/ Returns \/ Rewrites \/ Others

FrameSpec == FrameInit /\ [][FrameNext]_frameVars

-----------------------------------------------------------------------------
(***************************************************************************)
(* Properties.                                                             *)
(***************************************************************************)

\* While a machine-mode handler runs its trap frame is intact: mepc, MPP and
\* mcause still describe what the trap interrupted, whatever instructions,
\* faults and returns came between.
MachineFrameIntact ==
  frame[PRIV_M].live =>
    /\ hart.privilege = PRIV_M
    /\ hart.csr.mepc = frame[PRIV_M].pc
    /\ hart.csr.mstatus.MPP = frame[PRIV_M].privilege
    /\ CauseFits(hart.csr.mcause, frame[PRIV_M].privilege)

\* A supervisor frame keeps its sepc and scause until the matching sret, also
\* across traps into machine mode and their returns.
SupervisorFrameIntact ==
  frame[PRIV_S].live =>
    /\ hart.csr.sepc = frame[PRIV_S].pc
    /\ frame[PRIV_S].privilege <= PRIV_S
    /\ CauseFits(hart.csr.scause, frame[PRIV_S].privilege)

\* mret of a handler whose frame is live resumes the interrupted instruction
\* at the interrupted level; sret resumes the interrupted instruction.
ResumesInterrupted ==
  /\ Mret /\ frame[PRIV_M].live =>
       hart'.pc = frame[PRIV_M].pc /\ hart'.privilege = frame[PRIV_M].privilege
  /\ Sret /\ frame[PRIV_S].live => hart'.pc = frame[PRIV_S].pc

ReturnsResumeInterrupted == [][ResumesInterrupted]_frameVars

=============================================================================
