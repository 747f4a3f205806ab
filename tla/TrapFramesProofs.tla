-------------------------- MODULE TrapFramesProofs --------------------------
(***************************************************************************)
(* Theorems about TrapFrames: trap frames stay intact until their return,  *)
(* and a return resumes what was interrupted.                              *)
(***************************************************************************)
EXTENDS TrapFrames, PrivilegedProofs

\* MachineFrameIntact is not inductive by itself.  A live machine frame must
\* also exclude TSR = 1, the one way (sret executed in M) to leave machine mode
\* without mret; it does because a trap writes an mstatus that has TSR clear.
FrameInv ==
  /\ Inv
  /\ frame \in [TrapLevel -> Frame]
  /\ MachineFrameIntact
  /\ SupervisorFrameIntact
  /\ frame[PRIV_M].live => ~hart.csr.mstatus.TSR

\* The two levels that take traps differ, and both are privilege levels.
LEMMA Levels == PRIV_M \in TrapLevel /\ PRIV_S \in TrapLevel /\ PRIV_M # PRIV_S
                /\ PRIV_M \in Privilege /\ PRIV_S \in Privilege
BY DEF TrapLevel, PRIV_M, PRIV_S, Privilege

\* The empty frame is a frame, and not a live one.
LEMMA NoFrameType == NoFrame \in Frame /\ ~NoFrame.live
BY SmallWords DEF NoFrame, Frame, Privilege

\* The history variable restricts nothing: a behaviour of FrameSpec is one of Spec.
LEMMA FrameNextIsNext == FrameNext => Next /\ (TakesTrap => TrapAction)
BY DEF FrameNext, TakesTrap, Returns, Rewrites, Others, Next, TrapAction

\* A trap writes the frame of the level it enters and keeps the other one.
LEMMA TrapKeepsFrames ==
  ASSUME FrameInv, TakesTrap
  PROVE  FrameInv'
<1> DEFINE new == [live |-> TRUE, pc |-> hart.pc, privilege |-> hart.privilege]
           f == Fetched(hart)
<1>1. Inv'
  BY FrameNextIsNext, NextKeepsInv DEF FrameInv, FrameNext
<1>2. hart \in Hart /\ f.privilege = hart.privilege /\ f.csr = hart.csr /\ InterruptedPc(f) = hart.pc
  BY InvFacts, FetchedFacts DEF FrameInv
<1>3. new \in Frame
  BY <1>2 DEF Frame, Hart
<1>4. PICK cause \in Cause : /\ CauseFits(cause, hart.privilege)
                             /\ EntersSupervisor(f, hart', cause) \/ EntersMachine(f, hart', cause)
  BY TrapActionTraps DEF FrameInv, TakesTrap, TrapAction, TrapFrom
<1>5. frame' = [frame EXCEPT ![hart'.privilege] = new]
  BY DEF TakesTrap
<1>6. new.live /\ new.pc = hart.pc /\ new.privilege = hart.privilege
  OBVIOUS
<1> HIDE DEF f, new
<1>7. CASE EntersSupervisor(f, hart', cause)
  <2>1. hart'.privilege = PRIV_S /\ hart.privilege <= PRIV_S
    BY <1>2, <1>7 DEF EntersSupervisor
  <2>2. /\ frame' \in [TrapLevel -> Frame]
        /\ frame'[PRIV_S] = new /\ frame'[PRIV_M] = frame[PRIV_M]
    BY <1>3, <1>5, <2>1, Levels DEF FrameInv
  <2>3. ~frame[PRIV_M].live
    BY <2>1 DEF FrameInv, MachineFrameIntact, PRIV_M, PRIV_S
  <2>4. SupervisorFrameIntact'
    BY <1>2, <1>4, <1>6, <1>7, <2>1, <2>2 DEF SupervisorFrameIntact, EntersSupervisor
  <2> QED
    BY <1>1, <2>2, <2>3, <2>4 DEF FrameInv, MachineFrameIntact
<1>8. CASE EntersMachine(f, hart', cause)
  <2>1. hart'.privilege = PRIV_M
    BY <1>8 DEF EntersMachine
  <2>2. /\ frame' \in [TrapLevel -> Frame]
        /\ frame'[PRIV_M] = new /\ frame'[PRIV_S] = frame[PRIV_S]
    BY <1>3, <1>5, <2>1, Levels DEF FrameInv
  <2>3. MachineFrameIntact' /\ ~hart'.csr.mstatus.TSR
    BY <1>2, <1>4, <1>6, <1>8, <2>1, <2>2 DEF MachineFrameIntact, EntersMachine
  <2>4. SupervisorFrameIntact'
    BY <1>2, <1>8, <2>2 DEF FrameInv, SupervisorFrameIntact, EntersMachine
  <2> QED
    BY <1>1, <2>2, <2>3, <2>4 DEF FrameInv
<1> QED
  BY <1>4, <1>7, <1>8

\* A return ends the frame of its level and keeps the other one.
LEMMA ReturnKeepsFrames ==
  ASSUME FrameInv, Returns
  PROVE  FrameInv'
<1>1. Inv'
  BY FrameNextIsNext, NextKeepsInv DEF FrameInv, FrameNext
<1>2. CASE Mret /\ frame' = [frame EXCEPT ![PRIV_M] = NoFrame]
  <2>1. /\ frame' \in [TrapLevel -> Frame]
        /\ ~frame'[PRIV_M].live /\ frame'[PRIV_S] = frame[PRIV_S]
    BY <1>2, Levels, NoFrameType DEF FrameInv
  <2>2. hart'.csr.sepc = hart.csr.sepc /\ hart'.csr.scause = hart.csr.scause
    BY <1>2, MretResumes DEF FrameInv
  <2> QED
    BY <1>1, <2>1, <2>2 DEF FrameInv, MachineFrameIntact, SupervisorFrameIntact
<1>3. CASE Sret /\ frame' = [frame EXCEPT ![PRIV_S] = NoFrame]
  <2>1. /\ frame' \in [TrapLevel -> Frame]
        /\ ~frame'[PRIV_S].live /\ frame'[PRIV_M] = frame[PRIV_M]
    BY <1>3, Levels, NoFrameType DEF FrameInv
  <2>2. ~frame[PRIV_M].live
    BY <1>3, SretResumes, Levels DEF FrameInv, MachineFrameIntact
  <2> QED
    BY <1>1, <2>1, <2>2 DEF FrameInv, MachineFrameIntact, SupervisorFrameIntact
<1> QED
  BY <1>2, <1>3 DEF Returns

\* A CSR write either ends a frame or leaves the CSRs that hold it alone.
LEMMA RewriteKeepsFrames ==
  ASSUME FrameInv, Rewrites
  PROVE  FrameInv'
<1>1. Inv'
  BY FrameNextIsNext, NextKeepsInv DEF FrameInv, FrameNext
<1>2. PICK w \in GuestWrites :
        /\ CsrWrite(w)
        /\ frame' = [x \in TrapLevel |-> IF w.csr \in FrameCsr[x] THEN NoFrame ELSE frame[x]]
  BY DEF Rewrites
<1>3. /\ FrameCsr[PRIV_M] = {"mepc", "mcause", "mstatus"}
      /\ FrameCsr[PRIV_S] = {"sepc", "scause", "mstatus"}
  BY Levels DEF FrameCsr
<1>4. /\ frame' \in [TrapLevel -> Frame]
      /\ frame'[PRIV_M] = IF w.csr \in {"mepc", "mcause", "mstatus"} THEN NoFrame ELSE frame[PRIV_M]
      /\ frame'[PRIV_S] = IF w.csr \in {"sepc", "scause", "mstatus"} THEN NoFrame ELSE frame[PRIV_S]
  BY <1>2, <1>3, Levels, NoFrameType DEF FrameInv
<1>5. /\ hart'.privilege = hart.privilege
      /\ w.csr # "mstatus" => hart'.csr.mstatus = hart.csr.mstatus
      /\ w.csr # "mepc" => hart'.csr.mepc = hart.csr.mepc
      /\ w.csr # "mcause" => hart'.csr.mcause = hart.csr.mcause
      /\ w.csr # "sepc" => hart'.csr.sepc = hart.csr.sepc
      /\ w.csr # "scause" => hart'.csr.scause = hart.csr.scause
  BY <1>2, CsrWriteKeepsOthers DEF FrameInv
<1>6. MachineFrameIntact' /\ (frame'[PRIV_M].live => ~hart'.csr.mstatus.TSR)
  BY <1>4, <1>5, NoFrameType DEF FrameInv, MachineFrameIntact
<1>7. SupervisorFrameIntact'
  BY <1>4, <1>5, NoFrameType DEF FrameInv, SupervisorFrameIntact
<1> QED
  BY <1>1, <1>4, <1>6, <1>7 DEF FrameInv

\* Every other instruction keeps privilege and trap CSRs, and so both frames.
LEMMA OthersKeepFrames ==
  ASSUME FrameInv, Others
  PROVE  FrameInv'
<1>1. Inv' /\ frame' = frame
  BY FrameNextIsNext, NextKeepsInv DEF FrameInv, FrameNext, Others
<1>2. SameContext(hart, hart')
  BY QuietActionKeepsContext DEF FrameInv, Others, QuietAction, SameContext, Exits,
     MretRefused, SretRefused, Wfi, UnknownInstruction, PowerOff, UnmappedAccess, DeviceFetch
<1> QED
  BY <1>1, <1>2 DEF SameContext, FrameInv, MachineFrameIntact, SupervisorFrameIntact

-----------------------------------------------------------------------------
\* The strengthened frame invariant holds in every state of the specification.
LEMMA FrameInvariance == FrameSpec => []FrameInv
<1>1. FrameInit => FrameInv
  <2> SUFFICES ASSUME FrameInit PROVE FrameInv
    OBVIOUS
  <2>1. Inv
    BY InitEstablishesInv DEF FrameInit
  <2> QED
    BY <2>1, Levels, NoFrameType DEF FrameInit, FrameInv, MachineFrameIntact, SupervisorFrameIntact
<1>2. FrameInv /\ [FrameNext]_frameVars => FrameInv'
  <2> SUFFICES ASSUME FrameInv, [FrameNext]_frameVars PROVE FrameInv'
    OBVIOUS
  <2>1. CASE FrameNext
    BY <2>1, TrapKeepsFrames, ReturnKeepsFrames, RewriteKeepsFrames, OthersKeepFrames DEF FrameNext
  <2>2. CASE UNCHANGED frameVars
    BY <2>2 DEF frameVars, FrameInv, Inv, TypeOK, NothingPending, CountersAgree,
       MachineFrameIntact, SupervisorFrameIntact
  <2> QED
    BY <2>1, <2>2
<1> QED
  BY <1>1, <1>2, PTL DEF FrameSpec

\* Trap frames stay intact: for every guest, whatever it executes while a
\* handler runs, the handler's frame is what its trap interrupted.
THEOREM FramesIntact == FrameSpec => [](MachineFrameIntact /\ SupervisorFrameIntact)
<1>1. FrameInv => MachineFrameIntact /\ SupervisorFrameIntact
  BY DEF FrameInv
<1> QED
  BY <1>1, FrameInvariance, PTL

\* What sepc and scause say of a running supervisor handler's trap is still true
\* when traps into machine mode have come and gone.
THEOREM SupervisorFrameStaysIntact == FrameSpec => []SupervisorFrameIntact
BY FramesIntact, PTL

\* The return of a handler with a live frame resumes the interrupted
\* instruction, and mret also its level.
THEOREM ReturnsResume == FrameSpec => ReturnsResumeInterrupted
<1>1. FrameInv /\ [FrameNext]_frameVars => [ResumesInterrupted]_frameVars
  <2> SUFFICES ASSUME FrameInv PROVE ResumesInterrupted
    OBVIOUS
  <2>1. Mret /\ frame[PRIV_M].live =>
          hart'.pc = frame[PRIV_M].pc /\ hart'.privilege = frame[PRIV_M].privilege
    BY MretResumes DEF FrameInv, MachineFrameIntact
  <2>2. Sret /\ frame[PRIV_S].live => hart'.pc = frame[PRIV_S].pc
    BY SretResumes DEF FrameInv, SupervisorFrameIntact
  <2> QED
    BY <2>1, <2>2 DEF ResumesInterrupted
<1> QED
  BY <1>1, FrameInvariance, PTL DEF FrameSpec, ReturnsResumeInterrupted

=============================================================================
