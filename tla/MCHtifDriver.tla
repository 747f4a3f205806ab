---------------------------- MODULE MCHtifDriver ----------------------------
(***************************************************************************)
(* HtifDriver until MaxOutput characters are shown.                        *)
(***************************************************************************)
EXTENDS HtifDriver

CONSTANT MaxOutput

MCSpec ==
  /\ DriverInit
  /\ [][Len(vm.output) < MaxOutput /\ DriverNext]_driverVars
  /\ WF_driverVars(Len(vm.output) < MaxOutput /\ DriverStep)

=============================================================================
