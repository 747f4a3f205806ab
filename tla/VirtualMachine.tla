--------------------------- MODULE VirtualMachine ---------------------------
(***************************************************************************)
(* The machine whose registers the functions of DeviceIo read and write.   *)
(***************************************************************************)
EXTENDS DeviceIo

VARIABLE vm    \* *vm, uart_reg, what the console shows and how the process ended

Running == vm.exit_code = "running"

=============================================================================
