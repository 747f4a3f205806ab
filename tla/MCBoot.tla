------------------------------- MODULE MCBoot -------------------------------
(***************************************************************************)
(* Files around the boundaries: empty, one byte, a superpage and one byte  *)
(* more, all of RAM and one byte more.                                     *)
(***************************************************************************)
EXTENDS BootChecks

Firmwares == {0, 1, kernel_align, kernel_align + 1, RamBytes, RamBytes + 1}
Kernels   == {0, 1, RamBytes - kernel_align, RamBytes}

=============================================================================
