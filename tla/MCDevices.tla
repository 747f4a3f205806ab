----------------------------- MODULE MCDevices -----------------------------
(***************************************************************************)
(* Devices with bytes of two values and at most MaxOutput characters.  The *)
(* guest stores to the registers the handlers distinguish and loads at     *)
(* both edges of every range.                                              *)
(***************************************************************************)
EXTENDS Devices

CONSTANT MaxOutput

Edges == UNION {{r.address - 1, r.address, r.address + r.size - 1, r.address + r.size} :
                  r \in {Registrations[i] : i \in DOMAIN Registrations}}

MCGuestAddress == Edges \cap 0 .. AddressSpace - 1

\* 12 is the console's put-character word, 8 its get-character word; the
\* other registers get enough words to see a half change.
MCGuestStore ==
  ({HTIF_BASE_ADDR, HTIF_BASE_ADDR + 1} \X {0, 1, 8, 12})
    \cup ({HTIF_BASE_ADDR + 2, HTIF_BASE_ADDR + 3} \X {0, 3})
    \cup ({CLINT_BASE_ADDR + SIFIVE_TIMECMP_LOW, CLINT_BASE_ADDR + SIFIVE_TIMECMP_HIGH} \X {5})
    \cup ({UART_BASE_ADDR, UART_BASE_ADDR + 7} \X {0, 1})
    \cup {<<RAM_BASE_ADDR, 1>>}

MCSpec == DevicesInit /\ [][Len(vm.output) < MaxOutput /\ DevicesNext]_deviceVars

=============================================================================
