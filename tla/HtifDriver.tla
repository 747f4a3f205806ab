----------------------------- MODULE HtifDriver -----------------------------
(***************************************************************************)
(* A guest's console driver on the HTIF registers.  It waits for tohost to *)
(* be zero, reading one half per instruction, and stores a command, the    *)
(* low half first, because the store to the high half executes it.         *)
(* Between prints it polls for a key.                                      *)
(***************************************************************************)
EXTENDS VirtualMachine

CONSTANT Nothing    \* no request

Char     == 0 .. ByteSize - 1
PowerOff == ByteSize

ASSUME NothingAssumption == Nothing \notin Char \cup {PowerOff}

VARIABLES
  step,       \* where the driver is
  request     \* what it was asked for: a character, PowerOff or Nothing

driverVars == <<vm, step, request>>

DriverInit == vm = InitialMachine /\ step = "idle" /\ request = Nothing

AskFor(r) ==
  /\ Running /\ step = "idle"
  /\ request' = r
  /\ step' = "wait_low"
  /\ UNCHANGED vm

\* A poll for a key is a command without an answer.
Poll ==
  /\ Running /\ step = "idle"
  /\ step' = "wait_low"
  /\ UNCHANGED <<vm, request>>

Wait(from, offset, to) ==
  /\ Running /\ step = from
  /\ step' = IF htif_read(vm, offset) = 0 THEN to ELSE "wait_low"
  /\ UNCHANGED <<vm, request>>

LowWord == CASE request = PowerOff -> 1
             [] request \in Char   -> request
             [] OTHER              -> 0

Command(cmd) == (CONSOLE_DEVICE * ByteSize + cmd) * ByteSize * ByteSize

HighWord == CASE request = PowerOff -> 0
              [] request \in Char   -> Command(PUTCHAR)
              [] OTHER              -> Command(GETCHAR)

StoreLowWord ==
  /\ Running /\ step = "store_low"
  /\ vm' = htif_write(vm, 0, LowWord)
  /\ step' = "store_high"
  /\ UNCHANGED request

StoreHighWord ==
  /\ Running /\ step = "store_high"
  /\ vm' = htif_write(vm, 1, HighWord)
  /\ step' = "idle"
  /\ request' = Nothing

DriverStep ==
  \/ Wait("wait_low", 0, "wait_high") \/ Wait("wait_high", 1, "store_low")
  \/ StoreLowWord \/ StoreHighWord

DriverNext == (\E r \in Char \cup {PowerOff} : AskFor(r)) \/ Poll \/ DriverStep

\* run_linux calls emulate_op for ever, and the driver's own instructions are
\* the next ones until its command is stored.
DriverSpec == DriverInit /\ [][DriverNext]_driverVars /\ WF_driverVars(DriverStep)

-----------------------------------------------------------------------------
AbstractConsole ==
  INSTANCE Console WITH asked <- request, shown <- vm.output, off <- vm.exit_code = "EXIT_POWEROFF"

\* The driver and the device together are a console: what is asked is shown
\* once and in order, a poll shows nothing, and the machine goes off only when
\* asked.  It rests on the store to the low half having no effect of its own.
ShowsWhatIsAsked ==
  AbstractConsole!ConsoleInit /\ [][AbstractConsole!ConsoleNext]_(AbstractConsole!consoleVars)

\* Every request is served: the driver waits for tohost to become zero, so
\* htif_handle_cmd has to empty it after every command the driver uses.
RequestsServed == request # Nothing ~> request = Nothing

=============================================================================
