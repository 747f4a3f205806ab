---------------------------- MODULE ClockDriver ----------------------------
(***************************************************************************)
(* A guest that uses the CLINT as a 64-bit clock and alarm through 32-bit  *)
(* accesses: it reads the high, the low and again the high half of the     *)
(* time until both high halves agree, and stores a deadline into the       *)
(* comparator, low half first.  The time goes on with every instruction:   *)
(* run_linux copies instruction_counter, a 32-bit word, into vm->cycles.   *)
(***************************************************************************)
EXTENDS VirtualMachine

CONSTANTS
  Delta,        \* how far ahead the guest sets its alarm
  MaxCounted    \* bound: the guest executes no more instructions

ASSUME ClockAssumption == Delta \in Nat /\ MaxCounted \in Nat

VARIABLES
  counted,    \* history: instructions executed, never wrapped
  phase,      \* where the guest is
  high, low,  \* the registers the guest reads into
  started,    \* history: counted when the guest began to read
  deadline    \* what the guest stores, as a 64-bit word

clockVars == <<vm, counted, phase, high, low, started, deadline>>

ClockInit ==
  /\ vm = InitialMachine /\ counted = 0 /\ phase = "other"
  /\ high = 0 /\ low = 0 /\ started = 0 /\ deadline = Zero64

\* instruction_counter after `n` instructions.
instruction_counter(n) == n % HalfSize

\* The instruction leaves the machine as `machine`; then run_linux copies the counter.
Executed(machine) ==
  /\ counted < MaxCounted
  /\ counted' = counted + 1
  /\ vm' = [machine EXCEPT !.cycles = instruction_counter(counted')]

At(from, to) == phase = from /\ phase' = to

Other ==
  /\ At("other", "other")
  /\ Executed(vm)
  /\ UNCHANGED <<high, low, started, deadline>>

ReadHigh ==
  /\ At("other", "read_low") \/ At("again", "read_low")
  /\ Executed(vm)
  /\ high' = clint_read(vm, SIFIVE_TIME_HIGH)
  /\ started' = IF phase = "other" THEN counted ELSE started
  /\ UNCHANGED <<low, deadline>>

ReadLow ==
  /\ At("read_low", "check")
  /\ Executed(vm)
  /\ low' = clint_read(vm, SIFIVE_TIME_LOW)
  /\ UNCHANGED <<high, started, deadline>>

\* Each half comes from the sum of a 64-bit addition in the guest.
CheckHigh ==
  /\ LET agrees == clint_read(vm, SIFIVE_TIME_HIGH) = high
         sum    == low + Delta
     IN  /\ At("check", IF agrees THEN "store_low" ELSE "again")
         /\ deadline' = IF agrees
                        THEN [high |-> high + sum \div HalfSize, low |-> sum % HalfSize]
                        ELSE deadline
  /\ Executed(vm)
  /\ UNCHANGED <<high, low, started>>

StoreDeadlineLow ==
  /\ At("store_low", "store_high")
  /\ Executed(clint_write(vm, SIFIVE_TIMECMP_LOW, deadline.low))
  /\ UNCHANGED <<high, low, started, deadline>>

StoreDeadlineHigh ==
  /\ At("store_high", "other")
  /\ Executed(clint_write(vm, SIFIVE_TIMECMP_HIGH, deadline.high))
  /\ UNCHANGED <<high, low, started, deadline>>

ClockNext ==
  \/ Other \/ ReadHigh \/ ReadLow \/ CheckHigh \/ StoreDeadlineLow \/ StoreDeadlineHigh

ClockSpec == ClockInit /\ [][ClockNext]_clockVars

-----------------------------------------------------------------------------
\* The three reads of the time return a value the clock had while they ran,
\* although it advances between them and wraps.  The counter has 32 bits, so its
\* high half is always 0 and the retry never happens: what can go wrong is a
\* high half that is not 0 or a low half that the clock did not have.
TimeNotTorn ==
  phase = "store_low" =>
    \E n \in started .. counted : [high |-> high, low |-> low] =
      [high |-> instruction_counter(n) \div HalfSize, low |-> instruction_counter(n) % HalfSize]

\* After both stores the comparator holds the deadline, whatever deadline was
\* there before: the store to the low half drops the old high half, and the one
\* to the high half keeps the new low half.
AlarmIsDeadline ==
  phase = "other" => vm.timecmp = deadline

=============================================================================
