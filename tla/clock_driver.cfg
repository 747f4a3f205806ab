SPECIFICATION ClockSpec
CONSTANTS
  ByteSize = 2
  Unprintable = {0}
  Delta = 5
  MaxCounted = 36
INVARIANTS TimeNotTorn AlarmIsDeadline
CHECK_DEADLOCK FALSE
