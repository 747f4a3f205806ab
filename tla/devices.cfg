SPECIFICATION MCSpec
CONSTANTS
  ByteSize = 2
  Unprintable = {0}
  GuestAddress <- MCGuestAddress
  GuestStore <- MCGuestStore
  MaxOutput = 2
INVARIANTS TargetInside CommandsDoNotMix
PROPERTY OutputOnlyByCommand
CHECK_DEADLOCK FALSE
