SPECIFICATION MCSpec
CONSTANTS
  ByteSize = 3
  Unprintable = {0}
  Nothing = Nothing
  MaxOutput = 4
PROPERTIES ShowsWhatIsAsked RequestsServed
CHECK_DEADLOCK FALSE
