SPECIFICATION InputSpec
CONSTANTS
  EMPTY = EMPTY
  JUNK = JUNK
  Sender = {s1}
  Event = {e1}
  StartAlloc = 4
  MaxEvents = 2
  MaxSends = 6
PROPERTY NoneDropped
