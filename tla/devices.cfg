SPECIFICATION DeviceSpec
CONSTANTS
  DevName = {n1, n2}
  DevPath = {p1, p2}
  BLANK = BLANK
  Status = {on, off}
  Data = {lo, hi}
  MaxLines = 2
  MaxReads = 6
  UNWRITTEN = UNWRITTEN
SYMMETRY Symmetry
INVARIANTS DeviceTypeOK MessagesParsed OnlyFirstLost
PROPERTIES IDsIdentify EndLineAddsNothing
CHECK_DEADLOCK FALSE
