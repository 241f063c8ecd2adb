SPECIFICATION TempSpec
CONSTANTS
  Thread = {main, audio}
  Text = {x, y}
  Calls = 2
  Nothing = Nothing
INVARIANT GivenIsUsed
CHECK_DEADLOCK FALSE
