SPECIFICATION Spec
CONSTANTS
  Elem = {1, 2}
  Presize = 2
  MaxSize = 3
  UNSET = UNSET
  Char = {a, b}
  MaxLen = 6
  ChunkSize = 3
  Prealloc = 3
  Thread = {main}
  Text = {x, y}
  Calls = 3
  Nothing = Nothing
  GateType = {t}
  GateName = {output, wave}
  Word = {p, q}
  Value = {0, 1}
  MaxIns = 2
  MaxParam = 2
INVARIANTS PartsTypeOK PlaceIsBetween LinksAreFields LinkFits HeldKeepText RegistrationSound ReadsBack ObjectsAreGates
PROPERTIES ArrayIsList OperationsEnd
CHECK_DEADLOCK FALSE
