SPECIFICATION MCConcSpec
CONSTANTS
  outputType = outputType
  inputType = inputType
  adderType = adderType
  gliderType = gliderType
  sineType = sineType
  gOut = gOut
  gA = gA
  gB = gB
  gC = gC
  nOut = nOut
  nA = nA
  nB = nB
  nC = nC
  NULL = NULL
  Gate = {gOut, gA, gB}
  Name = {nOut, nA, nB}
  Type = {outputType, inputType, adderType}
  Typings <- ConcTypings
  Nins <- MCNins
  Kind <- MCKind
  OutputType = outputType
  OutputName = nOut
  MaxCx = 2
  IdMod = 8
  FirstId = 4
  SampleCount = 1
  MaxCycles = 2
  MaxCommands = 1
INVARIANT NoFault
CHECK_DEADLOCK FALSE
