SPECIFICATION MCSeqSpec
CONSTANTS
  outputType = outputType
  inputType = inputType
  adderType = adderType
  gliderType = gliderType
  sineType = sineType
  gOut = gOut
  gA = gA
  gB = gB
  gC = gC
  nOut = nOut
  nA = nA
  nB = nB
  nC = nC
  NULL = NULL
  Gate = {gOut, gA, gB, gC}
  Name = {nOut, nA, nB, nC}
  Type = {outputType, inputType, adderType, gliderType, sineType}
  Typings <- SeqTypings
  Nins <- MCNins
  Kind <- MCKind
  OutputType = outputType
  OutputName = nOut
  MaxCx = 3
  IdMod = 8
  FirstId = 4
  SampleCount = 1
  MaxCycles = 2
  MaxCommands = 1
INVARIANTS RunTypeOK BuffersHeld OnlyMissingPitch OutputIsGraph
PROPERTY CycleIsOneStep
CHECK_DEADLOCK FALSE
