\* Three heap cells: the output gate and two more, of any registered type.
SPECIFICATION GraphSpec
CONSTANTS
  g1 = g1
  g2 = g2
  g3 = g3
  source = source
  mixer = mixer
  sink = sink
  unregistered = unregistered
  nOut = nOut
  nA = nA
  nB = nB
  NULL = NULL
  Gate = {g1, g2, g3}
  Name = {nOut, nA, nB}
  Type = {source, mixer, sink, unregistered}
  Nins <- MCNins
  OutputType = sink
  OutputName = nOut
  MaxCx = 2
SYMMETRY Symmetry
INVARIANTS GraphTypeOK Mirror NoDangling OneName
PROPERTY Bystanders
CHECK_DEADLOCK FALSE
