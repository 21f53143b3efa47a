\* Two inits, one other command and the service; the two migrations there are.
CONSTANTS
  Inits = {i1, i2}
  Cmds = {c1}
  Serve = serve
  None = None
  Latest = 2
  MaxFaults = 2
  MaxMoves = 1
SPECIFICATION Spec
INVARIANTS
  TypeOK
  SchemaExact
  RunningKeepsFooting
PROPERTIES
  InitComplete
  ServeComesUp
