SPECIFICATION Spec
CONSTANTS
  p = p
  q = q
  core = core
  Ports = {p, q}
  FirstPort = p
  Services = {core}
  MaxPid = 2
  MaxCA = 2
  Seconds = 2
  Tries = 2
  MaxInFlight = 2
  MaxActs = 3
INVARIANTS TypeOK  AcksAreFresh 
CHECK_DEADLOCK FALSE
