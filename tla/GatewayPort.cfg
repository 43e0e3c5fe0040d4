SPECIFICATION FairSpec
CONSTANTS
  Requests = {q1, q2}
  Ports = {80, 81, 8080}
  None = None
  Boot = Boot
  MaxCrashes = 2
INVARIANTS GatewayServes PortsAgreeAtRest
PROPERTIES RestartKeepsPort OldServersStop
CHECK_DEADLOCK FALSE
