\* A failure of peer.Run: does cmdRun return g.Wait()'s error?
CONSTANTS
  Services <- MCGateway
SPECIFICATION Spec
PROPERTY
  ExitsAfterRunFails
CHECK_DEADLOCK FALSE
