\* Lifecycle of the gateway and linksharing commands: shutdown on a signal and release of the peer.
CONSTANTS
  Services <- MCBoth
SPECIFICATION Spec
INVARIANTS
  PeerReleasedOnReturn
PROPERTIES
  ShutdownOnSignal
CHECK_DEADLOCK FALSE
