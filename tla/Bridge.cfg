SPECIFICATION Spec
CONSTANTS
  Ports = {1, 2, 3}
INVARIANTS OnePortAtATime OpenPortHasAReader
PROPERTIES ReadersCloseTheirOwnPort BridgeReopens
CHECK_DEADLOCK FALSE
