SPECIFICATION Spec
CONSTANTS
  Sources <- const_Sources
  Sinks <- const_Sinks
  Requests <- const_Requests
  Compatible <- const_CS7000
  MaxPathId = 5
INVARIANTS
  TypeOK ActiveAgrees ListsMirror SuspendedWaitsForActive NothingLeftConnected
PROPERTIES StatusSteps
