SPECIFICATION RtxSpec
CONSTANTS
  Sources <- const_Sources
  Sinks <- const_Sinks
  Requests <- const_Requests
  Compatible <- const_MDx
  Modes <- const_Both
  MaxPathId = 7
  BufSize = 1
  PromptFrames = 2
  BeepTicks = 1
  MaxEvents = 3
INVARIANTS
  RtxTypeOK NoPathLeaked ActiveCompatible FmTalksAlone
  M17ReceiverFed M17TransmitterFed OffAfterDisable AppliedIsLatest
