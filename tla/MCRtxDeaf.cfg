SPECIFICATION FairRtxSpec
CONSTANTS
  Sources <- const_Sources
  Sinks <- const_Sinks
  Requests <- const_Requests
  Compatible <- const_CS7000
  Modes <- const_M17
  MaxPathId = 8
  BufSize = 1
  PromptFrames = 2
  BeepTicks = 1
  MaxEvents = 2
PROPERTIES ListensAgain
