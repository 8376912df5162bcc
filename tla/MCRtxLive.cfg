SPECIFICATION FairRtxSpec
CONSTANTS
  Sources <- const_Sources
  Sinks <- const_Sinks
  Requests <- const_Requests
  Compatible <- const_CS7000
  Modes <- const_FM
  MaxPathId = 10
  BufSize = 1
  PromptFrames = 2
  BeepTicks = 1
  MaxEvents = 3
PROPERTIES ListensAgain CallIsHeard PromptEnds
