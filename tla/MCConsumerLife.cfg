SPECIFICATION LifeSpec
CONSTANTS
  MaxEvents = 2
  MaxLosses = 2
  MaxStreams = 5
  depthSampleInterval = 1
  minDepthSampleInterval = 2
  maxDepthSampleBackoff = 3
  hasDLQ = TRUE
  MaxSamples = 2
INVARIANTS PauseSound  SamplerSound
 
CHECK_DEADLOCK FALSE
