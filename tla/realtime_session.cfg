SPECIFICATION Spec
CONSTANTS
  SttKinds = {"groq", "openai", "elevenlabs"}
  TtsKinds = {"stream", "whole", "cached", "groq"}
  Bytes = 6
  FrameBytes = 4
  RetryLimit = 1
  MaxTurnFrames = 2
  MaxFrames = 4
  MaxSpeaks = 1
  MaxFaults = 1

  
  
PROPERTIES
  CutStaysCut
  
CHECK_DEADLOCK FALSE
