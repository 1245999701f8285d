CONSTANTS
  NB_BUFFER = 2
  PictureQueue = 1
  Consumers = {"preview", "smart", "continuous"}
  Modes = {"SMART", "CONTINUOUS"}
  ContinuousMax = 1
  VideoHint = TRUE
  HwEncoder = FALSE
  MaxStarts = 1
  MaxEncoder = 1
SPECIFICATION Spec
INVARIANTS HeldFramesOutOfDriver
