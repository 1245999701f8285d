CONSTANTS
  NB_BUFFER = 2
  PictureQueue = 1
  Consumers = {"preview", "picture"}
  Modes = {"NORMAL", "FAST"}
  ContinuousMax = 1
  VideoHint = TRUE
  HwEncoder = FALSE
  MaxStarts = 2
  MaxEncoder = 1
SPECIFICATION Spec
INVARIANTS CountedOutsideDriver NoFrameLost CaptureOnlyStreaming
