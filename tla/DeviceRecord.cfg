CONSTANTS
  NB_BUFFER = 2
  PictureQueue = 1
  Consumers = {"preview", "face"}
  Modes = {"NORMAL"}
  ContinuousMax = 1
  VideoHint = FALSE
  HwEncoder = TRUE
  MaxStarts = 2
  MaxEncoder = 1
SPECIFICATION FairSpec
INVARIANTS AvailMatchesDriver MappedWhileUsed
PROPERTIES StopTerminates
