SPECIFICATION Spec
CONSTANTS
  FocusCalls = 4
  PQueueMax = 3
  PCalls = 2
  SmartCalls = 3
  Burst = 2
  WaitCount = 1
  Pictures = 3
  FrameKinds = {"small", "large"}
  WindowCalls = 3
  MaxOpens = 5
  ZCalls = 3
  ZSamples = 2
  ZReader = 3
  ZDelays = {40000}
  ZCount = 2
  KCalls = 4
  KVolumes = {3}
  QTotal = 5
  QSizes = {2, 3}
  QOpens = 2
  QSamples = 10
  DCards = 3
  DNames = 1
  DSteps = 5
  MicVolumes = {0, 100}
  MicCalls = 5
INVARIANTS FocusDeviceOpen ControlsFollow SmartOnOwnResult RightFile SaveThreadGone GeometryFits OpenCamerasDiffer
  UsedSensorOn ReaderInOrder CallOneDevice LineOnlyInCall PcmInOrder OneCapture MicFollows
CHECK_DEADLOCK FALSE
