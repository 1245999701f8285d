SPECIFICATION Spec
CONSTANTS
  PatchLengths = {1, 2016}
  ConfigLengths = {0, 63}
  ConfigSpeeds = {"4003", "7001"}
  BtSessions = 2
  Cards = {0, 1}
  Codec = 0
  Pluggable = {1}
  Fallback = {0, 1}
  Modes = {"normal", "comm", "call"}
  Devices = {"speaker", "hdmi"}
INVARIANTS FirmwareWhole CommandsInEights SpeedsAgree QuietAfterReport
  CallOwnsCodec EchoAlive RouteFollows HandlesComplete
PROPERTIES ConfigReported ModeChangeEnds
CHECK_DEADLOCK FALSE
