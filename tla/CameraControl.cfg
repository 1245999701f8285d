\* A USB camera; the application waits for a picture before the next call that needs the device.
SPECIFICATION Spec
CONSTANTS
  FastPicture = FALSE
  IsUvc = TRUE
  ImageCaptureIntent = FALSE
  QueueMax = 5
  WaitsForPicture = TRUE
  MaxCalls = 5
  MaxFaults = 1
INVARIANTS NoSleepOnPicture PreviewConsistent IdleReleased
PROPERTIES PreviewComesBack
