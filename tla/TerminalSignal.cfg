CONSTANTS
  MaxOutput = 2
  SnapshotThreshold = 2
  Headless = TRUE
  FrameLimit = 4
  MaxLog = 3
  PageSize = 2
SPECIFICATION Spec
PROPERTIES RecordingReadable
CHECK_DEADLOCK FALSE
