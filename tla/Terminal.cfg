CONSTANTS
  MaxOutput = 2
  SnapshotThreshold = 2
  Headless = TRUE
  FrameLimit = 1
  MaxLog = 3
  PageSize = 2
SPECIFICATION Spec
INVARIANTS OutputAccounted DroppedIsDue ShownUnlessMissed NotInterleaved
PROPERTIES ScreenGrows
CHECK_DEADLOCK FALSE
