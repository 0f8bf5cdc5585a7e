SPECIFICATION FmtSpec
CONSTANTS
  Blocks = {3, 4}
  MaxGroups = 1
  MaxFmt = 2
  MaxText = 5
PROPERTIES
  FmtEnds
CHECK_DEADLOCK FALSE
