SPECIFICATION FairSpec
CONSTANTS
  BufLines = 2
  FileLines = 3
  MaxLines = 4
PROPERTY RecordingRecovers
CHECK_DEADLOCK FALSE
