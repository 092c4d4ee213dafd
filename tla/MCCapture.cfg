CONSTANTS
  Hooks = {1, 2, 3, 4, 5}
  MaxLines = 3
  BufferLimit = 3
  KeepAll = 1
  WriteFaults = {"refused", "unanswered"}
SPECIFICATION CaptureSpec
CHECK_DEADLOCK FALSE
INVARIANTS CapturesKept NoLineSkipped NoLineTwice IdsDiffer
